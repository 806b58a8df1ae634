---------------------------- MODULE IngestionProofs ----------------------------
(***************************************************************************)
(* What Ingestion keeps, in types and between its two stores, and what its *)
(* calls leave behind for later ones: the cached Candidate Profile is      *)
(* current (ProfileCurrent) and the document an upload answered is a row   *)
(* (AnswerIsADocument).  For every set of calls, names and contents and    *)
(* for every kind of failure.                                              *)
(***************************************************************************)
EXTENDS Ingestion, TLAPS

-----------------------------------------------------------------------------
(* How the steps of a call change its local state.                         *)

PCs == {"idle"} \cup InsertPC \cup MutatePC \cup RefreshPC \cup EndPC

LEMMA PCsList ==
    PCs = {"idle", "dedup", "create", "reread", "rows", "upsert", "undoRows", "undoDoc",
           "setHash", "select", "dropRows", "dropVectors", "deleteDoc", "flag",
           "flagRaise", "assemble", "extract", "done", "failed", "lost"}
  BY DEF PCs, InsertPC, MutatePC, RefreshPC, EndPC

LEMMA NoCallType == NoCall \in Call
  BY PCsList DEF PCs, NoCall, Call

\* Only call r moves, to a state of the right type.
OnlyCall(r) ==
    /\ call' \in [Request -> Call]
    /\ \A q \in Request \ {r} : call'[q] = call[q]

LEMMA GotoFacts ==
    ASSUME TypeOK, NEW r \in Request, NEW label \in PCs, Goto(r, label)
    PROVE  /\ OnlyCall(r)
           /\ call'[r].pc = label
           /\ call'[r].mode = call[r].mode
           /\ call'[r].filename = call[r].filename
           /\ call'[r].content = call[r].content
           /\ call'[r].doc = call[r].doc
           /\ call'[r].chunks = call[r].chunks
           /\ call'[r].wrote = call[r].wrote
  BY DEF Goto, TypeOK, Call, PCs, OnlyCall

LEMMA CarryFacts ==
    ASSUME TypeOK, NEW r \in Request, NEW label \in PCs, NEW rows \in SUBSET Chunk,
           Carry(r, label, rows)
    PROVE  /\ OnlyCall(r)
           /\ call'[r].pc = label
           /\ call'[r].mode = call[r].mode
           /\ call'[r].filename = call[r].filename
           /\ call'[r].content = call[r].content
           /\ call'[r].doc = call[r].doc
           /\ call'[r].chunks = rows
           /\ call'[r].wrote = call[r].wrote
  <1> DEFINE new == [call[r] EXCEPT !.pc = label, !.chunks = rows]
  <1>1. /\ new \in Call /\ new.pc = label /\ new.chunks = rows
        /\ new.mode = call[r].mode /\ new.filename = call[r].filename
        /\ new.content = call[r].content /\ new.doc = call[r].doc
        /\ new.wrote = call[r].wrote
    BY ZenonT(60) DEF TypeOK, Call, PCs
  <1>2. call' = [call EXCEPT ![r] = new]
    BY DEF Carry
  <1> HIDE DEF new
  <1> QED BY <1>1, <1>2 DEF TypeOK, OnlyCall

LEMMA AnswerFacts ==
    ASSUME TypeOK, NEW r \in Request, NEW how \in EndPC, NEW d \in Request \cup {None},
           Answer(r, how, d)
    PROVE  /\ OnlyCall(r)
           /\ call'[r].pc = how
           /\ call'[r].doc = d
  <1> DEFINE new == [NoCall EXCEPT !.pc = how, !.mode = call[r].mode, !.doc = d]
  <1>1. new \in Call /\ new.pc = how /\ new.doc = d
    BY NoCallType DEF TypeOK, Call
  <1>2. call' = [call EXCEPT ![r] = new]
    BY DEF Answer
  <1> HIDE DEF new
  <1> QED BY <1>1, <1>2 DEF TypeOK, OnlyCall

\* A call that begins: NoCall with some fields filled in.
LEMMA BeginFacts ==
    ASSUME TypeOK, NEW r \in Request, NEW new \in Call, call' = [call EXCEPT ![r] = new]
    PROVE  OnlyCall(r) /\ call'[r] = new
  BY DEF TypeOK, OnlyCall

-----------------------------------------------------------------------------
(* Type correctness, which needs to know what a call carries where.        *)

Local(r) ==
    LET c == call[r]
    IN  /\ c.pc \in InsertPC => c.mode = "insert" /\ c.doc = r /\ c.wrote = 0
        /\ c.pc \in MutatePC => c.mode \in {"insert", "reindex", "delete"} /\ c.doc \in Request
        /\ c.pc \in InsertPC \cup MutatePC /\ c.mode # "delete" =>
              c.filename \in Filename /\ c.content \in Content
        /\ c.pc \in {"select", "dropRows", "dropVectors"} =>
              c.mode \in {"reindex", "delete"} /\ c.wrote = 0
        /\ c.pc \in {"deleteDoc", "flagRaise"} => c.mode = "delete"
        /\ c.pc = "setHash" => c.mode = "reindex"
        /\ c.pc \in {"undoRows", "undoDoc"} => c.mode = "insert"
        /\ c.pc \in {"rows", "upsert"} => c.mode # "delete" /\ c.wrote <= Pieces[c.content]
        /\ c.pc \in {"upsert", "setHash"} => c.wrote = Pieces[c.content]

LocalInv == \A r \in Request : Local(r)

\* The types an action of one call can disturb, and what that call carries.
StoreType ==
    /\ documents \in [Request -> Row \cup {None}]
    /\ chunkRows \subseteq Chunk
    /\ vectors \subseteq Chunk
    /\ profile \in Profile \cup {None}

Kept(r) == StoreType' /\ OnlyCall(r) /\ Local(r)'

LEMMA InitType == Init => TypeOK /\ LocalInv
  <1>1. Init => TypeOK
    BY Zenon, NoCallType DEF Init, TypeOK
  <1>2. Init => LocalInv
    BY DEF Init, LocalInv, Local, NoCall, InsertPC, MutatePC
  <1> QED BY <1>1, <1>2

LEMMA UploadKeepsType ==
    ASSUME TypeOK, LocalInv, NEW r \in Request, Upload(r)
    PROVE  Kept(r)
  <1> USE DEF StoreType, stores
  <1>1. ASSUME NEW f \in Filename, NEW c \in Content, IngestText(r, f, c)
        PROVE  Kept(r)
    <2> DEFINE start == [NoCall EXCEPT !.filename = f, !.content = c]
    <2>1. CASE call' = [call EXCEPT ![r] =
                          [start EXCEPT !.pc = "dedup", !.mode = "insert", !.doc = r]]
      <3> DEFINE new == [start EXCEPT !.pc = "dedup", !.mode = "insert", !.doc = r]
      <3>1. /\ new \in Call /\ new.pc = "dedup" /\ new.mode = "insert" /\ new.doc = r
            /\ new.wrote = 0 /\ new.filename = f /\ new.content = c
        BY PCsList DEF Call, PCs, NoCall
      <3> HIDE DEF new
      <3>2. OnlyCall(r) /\ call'[r] = new
        BY <2>1, <3>1, BeginFacts DEF new
      <3> QED
        BY ZenonT(60), <1>1, <3>1, <3>2 DEF IngestText, Kept, Local, TypeOK, InsertPC, MutatePC
    <2>2. ASSUME NEW d \in Request,
                 call' = [call EXCEPT ![r] =
                            [NoCall EXCEPT !.pc = "done", !.mode = "insert", !.doc = d]]
          PROVE  Kept(r)
      <3> DEFINE new == [NoCall EXCEPT !.pc = "done", !.mode = "insert", !.doc = d]
      <3>1. new \in Call /\ new.pc = "done"
        BY PCsList DEF Call, PCs, NoCall
      <3> HIDE DEF new
      <3>2. OnlyCall(r) /\ call'[r] = new
        BY <2>2, <3>1, BeginFacts DEF new
      <3> QED
        BY <1>1, <3>1, <3>2 DEF IngestText, Kept, Local, TypeOK, InsertPC, MutatePC
    <2>3. ASSUME NEW d \in Request,
                 call' = [call EXCEPT ![r] =
                            [start EXCEPT !.pc = "select", !.mode = "reindex", !.doc = d]]
          PROVE  Kept(r)
      <3> DEFINE new == [start EXCEPT !.pc = "select", !.mode = "reindex", !.doc = d]
      <3>1. /\ new \in Call /\ new.pc = "select" /\ new.mode = "reindex" /\ new.doc = d
            /\ new.wrote = 0 /\ new.filename = f /\ new.content = c
        BY PCsList DEF Call, PCs, NoCall
      <3> HIDE DEF new
      <3>2. OnlyCall(r) /\ call'[r] = new
        BY <2>3, <3>1, BeginFacts DEF new
      <3> QED
        BY <1>1, <3>1, <3>2 DEF IngestText, Kept, Local, TypeOK, InsertPC, MutatePC
    <2> QED
      BY ZenonT(60), <1>1, <2>1, <2>2, <2>3 DEF IngestText
  <1>2. CASE DedupByContent(r)
    <2>1. CASE Goto(r, "create")
      BY <1>2, <2>1, GotoFacts, PCsList
      DEF DedupByContent, TypeOK, LocalInv, Local, Kept, InsertPC, MutatePC
    <2>2. CASE \E d \in Request : Answer(r, "done", d)
      BY <1>2, <2>2, AnswerFacts DEF DedupByContent, TypeOK, Kept, Local, InsertPC, MutatePC, EndPC
    <2> QED BY <1>2, <2>1, <2>2 DEF DedupByContent, SameContent
  <1>3. CASE CreateDocument(r)
    <2>1. CASE Goto(r, "reread") /\ UNCHANGED documents
      BY <1>3, <2>1, GotoFacts, PCsList
      DEF CreateDocument, TypeOK, LocalInv, Local, Kept, InsertPC, MutatePC
    <2>2. CASE /\ documents' = [documents EXCEPT ![r] =
                     [filename |-> call[r].filename, hash |-> call[r].content]]
               /\ Goto(r, "rows")
      <3>1. OnlyCall(r) /\ Local(r)'
        BY <1>3, <2>2, GotoFacts, PCsList, IngestionAssumption
        DEF CreateDocument, TypeOK, LocalInv, Local, InsertPC, MutatePC
      <3>2. call[r].filename \in Filename /\ call[r].content \in Content
        BY <1>3 DEF CreateDocument, LocalInv, Local, InsertPC
      <3> QED BY <1>3, <2>2, <3>1, <3>2 DEF CreateDocument, TypeOK, Kept, Row
    <2> QED BY <1>3, <2>1, <2>2 DEF CreateDocument
  <1>4. CASE Reread(r)
    BY <1>4, AnswerFacts
    DEF Reread, SameContent, TypeOK, Kept, Local, InsertPC, MutatePC, EndPC
  <1>5. CASE WriteChunkRow(r)
    <2>1. /\ call[r].content \in Content /\ call[r].doc \in Request /\ call[r].mode # "delete"
          /\ call[r].wrote \in Nat /\ call[r].wrote + 1 <= Pieces[call[r].content]
      BY <1>5, IngestionAssumption DEF WriteChunkRow, TypeOK, Call, LocalInv, Local, MutatePC
    <2>2. CASE call' = [call EXCEPT ![r].wrote = call[r].wrote + 1]
      <3>1. /\ OnlyCall(r)
            /\ call'[r].wrote = call[r].wrote + 1
            /\ call'[r].pc = call[r].pc /\ call'[r].mode = call[r].mode
            /\ call'[r].doc = call[r].doc /\ call'[r].content = call[r].content
            /\ call'[r].filename = call[r].filename
        BY <2>1, <2>2 DEF TypeOK, Call, OnlyCall
      <3>2. Local(r)'
        BY <1>5, <2>1, <3>1 DEF WriteChunkRow, LocalInv, Local, InsertPC, MutatePC
      <3>3. [by |-> r, index |-> call[r].wrote + 1, doc |-> call[r].doc,
             content |-> call[r].content] \in Chunk
        BY <2>1 DEF Chunk
      <3>4. StoreType'
        BY <1>5, <3>3, <2>1 DEF WriteChunkRow, TypeOK
      <3> QED BY <3>1, <3>2, <3>4 DEF Kept
    <2>3. CASE Answer(r, "failed", None) /\ UNCHANGED chunkRows
      BY <1>5, <2>3, AnswerFacts DEF WriteChunkRow, TypeOK, Kept, Local, InsertPC, MutatePC, EndPC
    <2> QED BY <1>5, <2>2, <2>3 DEF WriteChunkRow
  <1>6. CASE ChunkRowsWritten(r)
    BY <1>6, GotoFacts, PCsList, IngestionAssumption
    DEF ChunkRowsWritten, TypeOK, LocalInv, Local, Kept, InsertPC, MutatePC
  <1>7. CASE UpsertChunks(r)
    <2>1. Goto(r, AfterUpsert(r)) /\ AfterUpsert(r) \in {"flag", "setHash"}
          /\ (AfterUpsert(r) = "setHash" => call[r].mode # "insert")
      BY <1>7 DEF UpsertChunks, AfterUpsert
    <2>2. OnlyCall(r) /\ Local(r)'
      BY <1>7, <2>1, GotoFacts, PCsList
      DEF UpsertChunks, TypeOK, LocalInv, Local, InsertPC, MutatePC
    <2>3. Written(r, call[r].wrote) \subseteq Chunk
      BY <1>7 DEF UpsertChunks, Written, Chunk, TypeOK, Call, LocalInv, Local, MutatePC
    <2> QED BY <1>7, <2>2, <2>3 DEF UpsertChunks, Kept, TypeOK
  <1>8. CASE UpsertFails(r)
    BY <1>8, GotoFacts, AnswerFacts, PCsList
    DEF UpsertFails, TypeOK, LocalInv, Local, Kept, InsertPC, MutatePC, EndPC
  <1>9. CASE UndoChunkRows(r)
    BY <1>9, GotoFacts, PCsList
    DEF UndoChunkRows, TypeOK, LocalInv, Local, Kept, InsertPC, MutatePC
  <1>10. CASE UndoDocument(r)
    BY <1>10, AnswerFacts
    DEF UndoDocument, DropDocument, TypeOK, LocalInv, Local, Kept, InsertPC, MutatePC, EndPC
  <1>11. CASE UpdateContentHash(r)
    <2>1. /\ call[r].content \in Content /\ call[r].filename \in Filename
          /\ call[r].doc \in Request /\ call[r].mode = "reindex"
      BY <1>11 DEF UpdateContentHash, LocalInv, Local, MutatePC
    <2>2. CASE Answer(r, "failed", None) /\ UNCHANGED documents
      BY <1>11, <2>2, AnswerFacts
      DEF UpdateContentHash, TypeOK, Kept, Local, InsertPC, MutatePC, EndPC
    <2>3. ASSUME Goto(r, "flag")
          PROVE  OnlyCall(r) /\ Local(r)'
      BY <2>1, <2>3, GotoFacts, PCsList DEF Local, InsertPC, MutatePC
    <2>4. CASE Goto(r, "flag") /\ UNCHANGED documents
      BY <1>11, <2>3, <2>4 DEF UpdateContentHash, TypeOK, Kept
    <2>5. CASE /\ Goto(r, "flag") /\ Exists(call[r].doc)
               /\ documents' = [documents EXCEPT ![call[r].doc].hash = call[r].content,
                                                 ![call[r].doc].filename = call[r].filename]
      <3>1. documents[call[r].doc] \in Row
        BY <2>1, <2>5 DEF TypeOK, Exists
      <3>2. documents' \in [Request -> Row \cup {None}]
        BY <2>1, <2>5, <3>1 DEF TypeOK, Row
      <3> QED BY <1>11, <2>3, <2>5, <3>2 DEF UpdateContentHash, TypeOK, Kept
    <2> QED BY <1>11, <2>2, <2>4, <2>5 DEF UpdateContentHash
  <1> QED
    BY <1>1, <1>2, <1>3, <1>4, <1>5, <1>6, <1>7, <1>8, <1>9, <1>10, <1>11 DEF Upload

LEMMA DeleteKeepsType ==
    ASSUME TypeOK, LocalInv, NEW r \in Request, Delete(r)
    PROVE  Kept(r)
  <1> USE DEF StoreType, stores
  <1>1. ASSUME NEW d \in Request, DeleteDocument(r, d)
        PROVE  Kept(r)
    <2> DEFINE go == [NoCall EXCEPT !.pc = "select", !.mode = "delete", !.doc = d]
               no == [NoCall EXCEPT !.pc = "done", !.mode = "delete"]
    <2>1. /\ go \in Call /\ go.pc = "select" /\ go.mode = "delete" /\ go.doc = d /\ go.wrote = 0
          /\ no \in Call /\ no.pc = "done"
      BY PCsList DEF Call, PCs, NoCall
    <2>2. call' = [call EXCEPT ![r] = go] \/ call' = [call EXCEPT ![r] = no]
      BY <1>1 DEF DeleteDocument
    <2> HIDE DEF go, no
    <2>3. OnlyCall(r) /\ call'[r] \in {go, no}
      BY <2>1, <2>2, BeginFacts
    <2> QED
      BY <1>1, <2>1, <2>3 DEF DeleteDocument, Kept, Local, TypeOK, InsertPC, MutatePC
  <1>2. CASE SelectChunkRows(r)
    <2>1. RowsOf(call[r].doc) \in SUBSET Chunk
      BY DEF RowsOf, TypeOK
    <2>2. /\ OnlyCall(r)
          /\ call'[r].pc = "dropRows" /\ call'[r].mode = call[r].mode
          /\ call'[r].doc = call[r].doc /\ call'[r].wrote = call[r].wrote
          /\ call'[r].filename = call[r].filename /\ call'[r].content = call[r].content
      BY <1>2, <2>1, CarryFacts, PCsList DEF SelectChunkRows
    <2> QED
      BY <1>2, <2>2 DEF SelectChunkRows, TypeOK, LocalInv, Local, Kept, InsertPC, MutatePC
  <1>3. CASE DropChunkRows(r)
    BY <1>3, GotoFacts, PCsList
    DEF DropChunkRows, TypeOK, LocalInv, Local, Kept, InsertPC, MutatePC
  <1>4. CASE DropVectors(r)
    <2> DEFINE to == IF call[r].mode = "delete" THEN "deleteDoc" ELSE "rows"
    <2>1. /\ OnlyCall(r)
          /\ call'[r].pc = to /\ call'[r].mode = call[r].mode
          /\ call'[r].doc = call[r].doc /\ call'[r].wrote = call[r].wrote
          /\ call'[r].filename = call[r].filename /\ call'[r].content = call[r].content
      BY <1>4, CarryFacts, PCsList DEF DropVectors
    <2>2. call[r].mode # "delete" => Pieces[call[r].content] \in Nat /\ call[r].wrote = 0
      BY <1>4, IngestionAssumption DEF DropVectors, LocalInv, Local, MutatePC
    <2> QED
      BY <1>4, <2>1, <2>2 DEF DropVectors, TypeOK, LocalInv, Local, Kept, InsertPC, MutatePC
  <1>5. CASE DropVectorsFails(r)
    BY <1>5, GotoFacts, AnswerFacts, PCsList
    DEF DropVectorsFails, TypeOK, LocalInv, Local, Kept, InsertPC, MutatePC, EndPC
  <1>6. CASE DeleteRow(r)
    BY <1>6, GotoFacts, PCsList
    DEF DeleteRow, DropDocument, TypeOK, LocalInv, Local, Kept, InsertPC, MutatePC
  <1>7. CASE MarkStale(r)
    <2>1. profile' \in Profile \cup {None}
      BY <1>7 DEF MarkStale, TypeOK, Profile
    <2>2. call[r].doc \in Request
      BY <1>7 DEF MarkStale, LocalInv, Local, MutatePC
    <2>3. OnlyCall(r) /\ call'[r].pc \in EndPC
      BY <1>7, <2>2, AnswerFacts DEF MarkStale, EndPC
    <2> QED
      BY <1>7, <2>1, <2>3 DEF MarkStale, TypeOK, Kept, Local, InsertPC, MutatePC, EndPC
  <1> QED
    BY <1>1, <1>2, <1>3, <1>4, <1>5, <1>6, <1>7 DEF Delete

LEMMA RefreshKeepsType ==
    ASSUME TypeOK, LocalInv, NEW r \in Request, Refresh(r)
    PROVE  Kept(r)
  <1> USE DEF StoreType, stores
  <1>1. CASE GetOrRefresh(r)
    <2> DEFINE new == [NoCall EXCEPT
                  !.mode = "refresh",
                  !.pc = IF profile # None /\ ~profile.stale THEN "done" ELSE "assemble"]
    <2>1. new \in Call /\ new.pc \in {"done", "assemble"}
      BY PCsList DEF Call, PCs, NoCall
    <2>2. call' = [call EXCEPT ![r] = new]
      BY <1>1 DEF GetOrRefresh
    <2> HIDE DEF new
    <2>3. OnlyCall(r) /\ call'[r] = new
      BY <2>1, <2>2, BeginFacts
    <2> QED
      BY <1>1, <2>1, <2>3 DEF GetOrRefresh, Kept, Local, TypeOK, InsertPC, MutatePC
  <1>2. CASE AssembleCandidateText(r)
    <2>1. OnlyCall(r) /\ call'[r].pc = "extract"
      BY <1>2, CarryFacts, PCsList DEF AssembleCandidateText, TypeOK
    <2> QED
      BY <1>2, <2>1 DEF AssembleCandidateText, Kept, Local, TypeOK, InsertPC, MutatePC
  <1>3. CASE CacheProfile(r)
    <2>1. Text(call[r].chunks) \subseteq Content \X Nat
      BY DEF Text, TypeOK, Call, Chunk
    <2>2. [text |-> Text(call[r].chunks), stale |-> FALSE] \in Profile
      BY <2>1 DEF Profile
    <2>3. OnlyCall(r) /\ call'[r].pc = "done"
      BY <1>3, AnswerFacts DEF CacheProfile, EndPC
    <2> QED
      BY <1>3, <2>2, <2>3 DEF CacheProfile, Kept, Local, TypeOK, InsertPC, MutatePC
  <1>4. CASE ExtractionFails(r)
    BY <1>4, AnswerFacts
    DEF ExtractionFails, Kept, Local, TypeOK, InsertPC, MutatePC, EndPC
  <1> QED
    BY <1>1, <1>2, <1>3, <1>4 DEF Refresh

LEMMA CrashFacts ==
    ASSUME TypeOK, Crash
    PROVE  /\ call' \in [Request -> Call]
           /\ \A r \in Request : IF r \in Active THEN call'[r].pc = "lost" ELSE call'[r] = call[r]
  <1>1. \A r \in Request : [NoCall EXCEPT !.pc = "lost", !.mode = call[r].mode] \in Call
    BY PCsList DEF TypeOK, Call, PCs, NoCall
  <1> QED BY ZenonT(60), <1>1 DEF Crash, TypeOK, Call, NoCall

LEMMA HistoryType ==
    ASSUME TypeOK, Taint, Excuse
    PROVE  tainted' \subseteq Request /\ missed' \in BOOLEAN
  BY DEF TypeOK, Taint, Excuse

LEMMA NextType == TypeOK /\ LocalInv /\ [Next]_vars => TypeOK' /\ LocalInv'
  <1> SUFFICES ASSUME TypeOK, LocalInv, [Next]_vars
               PROVE  TypeOK' /\ LocalInv'
    OBVIOUS
  <1>1. ASSUME NEW r \in Request, Upload(r) \/ Delete(r) \/ Refresh(r), Taint, Excuse
        PROVE  TypeOK' /\ LocalInv'
    <2>1. Kept(r)
      BY <1>1, UploadKeepsType, DeleteKeepsType, RefreshKeepsType
    <2>2. \A q \in Request \ {r} : Local(q)'
      BY <2>1 DEF Kept, OnlyCall, LocalInv, Local
    <2> QED
      BY <1>1, <2>1, <2>2, HistoryType DEF Kept, OnlyCall, StoreType, TypeOK, LocalInv
  <1>2. ASSUME Crash, Taint, Excuse
        PROVE  TypeOK' /\ LocalInv'
    <2>1. \A r \in Request : Local(r)'
      BY <1>2, CrashFacts DEF LocalInv, Local, InsertPC, MutatePC
    <2> QED
      BY <1>2, <2>1, CrashFacts, HistoryType DEF Crash, stores, TypeOK, LocalInv
  <1>3. CASE UNCHANGED vars
    BY <1>3 DEF vars, stores, history, TypeOK, LocalInv, Local
  <1> QED
    BY <1>1, <1>2, <1>3 DEF Next

\* Every reachable state is of the right types, whatever calls run, fail, race
\* or are lost: no row, chunk or vector is made of values the call did not have.
THEOREM TypeCorrect == Spec => []TypeOK
  BY InitType, NextType, PTL DEF Spec

-----------------------------------------------------------------------------
(* The two stores agree (StoresAgree): the invariant.                      *)

\* What is in the stores for the document call r mutates, at each of its steps,
\* when no other call mutates it and none has failed on it.
Phase(r) ==
    LET d == call[r].doc
        mine == Written(r, call[r].wrote)
    IN  /\ call[r].pc = "select" => Exists(d) /\ InSync(d)
        /\ call[r].pc = "dropRows" =>
              Exists(d) /\ RowsOf(d) = call[r].chunks /\ VectorsOf(d) = call[r].chunks
        /\ call[r].pc = "dropVectors" =>
              Exists(d) /\ RowsOf(d) = {} /\ VectorsOf(d) = call[r].chunks
        /\ call[r].pc = "deleteDoc" => RowsOf(d) = {} /\ VectorsOf(d) = {}
        /\ call[r].pc \in {"rows", "upsert"} =>
              /\ Exists(d) /\ RowsOf(d) = mine /\ VectorsOf(d) = {}
              /\ call[r].mode = "insert" => documents[d].hash = call[r].content
        /\ call[r].pc = "setHash" => Exists(d) /\ RowsOf(d) = mine /\ VectorsOf(d) = mine
        /\ call[r].pc \in {"undoRows", "undoDoc"} => VectorsOf(d) = {}
        /\ call[r].pc = "undoDoc" => RowsOf(d) = {}
        /\ call[r].pc = "flag" => InSync(d)

DocInv(d) ==
    d \notin tainted =>
        /\ \A r, q \in Request : MutatingD(r, d) /\ MutatingD(q, d) => r = q
        /\ \A r \in Request : MutatingD(r, d) => Phase(r)
        /\ Settled(d) => InSync(d)

\* A document has no row, and no call works on it, before its upload inserts it.
Born(d) ==
    call[d].pc \in {"idle"} \cup InsertPC => ~Exists(d) /\ Settled(d)

\* What a call will remove from Chroma belongs to its document.
Own(r) ==
    call[r].pc \in {"dropRows", "dropVectors"} =>
        \A c \in call[r].chunks : c.doc = call[r].doc

StoreInv ==
    /\ \A d \in Request : DocInv(d)
    /\ \A d \in Request : Born(d)
    /\ \A r \in Request : Own(r)

LEMMA InvariantImplies == StoreInv => StoresAgree
  BY DEF StoreInv, DocInv, StoresAgree

LEMMA InitStores == Init => StoreInv
  <1> SUFFICES ASSUME Init PROVE StoreInv
    OBVIOUS
  <1>1. \A r \in Request : call[r].pc = "idle"
    BY DEF Init, NoCall
  <1>2. \A d \in Request : Settled(d) /\ ~Exists(d) /\ RowsOf(d) = {} /\ VectorsOf(d) = {}
    BY <1>1 DEF Init, Settled, MutatingD, Mutating, MutatePC, Exists, RowsOf, VectorsOf
  <1>3. \A d \in Request : DocInv(d)
    BY <1>2 DEF DocInv, Settled, InSync
  <1>4. \A d \in Request : Born(d) /\ Own(d)
    BY <1>1, <1>2 DEF Born, Own
  <1> QED BY <1>3, <1>4 DEF StoreInv

-----------------------------------------------------------------------------
(* A step of call r, seen from the documents.                              *)

\* The step leaves the stores of document d alone.
SameStores(d) ==
    /\ RowsOf(d)' = RowsOf(d)
    /\ VectorsOf(d)' = VectorsOf(d)
    /\ documents'[d] = documents[d]

LEMMA SameStoresSync ==
    ASSUME NEW d \in Request, SameStores(d)
    PROVE  /\ InSync(d)' <=> InSync(d)
           /\ Exists(d)' <=> Exists(d)
  BY DEF SameStores, InSync, Exists, WholeDocument

\* A document that call r does not work on keeps its part of the invariant.
LEMMA OtherDocument ==
    ASSUME TypeOK, Taint, NEW r \in Request, OnlyCall(r), NEW d \in Request,
           SameStores(d), ~MutatingD(r, d), ~MutatingD(r, d)', DocInv(d)
    PROVE  DocInv(d)'
  <1> SUFFICES ASSUME d \notin tainted'
               PROVE  /\ \A p, q \in Request : MutatingD(p, d)' /\ MutatingD(q, d)' => p = q
                      /\ \A q \in Request : MutatingD(q, d)' => Phase(q)'
                      /\ Settled(d)' => InSync(d)'
    BY DEF DocInv
  <1>1. d \notin tainted
    BY DEF Taint
  <1>2. \A q \in Request : MutatingD(q, d)' <=> MutatingD(q, d)
    BY DEF OnlyCall, MutatingD, Mutating
  <1>3. ASSUME NEW q \in Request, MutatingD(q, d)
        PROVE  Phase(q)'
    <2>1. Phase(q) /\ call'[q] = call[q] /\ call[q].doc = d
      BY <1>1, <1>3 DEF DocInv, OnlyCall, MutatingD
    <2>2. \A n : Written(q, n)' = Written(q, n)
      BY <2>1 DEF Written
    <2> QED
      BY <2>1, <2>2, SameStoresSync DEF Phase, SameStores
  <1> QED
    BY <1>1, <1>2, <1>3, SameStoresSync DEF DocInv, Settled

\* A document that is not tainted has call r to itself.
LEMMA Alone ==
    ASSUME TypeOK, Taint, NEW r \in Request, OnlyCall(r), NEW d \in Request,
           MutatingD(r, d) \/ MutatingD(r, d)', DocInv(d), d \notin tainted'
    PROVE  /\ d \notin tainted
           /\ \A q \in Request \ {r} : ~MutatingD(q, d) /\ ~MutatingD(q, d)'
  <1>1. d \notin tainted
    BY DEF Taint
  <1>2. ASSUME NEW q \in Request \ {r}
        PROVE  ~MutatingD(q, d) /\ ~MutatingD(q, d)'
    <2>1. MutatingD(q, d)' <=> MutatingD(q, d)
      BY DEF OnlyCall, MutatingD, Mutating
    <2>2. ~(MutatingD(r, d) /\ MutatingD(q, d))
      BY <1>1 DEF DocInv
    <2>3. ~(MutatingD(r, d)' /\ MutatingD(q, d)')
      BY DEF Taint
    <2> QED BY <2>1, <2>2, <2>3
  <1> QED BY <1>1, <1>2

\* The document call r works on, when what r leaves of it is right.
LEMMA OwnDocument ==
    ASSUME TypeOK, Taint, NEW r \in Request, OnlyCall(r), NEW d \in Request,
           MutatingD(r, d) \/ MutatingD(r, d)', DocInv(d),
           d \notin tainted' => IF MutatingD(r, d)' THEN Phase(r)' ELSE InSync(d)'
    PROVE  DocInv(d)'
  <1> SUFFICES ASSUME d \notin tainted'
               PROVE  /\ \A p, q \in Request : MutatingD(p, d)' /\ MutatingD(q, d)' => p = q
                      /\ \A q \in Request : MutatingD(q, d)' => Phase(q)'
                      /\ Settled(d)' => InSync(d)'
    BY DEF DocInv
  <1>1. \A q \in Request \ {r} : ~MutatingD(q, d)'
    BY Alone
  <1> QED BY <1>1 DEF Settled

\* A step of a call that changes no document and no chunk.
LEMMA QuietStep ==
    ASSUME TypeOK, StoreInv, Taint, NEW r \in Request, OnlyCall(r),
           UNCHANGED <<documents, chunkRows, vectors>>, ~Mutating(r), ~Mutating(r)',
           call'[r].pc \in {"idle"} \cup InsertPC => call[r].pc \in {"idle"} \cup InsertPC
    PROVE  StoreInv'
  <1>1. ASSUME NEW d \in Request
        PROVE  DocInv(d)' /\ SameStores(d)
    BY OtherDocument DEF SameStores, RowsOf, VectorsOf, MutatingD, StoreInv
  <1>2. ASSUME NEW d \in Request
        PROVE  Born(d)'
    <2>1. Settled(d) => Settled(d)'
      BY DEF Settled, MutatingD, Mutating, OnlyCall
    <2> QED
      BY <2>1 DEF StoreInv, Born, OnlyCall, Exists
  <1>3. ASSUME NEW q \in Request
        PROVE  Own(q)'
    BY DEF StoreInv, Own, OnlyCall, Mutating, MutatePC
  <1> QED BY <1>1, <1>2, <1>3 DEF StoreInv

\* A step of a call that works on document d, or begins to.
LEMMA WorkStep ==
    ASSUME TypeOK, StoreInv, Taint, NEW r \in Request, OnlyCall(r), NEW d \in Request,
           Mutating(r) \/ Mutating(r)',
           Mutating(r) => call[r].doc = d,
           Mutating(r)' => call'[r].doc = d,
           \A e \in Request \ {d} : SameStores(e),
           Mutating(r) \/ Exists(d) \/ d = r,
           Exists(d)' => Exists(d) \/ d = r,
           call'[r].pc \in MutatePC \cup EndPC,
           Own(r)',
           d \notin tainted' => IF Mutating(r)' THEN Phase(r)' ELSE InSync(d)'
    PROVE  StoreInv'
  <1>1. ASSUME NEW e \in Request
        PROVE  DocInv(e)'
    <2>1. CASE e = d
      BY <2>1, OwnDocument DEF MutatingD, StoreInv
    <2>2. CASE e # d
      BY <2>2, OtherDocument DEF MutatingD, StoreInv
    <2> QED BY <2>1, <2>2
  <1>2. ASSUME NEW e \in Request
        PROVE  Born(e)'
    <2>1. CASE e = r
      BY <2>1 DEF Born, MutatePC, EndPC, InsertPC
    <2>2. CASE e # r
      <3> SUFFICES ASSUME call[e].pc \in {"idle"} \cup InsertPC
                   PROVE  ~Exists(e)' /\ Settled(e)'
        BY <2>2 DEF Born, OnlyCall
      <3>1. ~Exists(e) /\ Settled(e)
        BY DEF StoreInv, Born
      <3>2. e # d
        BY <2>2, <3>1 DEF Settled, MutatingD
      <3>3. ~Exists(e)'
        BY <3>1, <3>2, SameStoresSync
      <3>4. Settled(e)'
        BY <3>1, <3>2 DEF Settled, MutatingD, Mutating, OnlyCall
      <3> QED BY <3>3, <3>4
    <2> QED BY <2>1, <2>2
  <1>3. ASSUME NEW q \in Request
        PROVE  Own(q)'
    BY DEF StoreInv, Own, OnlyCall
  <1> QED BY <1>1, <1>2, <1>3 DEF StoreInv

\* What holds of the document when no failure and no race excuses it.
LEMMA PhaseNow ==
    ASSUME TypeOK, StoreInv, Taint, NEW r \in Request, OnlyCall(r), Mutating(r),
           NEW d \in Request, call[r].doc = d, d \notin tainted'
    PROVE  Phase(r)
  BY Alone DEF StoreInv, DocInv, MutatingD

LEMMA SyncNow ==
    ASSUME TypeOK, StoreInv, Taint, NEW r \in Request, OnlyCall(r), ~Mutating(r),
           Mutating(r)', NEW d \in Request, call'[r].doc = d, d \notin tainted'
    PROVE  InSync(d)
  BY Alone DEF StoreInv, DocInv, MutatingD, Settled

\* A call that fails leaves its document tainted.
LEMMA FailureTaints ==
    ASSUME Taint, NEW r \in Request, Mutating(r), NEW d \in Request, call[r].doc = d,
           call'[r].pc \in {"failed", "lost"}, call[r].pc # "undoDoc"
    PROVE  d \in tainted'
  BY DEF Taint, MutatingD

-----------------------------------------------------------------------------
(* One step per action.                                                    *)

\* Only the rows, or only the vectors, of the document of r are changed.
LEMMA OtherStores ==
    ASSUME NEW d \in Request,
           \A e \in Request \ {d} : documents'[e] = documents[e],
           \A c : c.doc # d => (c \in chunkRows' <=> c \in chunkRows),
           \A c : c.doc # d => (c \in vectors' <=> c \in vectors)
    PROVE  \A e \in Request \ {d} : SameStores(e)
  BY DEF SameStores, RowsOf, VectorsOf

LEMMA RefreshKeepsStores ==
    ASSUME TypeOK, LocalInv, StoreInv, Taint, NEW r \in Request, Refresh(r)
    PROVE  StoreInv'
  <1>1. OnlyCall(r)
    BY RefreshKeepsType DEF Kept
  <1>2. UNCHANGED <<documents, chunkRows, vectors>>
    BY DEF Refresh, GetOrRefresh, AssembleCandidateText, CacheProfile, ExtractionFails, stores
  <1>3. ~Mutating(r)
    BY DEF Refresh, GetOrRefresh, MayStart, AssembleCandidateText, CacheProfile,
           ExtractionFails, Mutating, MutatePC
  <1>4. call'[r].pc \in RefreshPC \cup EndPC
    <2>1. CASE GetOrRefresh(r)
      BY <2>1 DEF GetOrRefresh, TypeOK, Call, NoCall, RefreshPC, EndPC
    <2>2. CASE AssembleCandidateText(r)
      BY <2>2, CarryFacts, PCsList DEF AssembleCandidateText, TypeOK, RefreshPC
    <2>3. CASE CacheProfile(r) \/ ExtractionFails(r)
      BY <2>3, AnswerFacts DEF CacheProfile, ExtractionFails, EndPC
    <2> QED BY <2>1, <2>2, <2>3 DEF Refresh
  <1> QED
    BY <1>1, <1>2, <1>3, <1>4, QuietStep DEF Mutating, MutatePC, RefreshPC, EndPC, InsertPC

LEMMA DeleteKeepsStores ==
    ASSUME TypeOK, LocalInv, StoreInv, Taint, NEW r \in Request, Delete(r)
    PROVE  StoreInv'
  <1>0. OnlyCall(r)
    BY DeleteKeepsType DEF Kept
  <1>1. ASSUME NEW d \in Request, DeleteDocument(r, d)
        PROVE  StoreInv'
    <2>0. UNCHANGED <<documents, chunkRows, vectors>> /\ ~Mutating(r)
      BY <1>1 DEF DeleteDocument, MayStart, stores, Mutating, MutatePC
    <2>1. CASE Exists(d)
      <3>1. call'[r].pc = "select" /\ call'[r].doc = d
        BY ZenonT(60), <1>1, <2>1 DEF DeleteDocument, TypeOK, NoCall
      <3>2. \A e \in Request : SameStores(e)
        BY <2>0 DEF SameStores, RowsOf, VectorsOf
      <3>3. d \notin tainted' => Phase(r)'
        BY <1>0, <2>0, <2>1, <3>1, <3>2, SyncNow, SameStoresSync DEF Phase, Mutating, MutatePC
      <3> QED
        BY <1>0, <2>0, <2>1, <3>1, <3>2, <3>3, WorkStep DEF Mutating, MutatePC, Own
    <2>2. CASE ~Exists(d)
      <3>1. call'[r].pc = "done"
        BY <1>1, <2>2 DEF DeleteDocument, TypeOK, Call, NoCall
      <3> QED
        BY <1>0, <2>0, <3>1, QuietStep DEF Mutating, MutatePC, InsertPC
    <2> QED BY <2>1, <2>2
  <1>2. CASE SelectChunkRows(r)
    <2> PICK d \in Request : call[r].doc = d
      BY <1>2 DEF SelectChunkRows, MutatePC, LocalInv, Local
    <2>0. UNCHANGED <<documents, chunkRows, vectors>> /\ Mutating(r)
      BY <1>2 DEF SelectChunkRows, stores, Mutating, MutatePC
    <2>1. RowsOf(d) \in SUBSET Chunk
      BY DEF RowsOf, TypeOK
    <2>2. call'[r].pc = "dropRows" /\ call'[r].doc = d /\ call'[r].chunks = RowsOf(d)
      BY <1>2, <2>1, CarryFacts, PCsList DEF SelectChunkRows
    <2>3. \A e \in Request : SameStores(e)
      BY <2>0 DEF SameStores, RowsOf, VectorsOf
    <2>4. ASSUME d \notin tainted'
          PROVE  Phase(r)'
      <3>1. Exists(d) /\ InSync(d)
        BY <1>0, <1>2, <2>0, <2>4, PhaseNow DEF Phase, SelectChunkRows
      <3> QED
        BY <2>0, <2>2, <2>3, <3>1 DEF Phase, InSync, SameStores, Exists
    <2>5. Own(r)'
      BY <2>2 DEF Own, RowsOf
    <2> QED
      BY <1>0, <2>0, <2>2, <2>3, <2>4, <2>5, WorkStep DEF Mutating, MutatePC, Exists, SameStores
  <1>3. CASE DropChunkRows(r)
    <2> PICK d \in Request : call[r].doc = d
      BY <1>3 DEF DropChunkRows, MutatePC, LocalInv, Local
    <2>0. /\ Mutating(r)
          /\ documents' = documents /\ vectors' = vectors /\ chunkRows' = chunkRows \ RowsOf(d)
      BY <1>3 DEF DropChunkRows, Mutating, MutatePC
    <2>2. call'[r].pc = "dropVectors" /\ call'[r].doc = d /\ call'[r].chunks = call[r].chunks
      BY <1>3, GotoFacts, PCsList DEF DropChunkRows
    <2>3. \A e \in Request \ {d} : SameStores(e)
      BY <2>0, OtherStores DEF RowsOf
    <2>4. ASSUME d \notin tainted'
          PROVE  Phase(r)'
      <3>1. Exists(d) /\ VectorsOf(d) = call[r].chunks
        BY <1>0, <1>3, <2>0, <2>4, PhaseNow DEF Phase, DropChunkRows
      <3>2. RowsOf(d)' = {} /\ VectorsOf(d)' = VectorsOf(d) /\ (Exists(d)' <=> Exists(d))
        BY <2>0 DEF RowsOf, VectorsOf, Exists
      <3> QED
        BY <2>2, <3>1, <3>2 DEF Phase, RowsOf, VectorsOf, Exists
    <2>5. Own(r)'
      BY <1>3, <2>2 DEF DropChunkRows, StoreInv, Own
    <2> QED
      BY <1>0, <2>0, <2>2, <2>3, <2>4, <2>5, WorkStep DEF Mutating, MutatePC, Exists
  <1>4. CASE DropVectors(r)
    <2> PICK d \in Request : call[r].doc = d
      BY <1>4 DEF DropVectors, MutatePC, LocalInv, Local
    <2> DEFINE to == IF call[r].mode = "delete" THEN "deleteDoc" ELSE "rows"
    <2>0. /\ Mutating(r)
          /\ documents' = documents /\ chunkRows' = chunkRows
          /\ vectors' = vectors \ call[r].chunks
      BY <1>4 DEF DropVectors, Mutating, MutatePC
    <2>2. /\ call'[r].pc = to /\ call'[r].doc = d /\ call'[r].mode = call[r].mode
          /\ call'[r].wrote = call[r].wrote
      BY <1>4, CarryFacts, PCsList DEF DropVectors
    <2>3. \A e \in Request \ {d} : SameStores(e)
      BY <1>4, <2>0, OtherStores DEF DropVectors, StoreInv, Own
    <2>4. ASSUME d \notin tainted'
          PROVE  Phase(r)'
      <3>1. Exists(d) /\ RowsOf(d) = {} /\ VectorsOf(d) = call[r].chunks
        BY <1>0, <1>4, <2>0, <2>4, PhaseNow DEF Phase, DropVectors
      <3>2. RowsOf(d)' = {} /\ VectorsOf(d)' = {} /\ Exists(d)'
        BY <2>0, <3>1 DEF RowsOf, VectorsOf, Exists
      <3>3. call[r].wrote = 0 /\ call[r].mode \in {"reindex", "delete"}
        BY <1>4 DEF DropVectors, LocalInv, Local
      <3>4. Written(r, call[r].wrote)' = {}
        BY <2>2, <3>3 DEF Written
      <3> QED
        BY <2>2, <3>2, <3>3, <3>4 DEF Phase, RowsOf, VectorsOf, Exists
    <2>5. Own(r)'
      BY <2>2 DEF Own
    <2> QED
      BY <1>0, <2>0, <2>2, <2>3, <2>4, <2>5, WorkStep DEF Mutating, MutatePC, Exists
  <1>5. CASE DropVectorsFails(r)
    <2> PICK d \in Request : call[r].doc = d
      BY <1>5 DEF DropVectorsFails, MutatePC, LocalInv, Local
    <2>0. UNCHANGED <<documents, chunkRows, vectors>> /\ Mutating(r)
      BY <1>5 DEF DropVectorsFails, stores, Mutating, MutatePC
    <2>1. \A e \in Request : SameStores(e)
      BY <2>0 DEF SameStores, RowsOf, VectorsOf
    <2>2. CASE Goto(r, "flagRaise")
      <3>1. call'[r].pc = "flagRaise" /\ call'[r].doc = d
        BY <2>2, GotoFacts, PCsList
      <3> QED
        BY <1>0, <2>0, <2>1, <3>1, WorkStep DEF Mutating, MutatePC, Exists, Own, Phase
    <2>3. CASE Answer(r, "failed", None)
      <3>1. call'[r].pc = "failed"
        BY <2>3, AnswerFacts DEF EndPC
      <3>2. d \in tainted'
        BY <1>5, <2>0, <3>1, FailureTaints DEF DropVectorsFails
      <3> QED
        BY <1>0, <2>0, <2>1, <3>1, <3>2, WorkStep DEF Mutating, MutatePC, EndPC, Exists, Own
    <2> QED BY <1>5, <2>2, <2>3 DEF DropVectorsFails
  <1>6. CASE DeleteRow(r)
    <2> PICK d \in Request : call[r].doc = d
      BY <1>6 DEF DeleteRow, MutatePC, LocalInv, Local
    <2>0. /\ Mutating(r) /\ vectors' = vectors
          /\ documents' = [documents EXCEPT ![d] = None] /\ chunkRows' = chunkRows \ RowsOf(d)
      BY <1>6 DEF DeleteRow, DropDocument, Mutating, MutatePC
    <2>1. call'[r].pc = "flag" /\ call'[r].doc = d
      BY <1>6, GotoFacts, PCsList DEF DeleteRow
    <2>2. \A e \in Request \ {d} : SameStores(e)
      BY <2>0, OtherStores DEF RowsOf, TypeOK
    <2>3. ~Exists(d)' /\ RowsOf(d)' = {} /\ VectorsOf(d)' = VectorsOf(d)
      BY <2>0 DEF Exists, RowsOf, VectorsOf, TypeOK
    <2>4. ASSUME d \notin tainted'
          PROVE  Phase(r)'
      <3>1. VectorsOf(d) = {}
        BY <1>0, <1>6, <2>0, <2>4, PhaseNow DEF Phase, DeleteRow
      <3>2. InSync(d)'
        BY <2>3, <3>1 DEF InSync
      <3> QED
        BY <2>1, <3>2 DEF Phase, InSync, RowsOf, VectorsOf, Exists
    <2> QED
      BY <1>0, <2>0, <2>1, <2>2, <2>3, <2>4, WorkStep DEF Mutating, MutatePC, Own
  <1>7. CASE MarkStale(r)
    <2> PICK d \in Request : call[r].doc = d
      BY <1>7 DEF MarkStale, MutatePC, LocalInv, Local
    <2>0. UNCHANGED <<documents, chunkRows, vectors>> /\ Mutating(r)
      BY <1>7 DEF MarkStale, Mutating, MutatePC
    <2>1. \A e \in Request : SameStores(e)
      BY <2>0 DEF SameStores, RowsOf, VectorsOf
    <2>2. CASE call[r].pc = "flag"
      <3>1. call'[r].pc = "done"
        BY <1>7, <2>0, <2>2, AnswerFacts DEF MarkStale, EndPC
      <3>2. d \notin tainted' => InSync(d)'
        BY <1>0, <2>0, <2>1, <2>2, PhaseNow, SameStoresSync DEF Phase
      <3> QED
        BY <1>0, <2>0, <2>1, <3>1, <3>2, WorkStep DEF Mutating, MutatePC, EndPC, Exists, Own
    <2>3. CASE call[r].pc = "flagRaise"
      <3>1. call'[r].pc = "failed"
        BY <1>7, <2>3, AnswerFacts DEF MarkStale, EndPC
      <3>2. d \in tainted'
        BY <2>0, <2>3, <3>1, FailureTaints
      <3> QED
        BY <1>0, <2>0, <2>1, <3>1, <3>2, WorkStep DEF Mutating, MutatePC, EndPC, Exists, Own
    <2> QED BY <1>7, <2>2, <2>3 DEF MarkStale
  <1> QED
    BY <1>1, <1>2, <1>3, <1>4, <1>5, <1>6, <1>7 DEF Delete

\* The steps of an upload before it may write.
LEMMA BeforeWriting ==
    ASSUME TypeOK, LocalInv, StoreInv, Taint, NEW r \in Request, OnlyCall(r),
           \/ \E f \in Filename, c \in Content : IngestText(r, f, c)
           \/ DedupByContent(r) \/ CreateDocument(r) \/ Reread(r)
    PROVE  StoreInv'
  <1>1. ASSUME NEW f \in Filename, NEW c \in Content, IngestText(r, f, c)
        PROVE  StoreInv'
    <2>0. UNCHANGED <<documents, chunkRows, vectors>> /\ call[r].pc = "idle"
      BY Zenon, <1>1 DEF IngestText, MayStart, stores
    <2>1. CASE call'[r].pc \in {"dedup", "done"}
      BY <2>0, <2>1, QuietStep DEF Mutating, MutatePC, InsertPC
    <2>2. ASSUME NEW d \in Request, Exists(d), call'[r].pc = "select", call'[r].doc = d
          PROVE  StoreInv'
      <3>1. \A e \in Request : SameStores(e)
        BY <2>0 DEF SameStores, RowsOf, VectorsOf
      <3>2. ~Mutating(r) /\ Mutating(r)'
        BY <2>0, <2>2 DEF Mutating, MutatePC
      <3>3. d \notin tainted' => Phase(r)'
        BY <2>2, <3>1, <3>2, SyncNow, SameStoresSync DEF Phase
      <3>4. Own(r)'
        BY SMTT(30), <2>2 DEF Own
      <3> QED
        BY <2>2, <3>1, <3>2, <3>3, <3>4, WorkStep DEF MutatePC, Exists, SameStores
    <2> DEFINE start == [NoCall EXCEPT !.filename = f, !.content = c]
               fresh == [start EXCEPT !.pc = "dedup", !.mode = "insert", !.doc = r]
               known(d) == [NoCall EXCEPT !.pc = "done", !.mode = "insert", !.doc = d]
               again(d) == [start EXCEPT !.pc = "select", !.mode = "reindex", !.doc = d]
    <2>3. \/ call' = [call EXCEPT ![r] = fresh]
          \/ \E d \in Request : /\ Exists(d)
                               /\ \/ call' = [call EXCEPT ![r] = known(d)]
                                  \/ call' = [call EXCEPT ![r] = again(d)]
      BY Zenon, <1>1 DEF IngestText
    <2>4. /\ fresh.pc = "dedup"
          /\ \A d \in Request : /\ known(d).pc = "done"
                               /\ again(d).pc = "select" /\ again(d).doc = d
      BY DEF NoCall
    <2> HIDE DEF fresh, known, again
    <2>5. \/ call'[r] = fresh
          \/ \E d \in Request : Exists(d) /\ call'[r] \in {known(d), again(d)}
      BY <2>3 DEF TypeOK
    <2> QED BY SMTT(30), <2>1, <2>2, <2>4, <2>5
  <1>2. CASE DedupByContent(r)
    <2>1. UNCHANGED <<documents, chunkRows, vectors>> /\ call[r].pc = "dedup"
      BY <1>2 DEF DedupByContent, stores
    <2>2. call'[r].pc \in {"create", "done"}
      BY <1>2, GotoFacts, AnswerFacts, PCsList DEF DedupByContent, SameContent, EndPC
    <2> QED
      BY <2>1, <2>2, QuietStep DEF Mutating, MutatePC, InsertPC
  <1>3. CASE CreateDocument(r)
    <2>1. CASE Goto(r, "reread") /\ UNCHANGED documents
      <3>1. call'[r].pc = "reread" /\ call[r].pc = "create"
        BY <1>3, <2>1, GotoFacts, PCsList DEF CreateDocument
      <3> QED
        BY SMTT(30), <1>3, <2>1, <3>1, QuietStep DEF CreateDocument, Mutating, MutatePC, InsertPC
    <2>2. CASE /\ documents' = [documents EXCEPT ![r] =
                     [filename |-> call[r].filename, hash |-> call[r].content]]
               /\ Goto(r, "rows")
      <3>1. /\ call[r].pc = "create" /\ chunkRows' = chunkRows /\ vectors' = vectors
            /\ call[r].doc = r /\ call[r].wrote = 0
        BY <1>3 DEF CreateDocument, LocalInv, Local, InsertPC
      <3>2. /\ call'[r].pc = "rows" /\ call'[r].doc = r /\ call'[r].wrote = 0
            /\ call'[r].content = call[r].content
        BY <2>2, <3>1, GotoFacts, PCsList
      <3>3. ~Mutating(r) /\ Mutating(r)'
        BY <3>1, <3>2 DEF Mutating, MutatePC
      <3>4. ~Exists(r)
        BY <3>1 DEF StoreInv, Born, InsertPC
      <3>5. \A e \in Request \ {r} : SameStores(e)
        BY <2>2, <3>1, OtherStores DEF TypeOK
      <3>6. ASSUME r \notin tainted'
            PROVE  Phase(r)'
        <4>1. InSync(r)
          BY <3>2, <3>3, <3>6, SyncNow
        <4>2. RowsOf(r) = {} /\ VectorsOf(r) = {}
          BY <3>4, <4>1 DEF InSync
        <4>3. RowsOf(r)' = {} /\ VectorsOf(r)' = {}
          BY <3>1, <4>2 DEF RowsOf, VectorsOf
        <4>4. documents'[r] = [filename |-> call[r].filename, hash |-> call[r].content]
          BY <2>2 DEF TypeOK
        <4>5. call[r].filename \in Filename /\ call[r].content \in Content
          BY <3>1 DEF LocalInv, Local, InsertPC
        <4>6. documents'[r] \in Row
          BY <4>4, <4>5 DEF Row
        <4>7. Exists(r)'
          BY <4>6, IngestionAssumption DEF Exists, Row
        <4>8. Written(r, call[r].wrote)' = {}
          BY <3>2 DEF Written
        <4> QED
          BY <3>2, <4>3, <4>4, <4>7, <4>8 DEF Phase, RowsOf, VectorsOf, Exists
      <3>7. Own(r)'
        BY <3>2 DEF Own
      <3> QED
        BY <3>2, <3>3, <3>5, <3>6, <3>7, WorkStep DEF MutatePC
    <2> QED BY <1>3, <2>1, <2>2 DEF CreateDocument
  <1>4. CASE Reread(r)
    <2>1. UNCHANGED <<documents, chunkRows, vectors>> /\ call[r].pc = "reread"
      BY <1>4 DEF Reread, stores
    <2>2. call'[r].pc \in {"failed", "done"}
      BY <1>4, AnswerFacts DEF Reread, SameContent, EndPC
    <2> QED
      BY <2>1, <2>2, QuietStep DEF Mutating, MutatePC, InsertPC
  <1> QED BY <1>1, <1>2, <1>3, <1>4

LEMMA WritingStep ==
    ASSUME TypeOK, LocalInv, StoreInv, Taint, NEW r \in Request, OnlyCall(r),
           \/ WriteChunkRow(r) \/ ChunkRowsWritten(r)
           \/ UpsertChunks(r) \/ UpsertFails(r)
           \/ UndoChunkRows(r) \/ UndoDocument(r) \/ UpdateContentHash(r)
    PROVE  StoreInv'
  <1>1. Mutating(r)
    BY DEF WriteChunkRow, ChunkRowsWritten, UpsertChunks, UpsertFails, UndoChunkRows,
           UndoDocument, UpdateContentHash, Mutating, MutatePC
  <1> PICK d \in Request : call[r].doc = d
    BY <1>1 DEF Mutating, LocalInv, Local
  <1>2. d \notin tainted' => Phase(r)
    BY <1>1, PhaseNow
  <1>3. ASSUME call'[r].pc \in EndPC,
               \A e \in Request \ {d} : SameStores(e),
               Exists(d)' => Exists(d),
               d \notin tainted' => InSync(d)'
        PROVE  StoreInv'
    <2>1. ~Mutating(r)' /\ Own(r)'
      BY <1>3 DEF Mutating, MutatePC, EndPC, Own
    <2> QED BY <1>1, <1>3, <2>1, WorkStep
  <1>4. ASSUME call'[r].pc \in MutatePC \ {"dropRows", "dropVectors"}, call'[r].doc = d,
               \A e \in Request \ {d} : SameStores(e),
               Exists(d)' => Exists(d),
               d \notin tainted' => Phase(r)'
        PROVE  StoreInv'
    <2>1. Mutating(r)' /\ Own(r)'
      BY <1>4 DEF Mutating, Own
    <2> QED BY <1>1, <1>4, <2>1, WorkStep
  <1>5. CASE WriteChunkRow(r)
    <2>0. /\ documents' = documents /\ vectors' = vectors /\ call[r].pc = "rows"
          /\ call[r].wrote \in Nat
      BY <1>5 DEF WriteChunkRow, TypeOK, Call
    <2> DEFINE new == [by |-> r, index |-> call[r].wrote + 1, doc |-> d,
                       content |-> call[r].content]
    <2>1. CASE /\ chunkRows' = chunkRows \cup {new}
               /\ call' = [call EXCEPT ![r].wrote = call[r].wrote + 1]
      <3>1. /\ call'[r].wrote = call[r].wrote + 1
            /\ call'[r].pc = "rows" /\ call'[r].doc = d
            /\ call'[r].mode = call[r].mode /\ call'[r].content = call[r].content
        BY <2>0, <2>1 DEF TypeOK, Call
      <3>2. \A e \in Request \ {d} : SameStores(e)
        BY <2>0, <2>1, OtherStores
      <3>3. ASSUME d \notin tainted'
            PROVE  Phase(r)'
        <4>1. /\ Exists(d) /\ RowsOf(d) = Written(r, call[r].wrote) /\ VectorsOf(d) = {}
              /\ call[r].mode = "insert" => documents[d].hash = call[r].content
          BY <1>2, <2>0, <3>3 DEF Phase
        <4>2. RowsOf(d)' = RowsOf(d) \cup {new} /\ VectorsOf(d)' = VectorsOf(d)
          BY <2>0, <2>1 DEF RowsOf, VectorsOf
        <4>3. Written(r, call[r].wrote)' = Written(r, call[r].wrote) \cup {new}
          BY <2>0, <3>1 DEF Written
        <4> QED
          BY <2>0, <3>1, <4>1, <4>2, <4>3 DEF Phase, RowsOf, VectorsOf, Exists
      <3>4. Exists(d)' => Exists(d)
        BY <2>0 DEF Exists
      <3> QED
        BY <1>4, <3>1, <3>2, <3>3, <3>4 DEF MutatePC
    <2>2. CASE Answer(r, "failed", None) /\ UNCHANGED chunkRows
      <3>1. call'[r].pc = "failed"
        BY <2>2, AnswerFacts DEF EndPC
      <3>2. d \in tainted'
        BY <1>1, <2>0, <3>1, FailureTaints
      <3> QED
        BY <1>3, <2>0, <2>2, <3>1, <3>2 DEF EndPC, SameStores, RowsOf, VectorsOf, Exists
    <2> QED BY <1>5, <2>1, <2>2 DEF WriteChunkRow
  <1>6. CASE ChunkRowsWritten(r)
    <2>0. UNCHANGED <<documents, chunkRows, vectors>> /\ call[r].pc = "rows"
      BY <1>6 DEF ChunkRowsWritten, stores
    <2>1. /\ call'[r].pc = "upsert" /\ call'[r].doc = d /\ call'[r].wrote = call[r].wrote
          /\ call'[r].mode = call[r].mode /\ call'[r].content = call[r].content
      BY <1>6, GotoFacts, PCsList DEF ChunkRowsWritten
    <2>2. ASSUME d \notin tainted'
          PROVE  Phase(r)'
      <3>1. /\ Exists(d) /\ RowsOf(d) = Written(r, call[r].wrote) /\ VectorsOf(d) = {}
            /\ call[r].mode = "insert" => documents[d].hash = call[r].content
        BY <1>2, <2>0, <2>2 DEF Phase
      <3>2. Written(r, call[r].wrote)' = Written(r, call[r].wrote)
        BY <2>1 DEF Written
      <3> QED
        BY <2>0, <2>1, <3>1, <3>2 DEF Phase, RowsOf, VectorsOf, Exists
    <2> QED
      BY <1>4, <2>0, <2>1, <2>2 DEF MutatePC, SameStores, RowsOf, VectorsOf, Exists
  <1>7. CASE UpsertChunks(r)
    <2>0. /\ UNCHANGED <<documents, chunkRows>> /\ call[r].pc = "upsert"
          /\ vectors' = vectors \cup Written(r, call[r].wrote)
          /\ call[r].wrote = Pieces[call[r].content]
          /\ call[r].mode \in {"insert", "reindex"}
      BY <1>7 DEF UpsertChunks, LocalInv, Local, MutatePC
    <2>1. /\ call'[r].pc = IF call[r].mode = "insert" THEN "flag" ELSE "setHash"
          /\ call'[r].doc = d /\ call'[r].wrote = call[r].wrote
          /\ call'[r].mode = call[r].mode /\ call'[r].content = call[r].content
      BY <1>7, GotoFacts, PCsList DEF UpsertChunks, AfterUpsert
    <2>2. \A c \in Written(r, call[r].wrote) : c.doc = d
      BY DEF Written
    <2>3. \A e \in Request \ {d} : SameStores(e)
      BY <2>0, <2>2, OtherStores
    <2>4. ASSUME d \notin tainted'
          PROVE  Phase(r)'
      <3>1. /\ Exists(d) /\ RowsOf(d) = Written(r, call[r].wrote) /\ VectorsOf(d) = {}
            /\ call[r].mode = "insert" => documents[d].hash = call[r].content
        BY <1>2, <2>0, <2>4 DEF Phase
      <3>2. Written(r, call[r].wrote)' = Written(r, call[r].wrote)
        BY <2>1 DEF Written
      <3>3. VectorsOf(d)' = Written(r, call[r].wrote)
        BY <2>0, <2>2, <3>1 DEF VectorsOf
      <3>4. RowsOf(d)' = RowsOf(d) /\ Exists(d)'
        BY <2>0, <3>1 DEF RowsOf, Exists
      <3>5. CASE call[r].mode = "insert"
        <4>1. WholeDocument(RowsOf(d)', d, documents'[d].hash)
          BY <2>0, <3>1, <3>4, <3>5 DEF WholeDocument, Written
        <4>2. InSync(d)'
          BY <3>1, <3>3, <3>4, <4>1 DEF InSync, WholeDocument
        <4> QED
          BY <2>1, <3>5, <4>2 DEF Phase, InSync, RowsOf, VectorsOf, Exists, WholeDocument
      <3>6. CASE call[r].mode = "reindex"
        BY <2>0, <2>1, <3>1, <3>2, <3>3, <3>4, <3>6 DEF Phase, RowsOf, VectorsOf, Exists
      <3> QED BY <2>0, <3>5, <3>6
    <2> QED
      BY <1>4, <2>0, <2>1, <2>3, <2>4 DEF MutatePC, Exists
  <1>8. CASE UpsertFails(r)
    <2>0. UNCHANGED <<documents, chunkRows, vectors>> /\ call[r].pc = "upsert"
      BY <1>8 DEF UpsertFails, stores
    <2>1. CASE Goto(r, "undoRows")
      <3>1. call'[r].pc = "undoRows" /\ call'[r].doc = d
        BY <2>1, GotoFacts, PCsList
      <3>2. d \notin tainted' => Phase(r)'
        BY <1>2, <2>0, <3>1 DEF Phase, VectorsOf
      <3> QED
        BY <1>4, <2>0, <3>1, <3>2 DEF MutatePC, SameStores, RowsOf, VectorsOf, Exists
    <2>2. CASE Answer(r, "failed", None)
      <3>1. call'[r].pc = "failed"
        BY <2>2, AnswerFacts DEF EndPC
      <3>2. d \in tainted'
        BY <1>1, <2>0, <3>1, FailureTaints
      <3> QED
        BY <1>3, <2>0, <3>1, <3>2 DEF EndPC, SameStores, RowsOf, VectorsOf, Exists
    <2> QED BY <1>8, <2>1, <2>2 DEF UpsertFails
  <1>9. CASE UndoChunkRows(r)
    <2>0. /\ UNCHANGED <<documents, vectors>> /\ call[r].pc = "undoRows"
          /\ chunkRows' = chunkRows \ RowsOf(d)
      BY <1>9 DEF UndoChunkRows
    <2>1. call'[r].pc = "undoDoc" /\ call'[r].doc = d
      BY <1>9, GotoFacts, PCsList DEF UndoChunkRows
    <2>2. \A e \in Request \ {d} : SameStores(e)
      BY <2>0, OtherStores DEF RowsOf
    <2>3. d \notin tainted' => Phase(r)'
      BY <1>2, <2>0, <2>1 DEF Phase, RowsOf, VectorsOf
    <2> QED
      BY <1>4, <2>0, <2>1, <2>2, <2>3 DEF MutatePC, Exists
  <1>10. CASE UndoDocument(r)
    <2>0. /\ vectors' = vectors /\ call[r].pc = "undoDoc"
          /\ documents' = [documents EXCEPT ![d] = None] /\ chunkRows' = chunkRows \ RowsOf(d)
      BY <1>10 DEF UndoDocument, DropDocument
    <2>1. call'[r].pc = "failed"
      BY <1>10, AnswerFacts DEF UndoDocument, EndPC
    <2>2. \A e \in Request \ {d} : SameStores(e)
      BY <2>0, OtherStores DEF RowsOf, TypeOK
    <2>3. ~Exists(d)' /\ RowsOf(d)' = {} /\ VectorsOf(d)' = VectorsOf(d)
      BY <2>0 DEF Exists, RowsOf, VectorsOf, TypeOK
    <2>4. d \notin tainted' => InSync(d)'
      BY <1>2, <2>0, <2>3 DEF Phase, InSync
    <2> QED
      BY <1>3, <2>1, <2>2, <2>3, <2>4 DEF EndPC
  <1>11. CASE UpdateContentHash(r)
    <2>0. /\ UNCHANGED <<chunkRows, vectors>> /\ call[r].pc = "setHash"
          /\ call[r].wrote = Pieces[call[r].content]
      BY <1>11 DEF UpdateContentHash, LocalInv, Local
    <2>1. CASE Answer(r, "failed", None) /\ UNCHANGED documents
      <3>1. call'[r].pc = "failed"
        BY <2>1, AnswerFacts DEF EndPC
      <3>2. d \in tainted'
        BY <1>1, <2>0, <3>1, FailureTaints
      <3> QED
        BY <1>3, <2>0, <2>1, <3>1, <3>2 DEF EndPC, SameStores, RowsOf, VectorsOf, Exists
    <2>2. CASE /\ Goto(r, "flag") /\ Exists(d)
               /\ documents' = [documents EXCEPT ![d].hash = call[r].content,
                                                 ![d].filename = call[r].filename]
      <3>1. call'[r].pc = "flag" /\ call'[r].doc = d
        BY <2>2, GotoFacts, PCsList
      <3>2. \A e \in Request \ {d} : SameStores(e)
        BY <2>0, <2>2, OtherStores DEF TypeOK
      <3>3. documents'[d].hash = call[r].content /\ Exists(d)'
        <4>1. documents[d] \in Row
          BY <2>2 DEF TypeOK, Exists
        <4>2. call[r].content \in Content /\ call[r].filename \in Filename
          BY <1>11 DEF UpdateContentHash, LocalInv, Local, MutatePC
        <4>3. documents'[d] \in Row /\ documents'[d].hash = call[r].content
          BY <2>2, <4>1, <4>2 DEF TypeOK, Row
        <4> QED
          BY <4>3, IngestionAssumption DEF Exists, Row
      <3>4. ASSUME d \notin tainted'
            PROVE  Phase(r)'
        <4>1. RowsOf(d) = Written(r, call[r].wrote) /\ VectorsOf(d) = RowsOf(d)
          BY <1>2, <2>0, <3>4 DEF Phase
        <4>2. RowsOf(d)' = RowsOf(d) /\ VectorsOf(d)' = VectorsOf(d)
          BY <2>0 DEF RowsOf, VectorsOf
        <4>3. WholeDocument(RowsOf(d)', d, documents'[d].hash)
          BY <2>0, <3>3, <4>1, <4>2 DEF WholeDocument, Written
        <4>4. InSync(d)'
          BY <3>3, <4>1, <4>2, <4>3 DEF InSync, WholeDocument
        <4> QED
          BY <3>1, <4>4 DEF Phase, InSync, RowsOf, VectorsOf, Exists, WholeDocument
      <3> QED
        BY <1>4, <2>2, <3>1, <3>2, <3>4 DEF MutatePC
    <2>3. CASE Goto(r, "flag") /\ ~Exists(d) /\ UNCHANGED documents
      <3>1. call'[r].pc = "flag" /\ call'[r].doc = d
        BY <2>3, GotoFacts, PCsList
      <3>2. d \in tainted'
        BY <1>2, <2>0, <2>3 DEF Phase
      <3> QED
        BY <1>4, <2>0, <2>3, <3>1, <3>2 DEF MutatePC, SameStores, RowsOf, VectorsOf, Exists
    <2> QED BY <1>11, <2>1, <2>2, <2>3 DEF UpdateContentHash
  <1> QED
    BY <1>5, <1>6, <1>7, <1>8, <1>9, <1>10, <1>11

LEMMA UploadKeepsStores ==
    ASSUME TypeOK, LocalInv, StoreInv, Taint, NEW r \in Request, Upload(r)
    PROVE  StoreInv'
  <1>1. OnlyCall(r)
    BY UploadKeepsType DEF Kept
  <1> QED BY <1>1, BeforeWriting, WritingStep DEF Upload

LEMMA CrashKeepsStores ==
    ASSUME TypeOK, StoreInv, Taint, Crash
    PROVE  StoreInv'
  <1>1. UNCHANGED <<documents, chunkRows, vectors>>
    BY DEF Crash, stores
  <1>2. ASSUME NEW r \in Request
        PROVE  /\ ~Mutating(r)'
               /\ Mutating(r) => call'[r].pc = "lost"
               /\ call'[r].pc \in {"idle"} \cup InsertPC =>
                     call[r].pc \in {"idle"} \cup InsertPC
    BY CrashFacts DEF Active, Mutating, MutatePC, InsertPC, EndPC
  <1>3. ASSUME NEW d \in Request, d \notin tainted'
        PROVE  d \notin tainted /\ Settled(d)
    BY <1>2, <1>3 DEF Taint, Settled, MutatingD
  <1>4. ASSUME NEW d \in Request
        PROVE  /\ Settled(d)'
               /\ InSync(d)' <=> InSync(d)
               /\ Exists(d)' <=> Exists(d)
    BY <1>1, <1>2 DEF Settled, MutatingD, InSync, Exists, RowsOf, VectorsOf, WholeDocument
  <1>5. \A d \in Request : DocInv(d)'
    BY <1>3, <1>4 DEF StoreInv, DocInv, Settled
  <1>6. \A d \in Request : Born(d)' /\ Own(d)'
    BY <1>2, <1>4 DEF StoreInv, Born, Own, Mutating, MutatePC
  <1> QED BY <1>5, <1>6 DEF StoreInv

LEMMA NextStores == TypeOK /\ LocalInv /\ StoreInv /\ [Next]_vars => StoreInv'
  <1> SUFFICES ASSUME TypeOK, LocalInv, StoreInv, [Next]_vars PROVE StoreInv'
    OBVIOUS
  <1>1. ASSUME Taint, NEW r \in Request, Upload(r) \/ Delete(r) \/ Refresh(r)
        PROVE  StoreInv'
    BY <1>1, UploadKeepsStores, DeleteKeepsStores, RefreshKeepsStores
  <1>2. CASE Taint /\ Crash
    BY <1>2, CrashKeepsStores
  <1>3. CASE UNCHANGED vars
    BY <1>3 DEF vars, stores, history, StoreInv, DocInv, Born, Own, Phase, Settled,
                InSync, MutatingD, Mutating, RowsOf, VectorsOf, Exists, Written, WholeDocument
  <1> QED BY <1>1, <1>2, <1>3 DEF Next

\* SQLite and Chroma agree: in every reachable state, a document that no call
\* is changing, and on which no call failed, was lost or raced, has in both
\* stores exactly the chunks of the content its row names, or, when its row is
\* gone, none.
THEOREM StoresInSync == Spec => []StoresAgree
  <1>1. Init => TypeOK /\ LocalInv /\ StoreInv
    BY InitType, InitStores
  <1>2. TypeOK /\ LocalInv /\ StoreInv /\ [Next]_vars => (TypeOK /\ LocalInv /\ StoreInv)'
    BY NextType, NextStores
  <1> QED BY <1>1, <1>2, InvariantImplies, PTL DEF Spec

-----------------------------------------------------------------------------
(* The cache and the answers.  The uploads, deletions and refreshes are    *)
(* put into nine kinds of steps (Kind); the invariants are proved kind by  *)
(* kind.                                                                   *)

(* The invariants.                                                         *)

\* The foreign key of table chunks.
RowsHaveDocuments == \A c \in chunkRows : Exists(c.doc)

\* An upload that inserts works on the document it names.
ModeInv ==
    \A r \in Request :
        /\ call[r].pc \in MutatePC /\ call[r].mode = "insert" => call[r].doc = r
        /\ call[r].pc \in RefreshPC => call[r].mode = "refresh"

Fresh == profile # None /\ ~profile.stale

\* The chunk rows that no call is working on.
Quiet == {c \in chunkRows : \A r \in Request : ~MutatingD(r, c.doc)}

\* Unless the cache was given a reason to be wrong: a refresh waits for the agent
\* only while nothing changes, with the rows there are; and while only first uploads
\* are under way, which may yet be rolled back, a fresh profile is of the other rows.
CacheInv ==
    ~missed =>
        /\ \A q \in Request : call[q].pc = "extract" =>
              /\ \A r \in Request : ~Mutating(r)
              /\ call[q].chunks = chunkRows
        /\ Fresh /\ (\A r \in Request : Mutating(r) => call[r].mode = "insert") =>
              profile.text = Text(Quiet)

\* Why a document that was once there may be gone.
DeletedBy(q, d) ==
    call[q].mode = "delete" /\ call[q].doc = d /\ call[q].pc \in {"flag", "done", "lost"}

Excused(d) ==
    \/ Exists(d)
    \/ \E q \in Request : DeletedBy(q, d)
    \/ call[d].mode = "insert" /\ call[d].pc = "failed"

Naming(r) == call[r].pc \in MutatePC \cup {"done"} /\ call[r].mode \in {"insert", "reindex"}

\* The document an upload works on, or answered, is there or is excused.
AnswerInv == \A r \in Request : Naming(r) => call[r].doc \in Request /\ Excused(call[r].doc)

KeptInv == RowsHaveDocuments /\ ModeInv /\ CacheInv /\ AnswerInv

-----------------------------------------------------------------------------
(* The kinds of steps.                                                     *)

\* No call changes a document, before or after.
Looks(r) ==
    /\ ~Mutating(r) /\ ~Mutating(r)' /\ call'[r].pc # "extract" /\ UNCHANGED stores
    /\ call'[r].pc \in RefreshPC => call'[r].mode = "refresh"
    /\ Naming(r)' => call'[r].doc \in Request /\ Exists(call'[r].doc)

\* A re-index or a deletion begins to work on a document that is there.
Finds(r) ==
    /\ ~Mutating(r) /\ call'[r].pc = "select" /\ UNCHANGED stores
    /\ call'[r].mode \in {"reindex", "delete"}
    /\ call'[r].doc \in Request /\ Exists(call'[r].doc)

\* A first upload inserts its document.
Creates(r) ==
    /\ ~Mutating(r) /\ call'[r].pc = "rows" /\ UNCHANGED <<chunkRows, profile>>
    /\ call'[r].mode = "insert" /\ call'[r].doc = r /\ ~Exists(r)
    /\ \A d \in Request : Exists(d)' <=> Exists(d) \/ d = r

\* A call goes on with its document; a deletion may delete it.
Works(r) ==
    /\ Mutating(r) /\ Mutating(r)' /\ call[r].pc \notin {"flag", "flagRaise"}
    /\ call'[r].mode = call[r].mode /\ call'[r].doc = call[r].doc /\ UNCHANGED profile
    /\ \A c : c.doc # call[r].doc => (c \in chunkRows' <=> c \in chunkRows)
    /\ RowsHaveDocuments => RowsHaveDocuments'
    /\ \A d \in Request : Exists(d) =>
          Exists(d)' \/ (d = call[r].doc /\ call[r].mode = "delete" /\ call'[r].pc = "flag")

\* An exception that nothing repairs.
Breaks(r) ==
    /\ Mutating(r) /\ call[r].pc \notin {"flag", "flagRaise", "undoDoc"}
    /\ call'[r].pc = "failed" /\ UNCHANGED stores

\* The rollback of a first upload ends.
Undoes(r) ==
    /\ call[r].pc = "undoDoc" /\ call[r].mode = "insert" /\ DropDocument(r)
    /\ call[r].doc = r /\ call'[r].pc = "failed" /\ call'[r].mode = "insert"
    /\ UNCHANGED profile

\* mark_stale.
Flags(r) ==
    /\ call[r].pc \in {"flag", "flagRaise"} /\ UNCHANGED <<documents, chunkRows>>
    /\ profile' # None => profile'.stale
    /\ call[r].pc = "flag" =>
          call'[r].pc = "done" /\ call'[r].mode = call[r].mode /\ call'[r].doc = call[r].doc
    /\ call[r].pc = "flagRaise" => call'[r].pc = "failed"

\* A refresh reads the rows.
Reads(r) ==
    /\ call[r].pc = "assemble" /\ call'[r].pc = "extract" /\ UNCHANGED stores
    /\ call'[r].mode = "refresh" /\ call'[r].chunks = chunkRows

\* A refresh writes the profile.
Caches(r) ==
    /\ call[r].pc = "extract" /\ call'[r].pc = "done" /\ call'[r].mode = "refresh"
    /\ UNCHANGED <<documents, chunkRows>>
    /\ profile' = [text |-> Text(call[r].chunks), stale |-> FALSE]

Kind(r) ==
    /\ OnlyCall(r) /\ call[r].pc \notin EndPC
    /\ \/ Looks(r) \/ Finds(r) \/ Creates(r) \/ Works(r) \/ Breaks(r)
       \/ Undoes(r) \/ Flags(r) \/ Reads(r) \/ Caches(r)

LEMMA AnswerMode ==
    ASSUME TypeOK, NEW r \in Request, NEW how \in EndPC, NEW d \in Request \cup {None},
           Answer(r, how, d)
    PROVE  /\ OnlyCall(r) /\ call'[r].pc = how /\ call'[r].doc = d
           /\ call'[r].mode = call[r].mode
<1> DEFINE new == [NoCall EXCEPT !.pc = how, !.mode = call[r].mode, !.doc = d]
<1>1. new.mode = call[r].mode
  BY DEF NoCall
<1>2. call' = [call EXCEPT ![r] = new]
  BY DEF Answer
<1> HIDE DEF new
<1> QED BY <1>1, <1>2, AnswerFacts DEF TypeOK

\* A chunk of another document is in chunkRows as before.
LEMMA DropRows ==
    ASSUME NEW d \in Request
    PROVE  \A c : c.doc # d => (c \in chunkRows \ RowsOf(d) <=> c \in chunkRows)
BY DEF RowsOf

LEMMA RefreshKinds ==
    ASSUME TypeOK, LocalInv, ModeInv, NEW r \in Request, Refresh(r)
    PROVE  Kind(r)
<1>1. OnlyCall(r) /\ call[r] \in Call
  BY RefreshKeepsType DEF Kept, TypeOK
<1>2. CASE GetOrRefresh(r)
  <2>1. /\ call[r].pc = "idle" /\ UNCHANGED stores
        /\ call'[r].pc \in {"done", "assemble"} /\ call'[r].mode = "refresh"
    BY <1>2 DEF GetOrRefresh, MayStart, TypeOK, NoCall
  <2> QED BY <1>1, <2>1 DEF Kind, Looks, Mutating, MutatePC, EndPC, Naming
<1>3. CASE AssembleCandidateText(r)
  <2>1. /\ call[r].pc = "assemble" /\ UNCHANGED stores /\ call[r].mode = "refresh"
        /\ call'[r].pc = "extract" /\ call'[r].mode = call[r].mode
        /\ call'[r].chunks = chunkRows
    BY <1>3, CarryFacts, PCsList DEF AssembleCandidateText, TypeOK, ModeInv, RefreshPC
  <2> QED BY <1>1, <2>1 DEF Kind, Reads, EndPC
<1>4. CASE CacheProfile(r)
  <2>1. /\ call[r].pc = "extract" /\ call[r].mode = "refresh"
        /\ call'[r].pc = "done" /\ call'[r].mode = call[r].mode
    BY <1>4, AnswerMode DEF CacheProfile, ModeInv, RefreshPC, EndPC
  <2> QED BY <1>1, <1>4, <2>1 DEF CacheProfile, Kind, Caches, EndPC
<1>5. CASE ExtractionFails(r)
  <2>1. call[r].pc = "extract" /\ UNCHANGED stores /\ call'[r].pc = "failed"
    BY <1>5, AnswerMode DEF ExtractionFails, EndPC
  <2> QED BY <1>1, <2>1 DEF Kind, Looks, Mutating, MutatePC, RefreshPC, EndPC, Naming
<1> QED BY <1>2, <1>3, <1>4, <1>5 DEF Refresh

LEMMA DeleteKinds ==
    ASSUME TypeOK, LocalInv, NEW r \in Request, Delete(r)
    PROVE  Kind(r)
<1>1. OnlyCall(r) /\ call[r] \in Call
  BY DeleteKeepsType DEF Kept, TypeOK
<1>2. ASSUME NEW d \in Request, DeleteDocument(r, d)
      PROVE  Kind(r)
  <2>1. /\ call[r].pc = "idle" /\ UNCHANGED stores /\ call'[r].mode = "delete"
        /\ \/ Exists(d) /\ call'[r].pc = "select" /\ call'[r].doc = d
           \/ call'[r].pc = "done"
    BY ZenonT(60), <1>2 DEF DeleteDocument, MayStart, TypeOK, NoCall
  <2> QED BY <1>1, <2>1 DEF Kind, Looks, Finds, Mutating, MutatePC, RefreshPC, EndPC, Naming
<1>3. ASSUME Mutating(r)
      PROVE  call[r].doc \in Request /\ call[r].pc \notin EndPC
  BY <1>3 DEF Mutating, MutatePC, EndPC, LocalInv, Local
<1>4. CASE SelectChunkRows(r)
  <2>1. RowsOf(call[r].doc) \in SUBSET Chunk
    BY DEF RowsOf, TypeOK
  <2>2. /\ call[r].pc = "select" /\ UNCHANGED stores /\ call'[r].pc = "dropRows"
        /\ call'[r].mode = call[r].mode /\ call'[r].doc = call[r].doc
    BY <1>4, <2>1, CarryFacts, PCsList DEF SelectChunkRows
  <2> QED BY <1>1, <1>3, <2>2
          DEF Kind, Works, Mutating, MutatePC, RowsHaveDocuments, Exists, stores
<1>5. CASE DropChunkRows(r)
  <2>1. /\ call[r].pc = "dropRows" /\ chunkRows' = chunkRows \ RowsOf(call[r].doc)
        /\ UNCHANGED <<documents, profile>> /\ call'[r].pc = "dropVectors"
        /\ call'[r].mode = call[r].mode /\ call'[r].doc = call[r].doc
    BY <1>5, GotoFacts, PCsList DEF DropChunkRows
  <2> QED BY <1>1, <1>3, <2>1, DropRows
          DEF Kind, Works, Mutating, MutatePC, RowsHaveDocuments, Exists
<1>6. CASE DropVectors(r)
  <2>1. /\ call[r].pc = "dropVectors" /\ UNCHANGED <<documents, chunkRows, profile>>
        /\ call'[r].pc \in {"deleteDoc", "rows"}
        /\ call'[r].mode = call[r].mode /\ call'[r].doc = call[r].doc
    BY <1>6, CarryFacts, PCsList DEF DropVectors
  <2> QED BY <1>1, <1>3, <2>1 DEF Kind, Works, Mutating, MutatePC, RowsHaveDocuments, Exists
<1>7. CASE DropVectorsFails(r)
  <2>1. call[r].pc = "dropVectors" /\ UNCHANGED stores
    BY <1>7 DEF DropVectorsFails
  <2>2. CASE Goto(r, "flagRaise")
    <3>1. /\ call'[r].pc = "flagRaise"
          /\ call'[r].mode = call[r].mode /\ call'[r].doc = call[r].doc
      BY <2>2, GotoFacts, PCsList
    <3> QED BY <1>1, <1>3, <2>1, <3>1
            DEF Kind, Works, Mutating, MutatePC, RowsHaveDocuments, Exists, stores
  <2>3. CASE Answer(r, "failed", None)
    <3>1. call'[r].pc = "failed"
      BY <2>3, AnswerMode DEF EndPC
    <3> QED BY <1>1, <1>3, <2>1, <3>1 DEF Kind, Breaks, Mutating, MutatePC
  <2> QED BY <1>7, <2>2, <2>3 DEF DropVectorsFails
<1>8. CASE DeleteRow(r)
  <2> DEFINE d == call[r].doc
  <2>1. /\ call[r].pc = "deleteDoc" /\ call[r].mode = "delete" /\ d \in Request
        /\ DropDocument(d) /\ UNCHANGED profile /\ call'[r].pc = "flag"
        /\ call'[r].mode = call[r].mode /\ call'[r].doc = call[r].doc
    BY <1>8, GotoFacts, PCsList DEF DeleteRow, LocalInv, Local, MutatePC
  <2>2. /\ \A e \in Request : e # d => documents'[e] = documents[e]
        /\ chunkRows' = chunkRows \ RowsOf(d)
    BY <2>1 DEF DropDocument
  <2> HIDE DEF d
  <2>3. RowsHaveDocuments => RowsHaveDocuments'
    BY <2>1, <2>2 DEF RowsHaveDocuments, RowsOf, Exists, TypeOK, Chunk
  <2> QED BY <1>1, <1>3, <2>1, <2>2, <2>3, DropRows
          DEF Kind, Works, Mutating, MutatePC, Exists, d
<1>9. CASE MarkStale(r)
  <2>1. call[r].pc \in {"flag", "flagRaise"} /\ UNCHANGED <<documents, chunkRows>>
    BY <1>9 DEF MarkStale
  <2>2. profile' # None => profile'.stale
    BY <1>9 DEF MarkStale, TypeOK, Profile
  <2>3. call[r].doc \in Request
    BY <1>3, <2>1 DEF Mutating, MutatePC
  <2> QED BY <1>1, <1>9, <2>1, <2>2, <2>3, AnswerMode DEF MarkStale, Kind, Flags, EndPC
<1> QED BY <1>2, <1>4, <1>5, <1>6, <1>7, <1>8, <1>9 DEF Delete

\* A call that mutates goes on with its document, and the rows stay as they are.
LEMMA StaysAtWork ==
    ASSUME NEW r \in Request, OnlyCall(r), Mutating(r), Mutating(r)',
           call[r].pc \notin {"flag", "flagRaise"},
           call'[r].mode = call[r].mode, call'[r].doc = call[r].doc,
           UNCHANGED <<documents, chunkRows, profile>>
    PROVE  Kind(r)
BY DEF Kind, Works, Mutating, MutatePC, EndPC, RowsHaveDocuments, Exists

LEMMA UploadKinds ==
    ASSUME TypeOK, LocalInv, StoreInv, ModeInv, NEW r \in Request, Upload(r)
    PROVE  Kind(r)
<1>1. OnlyCall(r) /\ call[r] \in Call
  BY UploadKeepsType DEF Kept, TypeOK
<1>2. ASSUME Mutating(r)
      PROVE  call[r].doc \in Request /\ call[r].pc \notin EndPC
  BY <1>2 DEF Mutating, MutatePC, EndPC, LocalInv, Local
<1>3. ASSUME NEW d \in Request, Exists(d), Answer(r, "done", d), UNCHANGED stores,
             call[r].pc \in InsertPC
      PROVE  Kind(r)
  <2>1. call'[r].pc = "done" /\ call'[r].doc = d
    BY SMTT(30), <1>3, AnswerMode DEF EndPC
  <2> QED BY <1>1, <1>3, <2>1
          DEF Kind, Looks, Mutating, MutatePC, InsertPC, RefreshPC, EndPC, Naming
<1>4. ASSUME NEW f \in Filename, NEW c \in Content, IngestText(r, f, c)
      PROVE  Kind(r)
  <2> DEFINE start == [NoCall EXCEPT !.filename = f, !.content = c]
  <2>1. call[r].pc = "idle" /\ UNCHANGED stores
    BY <1>4 DEF IngestText, MayStart
  <2>2. CASE call' = [call EXCEPT ![r] =
                        [start EXCEPT !.pc = "dedup", !.mode = "insert", !.doc = r]]
    <3>1. call'[r].pc = "dedup"
      BY <2>2 DEF TypeOK, NoCall
    <3> QED BY <1>1, <2>1, <3>1 DEF Kind, Looks, Mutating, MutatePC, RefreshPC, EndPC, Naming
  <2>3. ASSUME NEW d \in Request, Exists(d),
               call' = [call EXCEPT ![r] =
                          [NoCall EXCEPT !.pc = "done", !.mode = "insert", !.doc = d]]
        PROVE  Kind(r)
    <3>1. call'[r].pc = "done" /\ call'[r].doc = d
      BY <2>3 DEF TypeOK, NoCall
    <3> QED BY <1>1, <2>1, <2>3, <3>1
            DEF Kind, Looks, Mutating, MutatePC, RefreshPC, EndPC, Naming
  <2>4. ASSUME NEW d \in Request, Exists(d),
               call' = [call EXCEPT ![r] =
                          [start EXCEPT !.pc = "select", !.mode = "reindex", !.doc = d]]
        PROVE  Kind(r)
    <3>1. call'[r].pc = "select" /\ call'[r].doc = d /\ call'[r].mode = "reindex"
      BY <2>4 DEF TypeOK, NoCall
    <3> QED BY <1>1, <2>1, <2>4, <3>1 DEF Kind, Finds, Mutating, MutatePC, EndPC
  <2> QED BY ZenonT(60), <1>4, <2>2, <2>3, <2>4 DEF IngestText
<1>5. CASE DedupByContent(r)
  <2>1. CASE Goto(r, "create")
    <3>1. call[r].pc = "dedup" /\ call'[r].pc = "create" /\ UNCHANGED stores
      BY <1>5, <2>1, GotoFacts, PCsList DEF DedupByContent
    <3> QED BY <1>1, <3>1 DEF Kind, Looks, Mutating, MutatePC, RefreshPC, EndPC, Naming
  <2>2. CASE \E d \in SameContent(call[r].content) : Answer(r, "done", d)
    BY <1>3, <1>5, <2>2 DEF DedupByContent, SameContent, InsertPC
  <2> QED BY <1>5, <2>1, <2>2 DEF DedupByContent
<1>6. CASE CreateDocument(r)
  <2>1. call[r].pc = "create" /\ call[r].mode = "insert" /\ call[r].doc = r
    BY <1>6 DEF CreateDocument, LocalInv, Local, InsertPC
  <2>2. CASE Goto(r, "reread") /\ UNCHANGED documents
    <3>1. call'[r].pc = "reread" /\ UNCHANGED stores
      BY <1>6, <2>2, GotoFacts, PCsList DEF CreateDocument, stores
    <3> QED BY <1>1, <2>1, <3>1 DEF Kind, Looks, Mutating, MutatePC, RefreshPC, EndPC, Naming
  <2>3. CASE /\ documents' = [documents EXCEPT ![r] =
                                [filename |-> call[r].filename, hash |-> call[r].content]]
             /\ Goto(r, "rows")
    <3>1. /\ call'[r].pc = "rows" /\ call'[r].mode = "insert" /\ call'[r].doc = r
          /\ UNCHANGED <<chunkRows, profile>>
      BY <1>6, <2>1, <2>3, GotoFacts, PCsList DEF CreateDocument
    <3>2. ~Exists(r)
      BY <2>1 DEF StoreInv, Born, InsertPC
    <3>3. [filename |-> call[r].filename, hash |-> call[r].content] # None
      BY <1>6, IngestionAssumption DEF CreateDocument, LocalInv, Local, InsertPC
    <3>4. \A d \in Request : Exists(d)' <=> Exists(d) \/ d = r
      BY <2>3, <3>3 DEF Exists, TypeOK
    <3> QED BY <1>1, <2>1, <3>1, <3>2, <3>4 DEF Kind, Creates, Mutating, MutatePC, EndPC
  <2> QED BY <1>6, <2>2, <2>3 DEF CreateDocument
<1>7. CASE Reread(r)
  <2>1. CASE Answer(r, "failed", None)
    <3>1. call[r].pc = "reread" /\ call'[r].pc = "failed" /\ UNCHANGED stores
      BY <1>7, <2>1, AnswerMode DEF Reread, EndPC
    <3> QED BY <1>1, <3>1 DEF Kind, Looks, Mutating, MutatePC, RefreshPC, EndPC, Naming
  <2>2. CASE \E d \in SameContent(call[r].content) : Answer(r, "done", d)
    BY <1>3, <1>7, <2>2 DEF Reread, SameContent, InsertPC
  <2> QED BY <1>7, <2>1, <2>2 DEF Reread
<1>8. CASE WriteChunkRow(r)
  <2>1. call[r].pc = "rows" /\ UNCHANGED <<documents, profile>> /\ Mutating(r)
    BY <1>8 DEF WriteChunkRow, Mutating, MutatePC
  <2>2. CASE Answer(r, "failed", None) /\ UNCHANGED chunkRows
    <3>1. call'[r].pc = "failed" /\ UNCHANGED stores
      BY <1>8, <2>2, AnswerMode DEF WriteChunkRow, EndPC, stores
    <3> QED BY <1>1, <1>2, <2>1, <3>1 DEF Kind, Breaks
  <2>3. CASE /\ Exists(call[r].doc)
             /\ chunkRows' = chunkRows \cup
                   {[by |-> r, index |-> call[r].wrote + 1,
                     doc |-> call[r].doc, content |-> call[r].content]}
             /\ call' = [call EXCEPT ![r].wrote = call[r].wrote + 1]
    <3>1. /\ call'[r].pc = call[r].pc /\ call'[r].mode = call[r].mode
          /\ call'[r].doc = call[r].doc
      BY <2>3 DEF TypeOK, Call
    <3>2. RowsHaveDocuments => RowsHaveDocuments'
      BY <2>1, <2>3 DEF RowsHaveDocuments, Exists
    <3>3. \A c : c.doc # call[r].doc => (c \in chunkRows' <=> c \in chunkRows)
      BY <2>3
    <3> QED BY <1>1, <1>2, <2>1, <3>1, <3>2, <3>3
            DEF Kind, Works, Mutating, MutatePC, Exists
  <2> QED BY <1>8, <2>2, <2>3 DEF WriteChunkRow
<1>9. CASE ChunkRowsWritten(r)
  <2>1. /\ call[r].pc = "rows" /\ UNCHANGED stores /\ call'[r].pc = "upsert"
        /\ call'[r].mode = call[r].mode /\ call'[r].doc = call[r].doc
    BY <1>9, GotoFacts, PCsList DEF ChunkRowsWritten
  <2> QED BY <1>1, <2>1, StaysAtWork DEF Mutating, MutatePC, stores
<1>10. CASE UpsertChunks(r)
  <2>1. AfterUpsert(r) \in {"flag", "setHash"}
    BY DEF AfterUpsert
  <2>2. /\ call[r].pc = "upsert" /\ UNCHANGED <<documents, chunkRows, profile>>
        /\ call'[r].pc \in {"flag", "setHash"}
        /\ call'[r].mode = call[r].mode /\ call'[r].doc = call[r].doc
    BY <1>10, <2>1, GotoFacts, PCsList DEF UpsertChunks
  <2> QED BY <1>1, <2>2, StaysAtWork DEF Mutating, MutatePC
<1>11. CASE UpsertFails(r)
  <2>1. call[r].pc = "upsert" /\ UNCHANGED stores
    BY <1>11 DEF UpsertFails
  <2>2. CASE Goto(r, "undoRows")
    <3>1. /\ call'[r].pc = "undoRows"
          /\ call'[r].mode = call[r].mode /\ call'[r].doc = call[r].doc
      BY <2>2, GotoFacts, PCsList
    <3> QED BY <1>1, <2>1, <3>1, StaysAtWork DEF Mutating, MutatePC, stores
  <2>3. CASE Answer(r, "failed", None)
    <3>1. call'[r].pc = "failed"
      BY <2>3, AnswerMode DEF EndPC
    <3> QED BY <1>1, <1>2, <2>1, <3>1 DEF Kind, Breaks, Mutating, MutatePC
  <2> QED BY <1>11, <2>2, <2>3 DEF UpsertFails
<1>12. CASE UndoChunkRows(r)
  <2>1. /\ call[r].pc = "undoRows" /\ chunkRows' = chunkRows \ RowsOf(call[r].doc)
        /\ UNCHANGED <<documents, profile>> /\ call'[r].pc = "undoDoc"
        /\ call'[r].mode = call[r].mode /\ call'[r].doc = call[r].doc
    BY <1>12, GotoFacts, PCsList DEF UndoChunkRows
  <2> QED BY <1>1, <1>2, <2>1, DropRows
          DEF Kind, Works, Mutating, MutatePC, RowsHaveDocuments, Exists
<1>13. CASE UndoDocument(r)
  <2>1. call[r].pc = "undoDoc" /\ call[r].mode = "insert" /\ call[r].doc = r
    BY <1>13 DEF UndoDocument, LocalInv, Local, ModeInv, MutatePC
  <2>2. call'[r].pc = "failed" /\ call'[r].mode = "insert"
    BY <1>13, <2>1, AnswerMode DEF UndoDocument, EndPC
  <2> QED BY <1>1, <1>13, <2>1, <2>2 DEF UndoDocument, Kind, Undoes, EndPC
<1>14. CASE UpdateContentHash(r)
  <2>1. /\ call[r].pc = "setHash" /\ UNCHANGED <<chunkRows, profile>> /\ Mutating(r)
        /\ call[r].doc \in Request
    BY <1>2, <1>14 DEF UpdateContentHash, Mutating, MutatePC
  <2>2. CASE Answer(r, "failed", None) /\ UNCHANGED documents
    <3>1. call'[r].pc = "failed" /\ UNCHANGED stores
      BY <1>14, <2>2, AnswerMode DEF UpdateContentHash, EndPC, stores
    <3> QED BY <1>1, <1>2, <2>1, <3>1 DEF Kind, Breaks
  <2>3. CASE Goto(r, "flag")
    <3>1. /\ call'[r].pc = "flag"
          /\ call'[r].mode = call[r].mode /\ call'[r].doc = call[r].doc
      BY <2>3, GotoFacts, PCsList
    <3>2. \A d \in Request : Exists(d)' <=> Exists(d)
      <4>1. CASE UNCHANGED documents
        BY <4>1 DEF Exists
      <4>2. CASE /\ Exists(call[r].doc)
                 /\ documents' = [documents EXCEPT
                        ![call[r].doc].hash = call[r].content,
                        ![call[r].doc].filename = call[r].filename]
        <5>1. documents[call[r].doc] \in Row
          BY <2>1, <4>2 DEF Exists, TypeOK
        <5>2. call[r].filename \in Filename /\ call[r].content \in Content
          BY <1>14 DEF UpdateContentHash, LocalInv, Local, MutatePC
        <5>3. documents'[call[r].doc] \in Row
          BY <2>1, <4>2, <5>1, <5>2 DEF TypeOK, Row
        <5>4. None \notin Row
          BY IngestionAssumption DEF Row
        <5>5. \A d \in Request : d # call[r].doc => documents'[d] = documents[d]
          BY <4>2 DEF TypeOK
        <5> QED BY <4>2, <5>3, <5>4, <5>5 DEF Exists
      <4> QED BY <1>14, <4>1, <4>2 DEF UpdateContentHash
    <3>3. RowsHaveDocuments => RowsHaveDocuments'
      <4>1. \A c \in chunkRows : c.doc \in Request
        BY DEF TypeOK, Chunk
      <4> QED BY <2>1, <3>2, <4>1 DEF RowsHaveDocuments
    <3> QED BY <1>1, <1>2, <2>1, <3>1, <3>2, <3>3
            DEF Kind, Works, Mutating, MutatePC
  <2> QED BY <1>14, <2>2, <2>3 DEF UpdateContentHash
<1> QED
  BY <1>4, <1>5, <1>6, <1>7, <1>8, <1>9, <1>10, <1>11, <1>12, <1>13, <1>14 DEF Upload

-----------------------------------------------------------------------------
(* Every kind of step keeps the invariants.                                *)

\* The calls that change documents are the same ones, but for r.
LEMMA OthersWork ==
    ASSUME NEW r \in Request, OnlyCall(r)
    PROVE  /\ \A q \in Request : q # r => (Mutating(q)' <=> Mutating(q))
           /\ \A q \in Request : \A d : q # r => (MutatingD(q, d)' <=> MutatingD(q, d))
BY DEF OnlyCall, MutatingD, Mutating

LEMMA KindKeepsRows ==
    ASSUME TypeOK, NEW r \in Request, Kind(r), RowsHaveDocuments, ModeInv
    PROVE  RowsHaveDocuments' /\ ModeInv'
<1>1. OnlyCall(r) /\ \A c \in chunkRows : c.doc \in Request
  BY DEF Kind, TypeOK, Chunk
<1>2. RowsHaveDocuments'
  <2>1. CASE Undoes(r)
    <3>1. /\ \A d \in Request : d # r => documents'[d] = documents[d]
          /\ chunkRows' = chunkRows \ RowsOf(r)
      BY <2>1 DEF Undoes, DropDocument
    <3> QED BY <1>1, <3>1 DEF RowsHaveDocuments, RowsOf, Exists
  <2>2. CASE Creates(r)
    BY <1>1, <2>2 DEF Creates, RowsHaveDocuments
  <2>3. CASE Works(r)
    BY <2>3 DEF Works
  <2>4. CASE UNCHANGED <<documents, chunkRows>>
    BY <2>4 DEF RowsHaveDocuments, Exists
  <2> QED BY <2>1, <2>2, <2>3, <2>4
          DEF Kind, Looks, Finds, Breaks, Flags, Reads, Caches, stores
<1>3. ModeInv'
  <2>1. /\ call'[r].pc \in MutatePC /\ call'[r].mode = "insert" => call'[r].doc = r
        /\ call'[r].pc \in RefreshPC => call'[r].mode = "refresh"
    <3>1. CASE Works(r)
      BY <3>1 DEF Works, Mutating, ModeInv, MutatePC, RefreshPC
    <3> QED BY <3>1 DEF Kind, Looks, Finds, Creates, Breaks, Undoes, Flags, Reads, Caches,
                        Mutating, MutatePC, RefreshPC
  <2> QED BY <1>1, <2>1 DEF ModeInv, OnlyCall
<1> QED BY <1>2, <1>3

\* A document that is excused stays so.
LEMMA KindKeepsExcuses ==
    ASSUME TypeOK, NEW r \in Request, Kind(r), NEW d \in Request, Excused(d)
    PROVE  Excused(d)'
<1>1. OnlyCall(r) /\ call[r].pc \notin EndPC
  BY DEF Kind
<1>2. CASE Exists(d)
  <2>1. CASE Undoes(r)
    <3>1. CASE d = r
      BY <2>1, <3>1 DEF Undoes, Excused
    <3>2. CASE d # r
      BY <1>2, <2>1, <3>2 DEF Undoes, DropDocument, Excused, Exists
    <3> QED BY <3>1, <3>2
  <2>2. CASE Creates(r)
    BY <1>2, <2>2 DEF Creates, Excused
  <2>3. CASE Works(r)
    BY <1>2, <2>3 DEF Works, Excused, DeletedBy
  <2>4. CASE UNCHANGED documents
    BY <1>2, <2>4 DEF Excused, Exists
  <2> QED BY <2>1, <2>2, <2>3, <2>4
          DEF Kind, Looks, Finds, Breaks, Flags, Reads, Caches, stores
<1>3. ASSUME NEW q \in Request, DeletedBy(q, d)
      PROVE  Excused(d)'
  <2>1. CASE q # r
    BY <1>1, <1>3, <2>1 DEF OnlyCall, Excused, DeletedBy
  <2>2. CASE q = r
    <3>1. call[r].pc = "flag"
      BY <1>1, <1>3, <2>2 DEF DeletedBy, EndPC
    <3>2. Flags(r)
      BY <3>1 DEF Kind, Looks, Finds, Creates, Works, Breaks, Undoes, Reads, Caches,
                  Mutating, MutatePC
    <3> QED BY <1>3, <2>2, <3>1, <3>2 DEF Flags, Excused, DeletedBy
  <2> QED BY <2>1, <2>2
<1>4. CASE call[d].mode = "insert" /\ call[d].pc = "failed"
  BY <1>1, <1>4 DEF OnlyCall, Excused, EndPC
<1> QED BY <1>2, <1>3, <1>4 DEF Excused

LEMMA KindKeepsAnswers ==
    ASSUME TypeOK, NEW r \in Request, Kind(r), AnswerInv
    PROVE  AnswerInv'
<1>1. OnlyCall(r)
  BY DEF Kind
<1>2. ASSUME NEW q \in Request, q # r, Naming(q)'
      PROVE  \E d \in Request : call'[q].doc = d /\ Excused(d)'
  <2>1. call'[q] = call[q] /\ Naming(q)
    BY <1>1, <1>2 DEF OnlyCall, Naming
  <2>2. PICK d \in Request : call[q].doc = d /\ Excused(d)
    BY <2>1 DEF AnswerInv
  <2>3. Excused(d)'
    BY <2>2, KindKeepsExcuses
  <2> QED BY <2>1, <2>2, <2>3
<1>3. ASSUME Naming(r)'
      PROVE  \E d \in Request : call'[r].doc = d /\ Excused(d)'
  <2>1. ASSUME NEW e \in Request, call'[r].doc = e, Excused(e)
        PROVE  \E d \in Request : call'[r].doc = d /\ Excused(d)'
    BY <2>1, KindKeepsExcuses
  <2>2. CASE Looks(r) \/ Finds(r)
    BY <1>3, <2>1, <2>2 DEF Looks, Finds, Excused
  <2>3. CASE Creates(r)
    BY <2>3 DEF Creates, Excused
  <2>4. CASE Works(r) \/ Flags(r)
    <3>1. Naming(r) /\ call'[r].doc = call[r].doc
      BY <1>3, <2>4 DEF Works, Flags, Naming, Mutating, MutatePC
    <3> QED BY <2>1, <3>1 DEF AnswerInv
  <2>5. CASE Breaks(r) \/ Undoes(r) \/ Reads(r) \/ Caches(r)
    BY <1>3, <2>5 DEF Breaks, Undoes, Reads, Caches, Naming, MutatePC
  <2> QED BY <2>2, <2>3, <2>4, <2>5 DEF Kind
<1>4. \A q \in Request : Naming(q)' => \E d \in Request : call'[q].doc = d /\ Excused(d)'
  BY <1>2, <1>3
<1> QED BY <1>4 DEF AnswerInv, Excused, Exists, DeletedBy

LEMMA KindKeepsCache ==
    ASSUME TypeOK, NEW r \in Request, Kind(r), RowsHaveDocuments, CacheInv, Excuse
    PROVE  CacheInv'
<1> SUFFICES ASSUME ~missed'
             PROVE  /\ \A q \in Request : call'[q].pc = "extract" =>
                          /\ \A p \in Request : ~Mutating(p)'
                          /\ call'[q].chunks = chunkRows'
                    /\ Fresh' /\ (\A p \in Request : Mutating(p)' => call'[p].mode = "insert") =>
                          profile'.text = Text(Quiet')
  BY DEF CacheInv, Text
<1>1. /\ ~missed /\ OnlyCall(r)
      /\ \A p, q \in Request : ~(Mutating(p)' /\ call'[q].pc = "extract")
  BY DEF Excuse, Kind
<1>2. ASSUME NEW q \in Request, call[q].pc = "extract"
      PROVE  (\A p \in Request : ~Mutating(p)) /\ call[q].chunks = chunkRows
  BY <1>1, <1>2 DEF CacheInv
<1>3. /\ \A q \in Request : q # r => (Mutating(q)' <=> Mutating(q))
      /\ \A q \in Request : \A d : q # r => (MutatingD(q, d)' <=> MutatingD(q, d))
      /\ \A q \in Request : q # r => call'[q] = call[q]
  BY <1>1, OthersWork DEF OnlyCall
<1>4. ASSUME NEW q \in Request, call'[q].pc = "extract"
      PROVE  call'[q].chunks = chunkRows'
  <2>1. CASE q = r
    BY <1>4, <2>1 DEF Kind, Looks, Finds, Creates, Works, Breaks, Undoes, Flags, Reads,
       Caches, Mutating, MutatePC, stores
  <2>2. CASE q # r
    <3>1. ~Mutating(r) /\ call[q].chunks = chunkRows /\ call'[q] = call[q]
      BY <1>2, <1>3, <1>4, <2>2
    <3>2. UNCHANGED chunkRows
      BY <3>1 DEF Kind, Looks, Finds, Creates, Works, Breaks, Undoes, Flags, Reads, Caches,
         Mutating, MutatePC, stores
    <3> QED BY <3>1, <3>2
  <2> QED BY <2>1, <2>2
<1>5. ASSUME Fresh', \A p \in Request : Mutating(p)' => call'[p].mode = "insert"
      PROVE  profile'.text = Text(Quiet')
  <2>1. ASSUME UNCHANGED profile, Mutating(r) => call[r].mode = "insert", Quiet' = Quiet
        PROVE  profile'.text = Text(Quiet')
    <3>1. Fresh /\ \A p \in Request : Mutating(p) => call[p].mode = "insert"
      BY <1>3, <1>5, <2>1 DEF Fresh
    <3> QED BY <1>1, <2>1, <3>1 DEF CacheInv
  <2>2. CASE Looks(r) \/ Reads(r)
    <3>1. UNCHANGED <<profile, chunkRows>> /\ ~Mutating(r) /\ ~Mutating(r)'
      BY <2>2 DEF Looks, Reads, stores, Mutating, MutatePC
    <3>2. Quiet' = Quiet
      BY <1>3, <3>1 DEF Quiet, MutatingD
    <3> QED BY <2>1, <3>1, <3>2
  <2>3. CASE Finds(r)
    BY <1>5, <2>3 DEF Finds, Mutating, MutatePC
  <2>4. CASE Creates(r)
    <3>1. \A c \in chunkRows : c.doc # r
      BY <2>4 DEF Creates, RowsHaveDocuments
    <3>2. UNCHANGED <<profile, chunkRows>> /\ ~Mutating(r) /\ call'[r].doc = r
      BY <2>4 DEF Creates
    <3>3. Quiet' = Quiet
      BY <1>3, <3>1, <3>2 DEF Quiet, MutatingD
    <3> QED BY <2>1, <3>2, <3>3
  <2>5. CASE Works(r)
    <3>1. /\ UNCHANGED profile /\ Mutating(r) /\ Mutating(r)' /\ call'[r].doc = call[r].doc
          /\ call'[r].mode = call[r].mode
          /\ \A c : c.doc # call[r].doc => (c \in chunkRows' <=> c \in chunkRows)
      BY <2>5 DEF Works
    <3>2. \A c : c \in Quiet' <=> c \in Quiet
      BY <1>3, <3>1 DEF Quiet, MutatingD
    <3>3. Quiet' = Quiet
      BY <3>2
    <3> QED BY <1>5, <2>1, <3>1, <3>3
  <2>6. CASE Breaks(r)
    BY <2>6 DEF Breaks, Excuse
  <2>7. CASE Undoes(r)
    <3>1. /\ UNCHANGED profile /\ Mutating(r) /\ ~Mutating(r)' /\ call[r].doc = r
          /\ call[r].mode = "insert" /\ chunkRows' = chunkRows \ RowsOf(r)
      BY <2>7 DEF Undoes, DropDocument, Mutating, MutatePC
    <3>2. \A c : c \in Quiet' <=> c \in Quiet
      BY <1>3, <3>1 DEF Quiet, MutatingD, RowsOf
    <3>3. Quiet' = Quiet
      BY <3>2
    <3> QED BY <2>1, <3>1, <3>3
  <2>8. CASE Flags(r)
    BY <1>5, <2>8 DEF Flags, Fresh
  <2>9. CASE Caches(r)
    <3>1. /\ \A p \in Request : ~Mutating(p)
          /\ call[r].chunks = chunkRows
      BY <1>2, <2>9 DEF Caches
    <3>2. ~Mutating(r)' /\ UNCHANGED chunkRows /\ profile'.text = Text(chunkRows)
      BY <2>9, <3>1 DEF Caches, Mutating, MutatePC
    <3>3. \A p \in Request : ~Mutating(p)'
      BY <1>3, <3>1, <3>2
    <3>4. Quiet' = chunkRows
      BY <3>2, <3>3 DEF Quiet, MutatingD
    <3> QED BY <3>2, <3>4
  <2> QED BY <2>2, <2>3, <2>4, <2>5, <2>6, <2>7, <2>8, <2>9 DEF Kind
<1> QED BY <1>1, <1>4, <1>5

LEMMA CrashKeepsAll ==
    ASSUME TypeOK, KeptInv, Crash, Excuse
    PROVE  KeptInv'
<1> USE DEF KeptInv
<1>1. /\ UNCHANGED stores
      /\ \A r \in Request :
            \/ /\ call'[r].pc = "lost" /\ call'[r].mode = call[r].mode
               /\ call'[r].doc = call[r].doc /\ call[r].pc \notin EndPC
            \/ call'[r] = call[r] /\ r \notin Active
  <2>1. ASSUME NEW r \in Request, r \in Active
        PROVE  /\ call'[r].pc = "lost" /\ call'[r].mode = call[r].mode
               /\ call'[r].doc = call[r].doc /\ call[r].pc \notin EndPC
    BY <2>1 DEF Crash, NoCall, Active
  <2>2. ASSUME NEW r \in Request, r \notin Active
        PROVE  call'[r] = call[r]
    BY <2>2 DEF Crash
  <2> QED BY <2>1, <2>2 DEF Crash
<1>2. \A r \in Request : /\ ~Mutating(r)' /\ call'[r].pc # "extract"
                         /\ ~missed' => ~missed /\ ~Mutating(r)
                         /\ call'[r].pc \notin MutatePC \cup RefreshPC
  BY <1>1 DEF Active, Mutating, MutatePC, RefreshPC, EndPC, Excuse
<1>3. RowsHaveDocuments' /\ ModeInv'
  BY <1>1, <1>2 DEF RowsHaveDocuments, ModeInv, Exists, stores
<1>4. CacheInv'
  <2> SUFFICES ASSUME ~missed', Fresh'
               PROVE  profile'.text = Text(Quiet')
    BY <1>2 DEF CacheInv
  <2>1. ~missed /\ Fresh /\ \A r \in Request : ~Mutating(r)
    <3>1. ~missed
      BY DEF Excuse
    <3> QED BY <1>1, <1>2, <3>1 DEF Fresh, stores
  <2>2. Quiet' = Quiet
    BY <1>1, <1>2, <2>1 DEF Quiet, MutatingD, stores
  <2> QED BY <1>1, <2>1, <2>2 DEF CacheInv, stores
<1>5. \A d \in Request : Excused(d) => Excused(d)'
  BY <1>1 DEF Excused, Exists, DeletedBy, EndPC, stores
<1>6. \A r \in Request : Naming(r)' => Naming(r) /\ call'[r] = call[r]
  BY <1>1, <1>2 DEF Naming
<1>7. \A r \in Request : Naming(r)' => \E d \in Request : call'[r].doc = d /\ Excused(d)'
  BY <1>5, <1>6 DEF AnswerInv
<1>8. AnswerInv'
  BY <1>7 DEF AnswerInv, Excused, Exists, DeletedBy
<1> QED BY <1>3, <1>4, <1>8

LEMMA InitKept == Init => KeptInv
<1> SUFFICES ASSUME Init PROVE KeptInv
  OBVIOUS
<1>1. /\ \A r \in Request : call[r].pc = "idle"
      /\ chunkRows = {} /\ profile = None
  BY DEF Init, NoCall
<1> QED BY <1>1 DEF KeptInv, RowsHaveDocuments, ModeInv, CacheInv, AnswerInv, Fresh, Naming,
        MutatePC, RefreshPC

LEMMA NextKept ==
    TypeOK /\ LocalInv /\ StoreInv /\ KeptInv /\ [Next]_vars => KeptInv'
<1> SUFFICES ASSUME TypeOK, LocalInv, StoreInv, KeptInv, [Next]_vars PROVE KeptInv'
  OBVIOUS
<1>1. ASSUME NEW r \in Request, Upload(r) \/ Delete(r) \/ Refresh(r), Excuse
      PROVE  KeptInv'
  <2>1. Kind(r)
    BY <1>1, UploadKinds, DeleteKinds, RefreshKinds DEF KeptInv
  <2> QED BY <1>1, <2>1, KindKeepsRows, KindKeepsCache, KindKeepsAnswers DEF KeptInv
<1>2. CASE Crash /\ Excuse
  BY <1>2, CrashKeepsAll
<1>3. CASE UNCHANGED vars
  <2>1. UNCHANGED <<documents, chunkRows, profile, call, missed>>
    BY <1>3 DEF vars, stores, history
  <2>2. RowsHaveDocuments' /\ ModeInv' /\ AnswerInv'
    BY <2>1 DEF KeptInv, RowsHaveDocuments, ModeInv, AnswerInv, Naming, Excused, Exists,
       DeletedBy
  <2>3. Quiet' = Quiet /\ (Fresh' <=> Fresh) /\ \A r \in Request : Mutating(r)' <=> Mutating(r)
    BY <2>1 DEF Quiet, Fresh, MutatingD, Mutating
  <2> QED BY <2>1, <2>2, <2>3 DEF KeptInv, CacheInv
<1> QED BY <1>1, <1>2, <1>3 DEF Next

-----------------------------------------------------------------------------
(* Theorems.                                                               *)

\* In every reachable state the types are right, the stores keep what each call in
\* progress needs, and the cache and the answers are what the calls made of them.
THEOREM CallsAccountedFor == Spec => [](TypeOK /\ LocalInv /\ StoreInv /\ KeptInv)
<1>1. Init => TypeOK /\ LocalInv /\ StoreInv /\ KeptInv
  BY InitType, InitStores, InitKept
<1>2. TypeOK /\ LocalInv /\ StoreInv /\ KeptInv /\ [Next]_vars
      => (TypeOK /\ LocalInv /\ StoreInv /\ KeptInv)'
  BY NextType, NextStores, NextKept
<1> QED BY <1>1, <1>2, PTL DEF Spec

\* A profile that is served from the cache summarises the chunks there are, unless a
\* refresh overlapped a mutation or a mutation ended without mark_stale; a first upload
\* that failed and was rolled back leaves it current.
THEOREM CacheIsCurrent == Spec => []ProfileCurrent
<1>1. LocalInv /\ KeptInv => ProfileCurrent
  <2> SUFFICES ASSUME LocalInv, KeptInv, \A d \in Request : Settled(d), ~missed, Fresh
               PROVE  profile.text = Text(chunkRows)
    BY DEF ProfileCurrent, Fresh
  <2>1. \A r \in Request : ~Mutating(r)
    BY DEF LocalInv, Local, Settled, MutatingD, Mutating
  <2>2. Quiet = chunkRows
    BY <2>1 DEF Quiet, MutatingD
  <2> QED BY <2>1, <2>2 DEF KeptInv, CacheInv
<1> QED BY CallsAccountedFor, <1>1, PTL

\* The document an upload answered is a row, also for the loser of two racing uploads,
\* unless a deletion named it or the upload that created it was rolled back.
THEOREM AnswersAreDocuments == Spec => []AnswerIsADocument
<1>1. KeptInv => AnswerIsADocument
  BY DEF KeptInv, AnswerInv, AnswerIsADocument, Naming, Excused, DeletedBy
<1> QED BY CallsAccountedFor, <1>1, PTL
=============================================================================
