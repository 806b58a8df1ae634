SPECIFICATION Spec
SYMMETRY Symmetry
CONSTANTS
    r1 = r1  r2 = r2  r3 = r3  r4 = r4  r5 = r5
    d1 = d1  d2 = d2  p1 = p1  p2 = p2
    None = None
    Request = {r1, r2, r3, r4}
    Document = {d1}
    Posting = {p1, p2}
    Operation = {"create_job", "update_job", "delete_job", "upload", "link_document", "delete_document", "generate", "generate_for_job", "resume_run"}
    Durable = TRUE
    Fault = {"agent", "ingest", "persist", "disk", "crash"}
    MaxActive = 2
CHECK_DEADLOCK FALSE
INVARIANT TypeOK
INVARIANT ReferentialIntegrity
INVARIANT AnsweredIsStored
PROPERTY HistoryKept
INVARIANT OneResultPerRun
INVARIANT ErrorsExplained
