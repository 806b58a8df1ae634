SPECIFICATION Spec
SYMMETRY Symmetry
CONSTANTS
    r1 = r1  r2 = r2  r3 = r3  r4 = r4  r5 = r5
    d1 = d1  d2 = d2  p1 = p1  p2 = p2
    None = None
    Request = {r1, r2, r3, r4}
    Document = {d1}
    Posting = {p1}
    Operation = {"create_job", "delete_job", "upload", "generate_for_job"}
    Durable = FALSE
    Fault = {}
    MaxActive = 2
CHECK_DEADLOCK FALSE
INVARIANT CompletedIsRecorded
