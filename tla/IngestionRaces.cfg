SPECIFICATION Spec
SYMMETRY Symmetry
CONSTANTS
    r1 = r1  r2 = r2  r3 = r3  r4 = r4
    f1 = f1  f2 = f2  c1 = c1  c2 = c2
    None = None
    Request = {r1, r2, r3, r4}
    Filename = {f1, f2}
    Content = {c1, c2}
    Pieces <- MCPieces
    Operation = {"upload", "delete", "refresh"}
    Fault = {"upsert", "vdelete", "llm", "crash"}
    MaxActive = 2
CHECK_DEADLOCK FALSE
INVARIANT TypeOK
INVARIANT StoresAgree
INVARIANT ProfileCurrent
INVARIANT AnswerIsADocument
