SPECIFICATION Spec
CONSTANTS
    Runs = {r1, r2}
    None = None
    r1 = r1
    r2 = r2
SYMMETRY Symmetry
INVARIANTS
    ApprovalOnFile
    CompletedRunIsWhole
    RecordsAgree
CHECK_DEADLOCK FALSE
