CONSTANTS
    Req = {r1, r2}
    Instance = {i1, i2}
    Version = {v1, v2, v3}
    First = v1
    Account = {a1}
    PatchStatus = {"draft", "under_review", "closed"}
    None = None
SPECIFICATION Spec
SYMMETRY Symmetry
INVARIANTS ActiveWasApproved SubmittedHasInstance NumbersContiguous
CHECK_DEADLOCK FALSE
