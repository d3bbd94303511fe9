CONSTANTS
    Req = {r1, r2}
    Proposal = {p1}
    MaxTurns = 2
    LoseConnections = TRUE
    LoseUploads = FALSE
    Nobody = Nobody
SPECIFICATION Spec
INVARIANT DecisionsStick
CHECK_DEADLOCK FALSE
