CONSTANTS
    Req = {r1, r2}
    Proposal = {p1}
    MaxTurns = 3
    LoseConnections = TRUE
    LoseUploads = TRUE
    Nobody = Nobody
SPECIFICATION Spec
SYMMETRY Symmetry
INVARIANT NothingLost
PROPERTIES ImplementsSession PublishedOnce
CHECK_DEADLOCK FALSE
