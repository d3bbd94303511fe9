CONSTANTS
    Req = {r1, r2, r3}
    Draft = {d1}
    Changeset = {}
    Baseline = {b1, b2}
    MaxVersion = 1
    HandTested = {}
    StoreFaults = FALSE
    None = None
    Upload = Upload
SPECIFICATION Spec
SYMMETRY Symmetry
INVARIANTS TypeOK OneActive DraftCompiledOnce PublishersNeverClash
PROPERTIES TerminalDrafts ImplementsRegistry
CHECK_DEADLOCK FALSE
