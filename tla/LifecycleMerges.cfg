CONSTANTS
    Req = {r1, r2}
    Draft = {d1}
    Changeset = {c1, c2}
    Baseline = {b1}
    MaxVersion = 3
    HandTested = {c1, c2}
    StoreFaults = TRUE
    None = None
    Upload = Upload
SPECIFICATION FairSpec
INVARIANTS ChangesetMergedOnce VersionsContiguous PublishedIsStored
PROPERTIES ArtifactsImmutable RequestsEnd
CHECK_DEADLOCK FALSE
