CONSTANTS
    anthropic = anthropic
    openai = openai
    other = other
    Call = {c1, c2}
    Holding = {c1}
    Provider = {anthropic, openai, other}
    Candidates <- Override
    Configured = {anthropic, openai}
    Threshold = 3
    Limit = 3
    PoolSize = 2
    Task = {1}
    Job = {1, 2}
    Kinds <- EarlyAndOverdue
    Ahead <- OneTick
    Quiet = 1
    QuietOverdue = 2
    MaxTime = 3
    MaxEdits = 2
    MaxFaults = 1
    None = None
SPECIFICATION AllSpec
INVARIANTS BreakersHold ToldAgainOnlyByOverlap
PROPERTIES CallsEnd AggregatesCatchUp OverdueIsTold
CHECK_DEADLOCK FALSE
