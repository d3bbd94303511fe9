CONSTANTS
    anthropic = anthropic
    openai = openai
    other = other
    Call = {c1, c2}
    Holding = {c1, c2}
    Provider = {anthropic, openai, other}
    Candidates <- DraftAssumptions
    Configured = {anthropic, openai}
    Threshold = 2
    Limit = 2
    PoolSize = 2
SPECIFICATION FairSpec
PROPERTY ChatsEnd
CHECK_DEADLOCK FALSE
