CONSTANTS
    User = {u1, u2, u3}
    Req = {r1, r2}
    Review = {v1, v2}
    PatchStatus = {"in_progress"}
    Item = {x1, x2}
    Schedule = {"schedule"}
    CronExpr = {1, 2}
    MaxTime = 2
    MaxPackEdits = 2
    MaxAsks = 6
    JsonDecoded = TRUE
    Period = {1, 2}
    Department = {"department"}
    Amount = {0, 100}
    AnyAmount <- CreditOrCharge
    MaxLines = 2
    MaxFigures = 3
    Entity = {e1, e2, e3}
    Pct = {60}
    MaxOrgEdits = 5
    Prior = {1}
    AfsReview = {"review"}
    MaxTexts = 2
    MaxAfsCalls = 4
    Fund = {"fund"}
    MaxDeskEdits = 3
    Plan = {"starter", "professional", "unknown"}
    KnownPlan = {"starter", "professional"}
    DEFAULT_PLAN_ID = "starter"
    MaxSubs = 3
    MaxCalls = 6
    None = None
SPECIFICATION AllSpec
SYMMETRY Symmetry
INVARIANTS StatusesAreTrue RowKeepsPromises ViewsAgree OwnedAtMostWhole DeskHolds LiveOnlyByOverlap
PROPERTIES ReviewsHold NoOccurrenceSkipped ActualsLocked DisclosuresHold
CHECK_DEADLOCK FALSE
