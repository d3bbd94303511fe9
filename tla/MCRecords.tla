----------------------------- MODULE MCRecords -----------------------------
(***************************************************************************)
(* An instance for TLC of eight components that share no table: reviews,   *)
(* board packs, ingestion sessions, the figures of budgets, organisation   *)
(* structures, annual financial statements, the investment desk and        *)
(* subscriptions.  Each behaviour is one of a component, which part names; *)
(* the others rest.                                                        *)
(***************************************************************************)
EXTENDS ReviewPipeline, Integers, FiniteSets, TLC

CONSTANTS
    Item,           \* packs, drafts, accounts, sections or companies
    Schedule, CronExpr, MaxTime, MaxPackEdits,          \* of BoardPacks
    MaxAsks, JsonDecoded,                               \* of ExcelIngestion
    Period, Department, Amount, AnyAmount, MaxLines, MaxFigures, \* of BudgetFigures
    Entity, Pct, MaxOrgEdits,                           \* of OrgStructures
    Prior, AfsReview, MaxTexts, MaxAfsCalls,            \* of Disclosures
    Fund, MaxDeskEdits,                                 \* of InvestmentDesk
    Plan, KnownPlan, DEFAULT_PLAN_ID, MaxSubs, MaxCalls \* of Subscriptions

(* Schedules have a period that is not zero or none that is known, links a *)
(* percentage the endpoint lets through (OwnershipLinkBody).               *)
ASSUME RecordConstants ==
    /\ None \notin Nat /\ CronExpr \subseteq (Nat \ {0}) \cup {None} /\ {MaxTime, MaxDeskEdits} \subseteq Nat
    /\ Pct \subseteq 1..100
    /\ IsFiniteSet(Req)

(* Tables are finite, amounts are numbers, and none is no amount.          *)
ASSUME FigureConstants ==
    /\ IsFiniteSet(Item) /\ IsFiniteSet(Period) /\ IsFiniteSet(Department)
    /\ Amount \cup AnyAmount \subseteq Int /\ None \notin Int

VARIABLES
    part,
    pack, sched, hist, mailed, clock, packEdits, packReq,
    row, art, draft, workspace, asks, excelReq,
    lines, actuals, allocations, version, budgetEdits, reforecast, imported,
    entity, owned, exists, run, results, orgReq, overlapped, orgEdits,
    status, tb, sections, history, reviews, outputs, afsReq, texts, calls, unrecorded,
    fund, gone, built, text, deskReq, deskEdits, overtaken,
    subs, subsReq, revived, subsCalls

reviewVars == vars
packVars   == <<pack, sched, hist, mailed, clock, packEdits, packReq>>
excelVars  == <<row, art, draft, workspace, asks, excelReq>>
budgetVars == <<lines, actuals, allocations, version, budgetEdits, reforecast, imported>>
orgVars    == <<entity, owned, exists, run, results, orgReq, overlapped, orgEdits>>
afsVars    == <<status, tb, sections, history, reviews, outputs, afsReq, texts, calls, unrecorded>>
deskVars   == <<fund, gone, built, text, deskReq, deskEdits, overtaken>>
subsVars   == <<subs, subsReq, revived, subsCalls>>
allVars    == <<part, reviewVars, packVars, excelVars, budgetVars, orgVars, afsVars, deskVars, subsVars>>

Packs == INSTANCE BoardPacks
    WITH Pack <- Item, MaxEdits <- MaxPackEdits, edits <- packEdits, req <- packReq
Excel == INSTANCE ExcelIngestion
    WITH Draft <- Item, req <- excelReq
Figures == INSTANCE BudgetFigures
    WITH Account <- Item, MaxEdits <- MaxFigures, edits <- budgetEdits
Group == INSTANCE OrgStructures
    WITH MaxEdits <- MaxOrgEdits, req <- orgReq, edits <- orgEdits
AFS == INSTANCE Disclosures
    WITH Section <- Item, Review <- AfsReview, MaxEdits <- MaxTexts, MaxCalls <- MaxAfsCalls, req <- afsReq
Desk == INSTANCE InvestmentDesk
    WITH Company <- Item, Request <- Req, MaxEdits <- MaxDeskEdits,
         run <- built, req <- deskReq, edits <- deskEdits
Subs == INSTANCE Subscriptions
    WITH Request <- Req, req <- subsReq, calls <- subsCalls

ASSUME NoneIsNoRow == None \notin Desk!Assessment

AllInit ==
    /\ part \in {"reviews", "packs", "excel", "budget", "group", "afs", "desk", "subscription"}
    /\ Init /\ Packs!Init /\ Excel!Init /\ Figures!Init /\ Group!Init /\ AFS!Init /\ Desk!Init /\ Subs!Init

AllNext ==
    \/ /\ part = "reviews" /\ Next
       /\ UNCHANGED <<part, packVars, excelVars, budgetVars, orgVars, afsVars, deskVars, subsVars>>
    \/ /\ part = "packs" /\ Packs!Next
       /\ UNCHANGED <<part, reviewVars, excelVars, budgetVars, orgVars, afsVars, deskVars, subsVars>>
    \/ /\ part = "excel" /\ Excel!Next
       /\ UNCHANGED <<part, reviewVars, packVars, budgetVars, orgVars, afsVars, deskVars, subsVars>>
    \/ /\ part = "budget" /\ Figures!Next
       /\ UNCHANGED <<part, reviewVars, packVars, excelVars, orgVars, afsVars, deskVars, subsVars>>
    \/ /\ part = "group" /\ Group!Next
       /\ UNCHANGED <<part, reviewVars, packVars, excelVars, budgetVars, afsVars, deskVars, subsVars>>
    \/ /\ part = "afs" /\ AFS!Next
       /\ UNCHANGED <<part, reviewVars, packVars, excelVars, budgetVars, orgVars, deskVars, subsVars>>
    \/ /\ part = "desk" /\ Desk!Next
       /\ UNCHANGED <<part, reviewVars, packVars, excelVars, budgetVars, orgVars, afsVars, subsVars>>
    \/ /\ part = "subscription" /\ Subs!Next
       /\ UNCHANGED <<part, reviewVars, packVars, excelVars, budgetVars, orgVars, afsVars, deskVars>>

AllSpec == AllInit /\ [][AllNext]_allVars

CreditOrCharge == {-100, 104}
Symmetry == Permutations(Req) \cup Permutations(Item)

(* The components' properties, stated and explained in their modules: of a *)
(* review and its assignment,                                              *)
ReviewsHold == [](part = "reviews" => DecidedByReview /\ ReviewedByAnother) /\ AssigneeFixed

(* of the statuses of board packs and of consolidated runs, each written   *)
(* apart from what it speaks of,                                           *)
StatusesAreTrue ==
    /\ part = "packs" => Packs!PacksAreWhatTheySay
    /\ part = "group" => Group!SucceededHasResult

(* of a schedule,                                                          *)
NoOccurrenceSkipped == Packs!NoOccurrenceSkipped

(* of an ingestion session,                                                *)
RowKeepsPromises == part = "excel" => Excel!RowKeepsPromises

(* of a budget's figures,                                                  *)
ActualsLocked == Figures!ActualsLocked
ViewsAgree == part = "budget" => Figures!ViewsAgree

(* of a group's ownership,                                                 *)
OwnedAtMostWhole == part = "group" => Group!OwnedAtMostWhole

(* of an engagement's sections and reviews,                                *)
DisclosuresHold == [](part = "afs" => AFS!HistoryIsWhole) /\ AFS!DecisionsAreFinal

(* of a fund's figures and a portfolio's run,                              *)
DeskHolds == part = "desk" => Desk!StampedFiguresAreCurrent /\ Desk!AnsweredRunsAreWhole

(* and of a tenant's subscriptions.                                        *)
LiveOnlyByOverlap == part = "subscription" => Subs!LiveOnlyByOverlap
=============================================================================
