# Virtual Analyst: a TLA+ verification project

Virtual Analyst is a multi-tenant financial modelling service: a FastAPI
application (`apps/api`), a Celery worker (`apps/worker`), a shared library with
the model engine and the artifact store (`shared/fm_shared`) and a web client
(`apps/web`). State is kept in PostgreSQL, in a bucket of JSON artifacts, in
Redis (broker, progress keys) and in the memory of the API process. It is
deployed as one uvicorn process and a Celery worker (`Dockerfile`,
`render.yaml`).

This directory holds TLA+ models of the parts of it where several requests,
processes or services meet, the TLC runs that check them, and TLAPS proofs.
`PROJECT.json` maps every definition to the source lines it translates.

    tlc -config LifecycleDrafts.cfg MCModelLifecycle     # a run
    tlapm ModelLifecycleProofs.tla                       # the proofs of a module

## 1. Inventory

| component | state | operations | meets | what is hard | what makes it correct |
|---|---|---|---|---|---|
| Baselines `routers/baselines.py` | `model_baselines` rows, `is_active`, configuration artifacts | create, restore, archive | drafts and changesets publish into it | four kinds of writers of "the active version" | one active version per tenant; versions never change |
| Drafts `routers/drafts.py` | `draft_sessions`, the workspace document | create, chat, accept, reject, PATCH, commit, delete | language model, artifact store, baselines | the document is written while a request awaits the model | a proposal is decided once; nothing is lost; committed once |
| Changesets `routers/changesets.py` | `model_changesets`, overrides | create, test, merge | baselines | numbers computed from rows read before a wait | merged once, next number, no gap |
| Connections `db/connection.py` | pool, tenant row | acquire, transaction, `ensure_tenant` | everything | rollback, lost connections, exhaustion | no wait without end |
| Runs `routers/runs.py`, `worker/tasks.py`, `celery_app.py` | `runs`, `run_artifacts`, result objects, broker messages | create, execute, retry, fail, acknowledge | broker, store, engine | redelivery, lost workers, steps repeated | a succeeded run has its results; a task ends |
| Artifact store `artifact_store.py` | bucket, memory of one instance | save, load | drafts, changesets, runs | a failed upload falls back to memory | what is reported stored can be loaded |
| LLM routing `services/llm/*` | breaker per provider, monthly usage | candidates, limit check, call, metering | billing, pool | overlapping calls, check before charge | breaker state agrees with count; overshoot bounded; calls end |
| Budgets `routers/budgets/*` | budget row, versions, line items | create, submit, PATCH, line items, reforecast | workflows, language model | unlocked reads, transaction open over the model | active only when approved; revision history |
| Workflows `routers/workflows.py` | instances, stages | create, update | budgets, assignments | read, decide, write without lock | transitions of the table only |
| Assignments and reviews `routers/assignments.py` | assignment, reviews, summaries | create, claim, submit, review, PATCH, reminders | workflows, language model | every statement commits by itself | nobody reviews their own work; a decision has its review |
| Board packs `board_packs.py`, `board_pack_schedules.py` | packs, narratives, schedules, generation history | create, generate, PATCH, run now, cron, distribute, export | language model, e-mail, rates | overlapping cron calls, failed generations, steps that commit one by one | a pack is what its status says; no due time is skipped |
| Excel ingestion `excel_ingestion.py`, `agent/session_manager.py`, `excel_parser.py` | ingestion row, agent session, workbook and mapping artifacts | upload, analyze, ask, answer, resume, create draft, delete | agent stream, drafts, store | state persisted behind a stream | the row's status is true of its question, mapping and draft |
| Billing `services/billing` | subscriptions, usage | create, change, cancel, webhooks, check, record | routing, payment provider | several rows per tenant, late and reordered webhooks | one live subscription |
| Budget figures `routers/budgets/analytics.py`, `periods.py`, `templates.py` | lines, actuals, allocations | line CRUD, import, clone, template, reforecast | board packs | four views computed by queries of their own | the views agree; actual months stay as they are |
| Organisation structures `org_structures.py` | entities, ownership links, consolidated runs | CRUD, hierarchy, validation, consolidated run | store, engine | checks read without locks, crash in a run | nobody owns more than there is; a succeeded run has its result |
| Annual financial statements `routers/afs`, `services/afs` | trial balance, sections, history, reviews, outputs | upload, draft, revise, lock, review, generate, roll forward | language model | check before a wait, write after it | history is whole; decisions are final; files are read as written |
| Sentiment `pim/sentiment_ingestor.py` | signals, aggregates | refresh | broker, news, language model | redelivery, overlapping refreshes | aggregates catch up with signals |
| Investment desk `pim_pe.py`, `pim_portfolio.py`, `pim_backtest.py` | assessments, portfolio runs, commentary | CRUD, compute, build, comment | language model | figures written after their inputs changed | stamped figures are current; an answered run is whole |
| Reminders `assignments.py` cron | notifications | notify due and overdue | assignments | overlapping, failing jobs | told once per window; overdue is told |
| Model engine `fm_shared/model` | none | order, drivers, statements, debt, waterfall | runs | boundary arithmetic | cash explained, limits kept, order followed |
| Analyses `fm_shared/analysis`, `routers/runs.py` | none | simulations, heat map, tornado, valuation, covenants, consolidation | engine | order of overrides, results cut by index | each result from the inputs it is shown for |
| Scores `services/pim` | none | regime, score, portfolio, backtest, fund, rank, Markov chain | | missing factors, dates, boundaries | order kept, no look ahead |
| the rest | see `components` in `PROJECT.json` | CRUD, queries, UI | | | |

Every hazard found while reading is in `PROJECT.json`, at its line, with the
property that watches it or the reason why none does.

## 2. Modules

| module | models | extends |
|---|---|---|
| `BaselineRegistry` | the abstract registry: publish, restore, archive as one atomic step each | |
| `ModelLifecycle` | drafts, changesets and baselines of a tenant, statement by statement | implements `BaselineRegistry` |
| `DraftSession` | the abstract draft: an answer, a decision, an edit, a commit as one atomic step each | |
| `DraftWorkspace` | one draft's workspace and the requests on it | implements `DraftSession` |
| `RunExecution` | runs, the Celery task and its broker | |
| `LLMRouting` | candidates, breaker, quota, pool | |
| `BudgetApproval` | one budget, its versions, its workflow instances | |
| `ReviewPipeline` | one assignment and its reviews | |
| `BoardPacks`, `PackExport` | packs, schedules and their cron; a pack as a document, rates | |
| `ExcelIngestion`, `ExcelWorkbook` | the session of one import; what is read of a sheet and made of a mapping | |
| `BudgetFigures` | lines, actuals, allocations and the views of them | |
| `OrgStructures`, `Consolidation` | entities, ownership, consolidated runs; translation, minority, eliminations, the tree | |
| `Disclosures`, `TrialBalances` | an engagement's sections, reviews and outputs; files read, ratios, flags, tables | |
| `InvestmentDesk`, `Investment`, `Markov` | assessments, portfolio runs, commentary; scores, portfolio, backtest, funds; the chain of states | |
| `Subscriptions` | a tenant's subscriptions and the provider's webhooks | |
| `Sentiment`, `Reminders` | the refresh and its redelivery; the deadline cron | |
| `ModelEngine`, `Analysis` | graph, drivers, overrides, launches; what is computed around a run | `Analysis` extends `ModelEngine` |
| `Statements` | debt schedule, three statements, waterfall | |
| `MCModelLifecycle`, `MCDraftWorkspace`, `MCRunExecution`, `MCLLMRouting`, `MCBudgetApproval` | symmetry sets, instances, and statements of the documentation that do not hold | each its module |
| `MCRecords`, `MCServices`, `MCFigures` | instances of several modules at once (section 3) | instantiate them |
| `ModelLifecycleProofs`, `DraftWorkspaceProofs`, `RunExecutionProofs`, `BudgetApprovalProofs` | theorems about the module of the name | TLAPS |
| `ServicesProofs` | theorems about `LLMRouting` and `Reminders`, as `MCServices` composes them | TLAPS |
| `RecordsProofs` | theorems about `ReviewPipeline`, `ExcelIngestion`, `BudgetFigures`, `InvestmentDesk`, `Disclosures`, `Subscriptions`, `BoardPacks`, `OrgStructures`, in this order, as `MCRecords` composes them | `Sums` |
| `FiguresProofs` | theorems about `Consolidation` and `Statements`, as `MCFigures` uses them, then on calculations of `Analysis`, `Investment` and `Markov` | `Sums` |
| `Sums` | lemmas on induction, recursion, division and sums over finite sets | TLAPS |

The faulty versions of a definition (`<definition>_<fault>`) stand beside the
definitions of each module; each is a bug the code could plausibly have, and a
property of the module is violated when it takes the definition's place.

### ModelLifecycle

`draft`, `changeset`, `rows`, `active`, `archived` are tables; `artifact` is the
store; `req` has one record per request in flight; `created` remembers which
versions `create_baseline` published, the only ones that may be published after
their save failed. A request moves from one statement *that can wait or be
observed* to the next: the lock of its draft or changeset (`LockDraft`,
`LockChangeset`: `SELECT ... FOR UPDATE` and everything up to `ensure_tenant`),
the tenant row's upsert (`ensure_tenant`, which is what serialises publishers),
the `UPDATE` that deactivates every version (`SnapshotRows` fixes the rows it will
touch, `UpdateRows` waits for them), the `INSERT`, the artifact, `COMMIT`.
`patch_baseline` goes around the tenant row. Uncommitted work is in the request's
record; `Rollback` forgets it, the artifact excepted. PostgreSQL is modelled at
READ COMMITTED, the level asyncpg's transactions have here: a waiting statement
goes on when the other transaction ends, and unique indexes make the second writer
wait and then fail. A deadlock the server would break by an error is an ordinary
`Fail`.

`dryRun` says that a changeset's test answered 200. No handler sets a changeset
to `tested`, which merging requires: `OperatorMarksTested` stands for the
hand-made UPDATE without which no merge ever happens, and is marked external.
A failed upload counts as saved for the lifetime of the process (the store's
memory fallback); a store that raises is `StoreFaults`. A draft's parent is stored
as it was given and read by no handler here, so it is left out.

### DraftWorkspace

The document has accepted assumptions, pending proposals and the number of chat
turns; `lock` is the row lock that a connection holds. `draft_chat` is
`ChatLoads` (lock, status, load), the wait for the model, `ModelAnswers`
(save) and `Commit`; the decisions and PATCH load and save in one step, for they
do not await between. `LoseConnection` frees the lock while the request goes on
in its process; `LoseUploads` lets a save go to memory while loads find the
bucket's older object. `offered`, `accepted`, `rejected`, `compiled`, `chats`
and `faulty` are history variables.

`DraftSession` is what a client sees, without locks and copies. An answer of the
model, a decision and an edit take effect in it when `DraftWorkspace` saves the
document, a commit when its transaction commits; everything else is a stutter.
Once a connection or an upload is lost (`broken`) it promises nothing of the
document any more, but the status still goes by the table and a draft is
published once.

### RunExecution

`create_run` commits the row, publishes, records the task id; a deterministic
run is executed in the request. The worker's steps are the transactions and
uploads of `_run_mc_execute_async`; `AttemptFails`, `MarkFailed`, `Retry` and
`Ack` are Celery's autoretry and late acknowledgement; `WorkerLost` and
`Redeliver` are the broker. The dead letter list `dlq` is in Redis: `push_to_dlq`
only logs a write that Redis refuses, and trims the list to its length, which
failures of other tasks fill too (`OtherTaskFails`); the retry's own publish may be
refused as well. `lost` remembers the runs whose failure neither the database
(`MarkFailed`) nor the list has taken down. `BindInSet` says whether the server takes
`SET app.tenant_id = $1`: PostgreSQL does not (`FindStuckQueued`), and `Runs`
sets it to TRUE to check the code behind that line. `LoseUploads` is treated
the same way (with it, `StoresResults` is violated).

### LLMRouting

The process is one event loop, so what lies between two awaits is one action. A
call is at the limit check, at a candidate's answer or at metering. A candidate
that is open or has no key is passed over (`Goes`). The limit check and metering
each take a connection from the pool and wait for one that is free; a caller in
`Holding` keeps one of its own from the start of the call to its end (`Kept`),
which its query's connection comes on top of (`Querying`). A metering failure goes
the way of a provider failure (`UsageFails`), as in the code. The breaker counts
to the threshold; `cooled` replaces the clock.

### BudgetApproval and ReviewPipeline

Each request has a reading step and a writing step, because nothing locks what
was read. A reforecast holds the budget's row lock from `ensure_budget_version`
to the end of its transaction, over the call of the model. Statements of
`assignments.py` commit one by one, so every one is an action, and `Fail` stops
a request between any two.

Both routers have a PATCH that sets any status. `PatchStatus` is what clients
send: the web application sends `in_progress` for assignments
(`apps/web/app/(app)/inbox/[id]/page.tsx:77`); for budgets every status but
`submitted`, `approved` and `active` that an editor would choose. The properties
below are about the protocol of submit, review and approve; a client that
PATCHes a budget to `active` or an assignment to `completed` goes around it.

### Components that write in several statements

`BoardPacks`: `pack`, `sched` and `hist` are tables, `mailed` the e-mails sent.
A request or cron call steps from statement to statement (`ReadPack`,
`MarkGenerating`, the answer of the model, ready or error, history, mail, the
advance of `next_run_at`) and may fail at any.

`ExcelIngestion`: `row` is the session's row, `art` its artifacts, `draft` and
`workspace` what is made of it. The agent's stream announces an event, and the
next step writes it; it pauses at a question and is resumed by an answer.
`JsonDecoded` says whether a jsonb column arrives as an object; `Records` sets
it to TRUE to check the code behind that assumption (section 6).

`BudgetFigures`: line edits, imports, allocations, clones and templates are one
transaction each, without a wait, and one action. A reforecast is several:
`reforecast_budget` reads the periods that have actuals and the lines,
`ReadAmounts` their amounts and the sums of actuals, then it awaits the model, and
`CommitReforecast` writes the new version from those copies (or `ModelFails`). Its
transaction is READ COMMITTED and locks the budget's row only, so imports and
edits commit between any two of these steps. `imported` remembers what was
imported since the sums were read. Views that each compute a figure with a query
of their own are compared after any sequence of all this; whether a line is
revenue, which no total depends on, is left out.

`OrgStructures`: `create_ownership` reads the child's owners, then inserts;
`trigger_consolidated_run` inserts its row, loads the entities' models, stores
the result, updates the row; `Crash` forgets every request.

`Disclosures`: an edit reads lock and version, awaits the model, writes the
history row, then the section. Reviews and the engagement's status are separate
statements. `InvestmentDesk`: a compute reads the flows, then writes figures and
stamp; a portfolio run's row is followed by its holdings. `Subscriptions`: a
call reads in one step and inserts or updates in another; webhooks arrive in any
order, late and twice.

`Sentiment`: a worker's refresh steps through fetch, one signal per article,
read, one upsert per period; `GiveUp` loses it and the broker delivers it again.
The statement that sets the tenant on the connection is taken to succeed, which
PostgreSQL refuses (`FindStuckQueued`, the same line in `worker/tasks.py`).
`Reminders`: a job fixes its time, selects per kind, notifies one by one.

### Pure calculations

`Statements`, `ModelEngine`, `Analysis`, `Consolidation`, `ExcelWorkbook`,
`TrialBalances`, `PackExport`, `Investment` and `Markov` have no variables: they
define the functions of the code over small integers and what should hold of
their results. A definition has the name of the function it translates. Rates
and shares are halves or percent, divisions round down, draws of random numbers
and discount factors are inputs. No property depends on a rounding.

## 3. Runs

| run | instance | shows | states |
|---|---|---|---|
| `LifecycleDrafts` | 3 requests, 1 draft, 2 baselines, 1 version each | `OneActive`, `DraftCompiledOnce`, `PublishersNeverClash`, `TerminalDrafts`, refinement of the registry | 287 000 |
| `LifecycleMerges` | 2 requests, 2 changesets, 1 draft, 3 versions, failing store, fair | `ChangesetMergedOnce`, `VersionsContiguous`, `PublishedIsStored`, `ArtifactsImmutable`, every request ends | 247 000 |
| `Workspace` | 2 requests, 1 proposal, 3 turns, lost connections and uploads | `NothingLost`, `PublishedOnce`, refinement of the abstract draft (`ImplementsSession`) | 423 000 |
| `Runs` | 1 run, 2 workers, 2 retries, 2 faults, any write refused, a dead letter list of 2, fair | `SucceededHasResults`, `NoTaskLost`, `TasksEnd` | 244 000 |
| `Services` | routing: 2 calls, 2 connections of which one caller keeps one, 3 candidates, one without a key; sentiment: 2 articles, 2 workers, 1 lost refresh; reminders: 1 assignment, 2 jobs, 1 failure; fair | `BreakersHold`, `CallsEnd`, `AggregatesCatchUp`, `ToldAgainOnlyByOverlap`, `OverdueIsTold` | 258 000 |
| `Budgets` | 2 requests, 2 instances, 3 versions, 1 account | `ActiveWasApproved`, `SubmittedHasInstance`, `NumbersContiguous` | 2 440 000 |
| `Records` | eight components, 2 requests each | `ReviewsHold`, `StatusesAreTrue`, `NoOccurrenceSkipped`, `RowKeepsPromises`, `ActualsLocked`, `ViewsAgree`, `OwnedAtMostWhole`, `DisclosuresHold`, `DeskHolds`, `LiveOnlyByOverlap` | 1 352 000 |
| `Figures` | 34 calculations, every input of small sets | `StatementsHold`, `AnalysesHold`, `ConsolidationHolds`, `DocumentsHold`, `InvestmentsHold` | 331 000 |
| `FindStaleChat` | | a late chat brings back a decided proposal | violation |
| `FindPoolExhausted` | pool as large as the chats | chats that never end | violation |
| `FindStuckQueued` | `SET` refuses its parameter | a delivered run stays queued | violation |
| `FindCellsLost` | the inputs of `Figures` | a table with outer pipes loses its last column | violation |

**Several modules in one run.** `Records` and `Services` hold components that
share no table and never call each other: `part` chooses one at the start and the
others rest, so that the states are the sum of theirs, not the product. A property of
the run names the properties of the module it speaks of, and those say what they
mean there. The sets and bounds of both are CONSTANTS that the .cfg gives values,
with their assumptions (`RecordConstants`, `FigureConstants`, `NoneIsNoRow`,
`ReminderConstants`), so that the theorems about them hold of any instance.
`Figures` has behaviours of one step, which picks a calculation and an input; its
properties are action properties, so that an input is evaluated once.

**Why the bounds are enough.** The protocols compare pairs of requests (who holds
a lock, who has read before whom wrote); a third request in `LifecycleDrafts` lets
a restore run between two publishers. Three versions let a second merge number
after a first. One proposal is enough for a decision to be undone, since proposals
do not interact; three turns let a chat follow a decision and another overlap it.
Two retries and two faults let a redelivered attempt and its retry run beside the
original, or two other tasks fill the dead letter list. In `LifecycleMerges` the
draft lets a commit publish a first version with a store that fails. With two
connections, one of them kept by a caller, two calls that are at their limit check
or at metering wait for one another. Two versions beside the first let two
reforecasts overlap. In `Records`, two requests overlap at any
two statements and the remaining bounds count what users ask for: board packs 2
edits and 2 ticks (a schedule that becomes due again while its first call runs),
ingestion 6 requests (upload, analyze, question, answer, draft, delete), budget
figures 3 writes to 2 lines over 2 periods, with actuals below zero and a
reforecast begun after at most two of them, so that an import before it, one under
the model and an edit can meet, groups 5 edits to 3 entities (two owners, a link
removed and another made), statements 2 texts and 4 calls, the desk 3 edits,
subscriptions 3 rows and 6 calls (a cancellation and a second live row). In
`Services`, 2 days and 1 article without a date let a refresh read before the
other stores; 3 ticks let a deadline come near, pass and be seen again. In
`Figures`, three months with `Year` 1 keep current and later debt apart;
`MonthsPerYear`, `Dims` and `N_LEVELS` are 2, `SampleRows` 4, so that every loop
runs more than once and each boundary is met on both sides. The counts are bounds
of the instances only: the theorems of section 4 hold for any value of them.

`NothingLost`, and what `DraftSession` says of the document, are promises of the
row lock and the store and are claimed until the first connection or upload is
lost (`faulty`); `PublishedOnce`, and what it says of the status, always.
`OwnedAtMostWhole`, `LiveOnlyByOverlap`, `StampedFiguresAreCurrent` and
`ToldAgainOnlyByOverlap` are claimed of what did not overlap (`overlapped`,
`overtaken`, or how many did), because overlapping calls do break the stronger
statement (section 6): they say that overlap is the only way. Deadlock is not
checked: requests stop coming once ids are used up, and the liveness properties
say what the end of a request means.

**Faulty versions.** Each property of a run is violated when one definition is
replaced by a faulty version (`mutants` in `PROJECT.json`). A property that joins
several statements is violated by more of them, each seen to break the statement
named:

| statement | faulty versions |
|---|---|
| `RowKeepsPromises` | `Recorded_NoQuestion` |
| `ToldAsItIs`, `NothingMappedIsLost` | `data_start_UnderHeader`, `Target_CogsOnly` |
| `DebtHasItsBounds`, `LossesSetOffOnce`, `DrawnInOrder` | `Clamp_Floor`, `CarriedForward_Keeps`, `Available_Fresh` |
| `FollowsTheBlueprint`, `StaysBetweenPoints`, `RampsUp` | `Ready_Any`, `At_Passed`, `LinearShare_Late` |
| `MatrixIsItsCells`, `TornadoIsCentred`, `OnlyProjectedMonthsCount`, `MoreDebtNeverCures` | `CellIndex_ByColumn`, `BaseFcf_Stale`, `Projected_All`, `_is_breach_Within` |
| `EliminatedOnce`, `TreeShowsWhatIsOwned` | `Spread_Inverted`, `Unmet_Parent` |
| `PacksAreWhatTheySay`, `SucceededHasResult` | `SendMail_Hopes`, `SaveResult_Later` |
| `HistoryIsWhole` | `Recorded_OldVersion` |
| `AnsweredRunsAreWhole` | `Unsaved_LeavesOne` |
| `EachLineInItsSection`, `RatiosOfABalance`, `FlaggedOnceWorstFirst`, `PlainTablesKeepTheirCells` | `Opened_Keeps`, `TotalAssets_Current`, `Unseen_All`, `Body_Shifted` |
| `FormatsTellTheSame`, `AmountsKeepTheirProportions`, `LastWordCounts` | `Known_Always`, `_NON_MONETARY_KEYS_Old`, `Replaced_Never`, `Current_Any` |
| `ScoreFollowsTheNews`, `PortfolioIsDeserved`, `FundFiguresAgree`, `RankKeepsOrder` | `Indebted_Raw`, `AvailableWeight_All`, `Fits_Ever`, `Returned_NotRecallable`, `Span_LowTop` |
| `EveryStateHasItsNumber`, `MatrixFollowsTheHistory`, `DiagramLeavesNothingOut` | `Stride_OneShort`, `CountTransition_Reversed`, `Descending_Unstable` |

**Fairness.** `LifecycleMerges`: strong fairness of each request's steps, `Fail`
not among them: lock waits are queues, so a waiter whose lock is free again and
again gets it, and the run shows that no cycle of waits needs a failure to end.
The database is assumed to answer. `Runs`: workers go on with what they have
(weak), and a message ready at the broker is taken (strong on delivery per
message, since workers may be busy in between); nothing is assumed of the API
process. `Services`: each call's steps (strong): providers answer or time out, and
the pool serves its waiters in turn; a refresh worker goes on (weak), for the
task is periodic and delivered again when lost; the steps of the reminder's job
(weak), which a cron service calls again and again. Time passes unfairly: a
property that waits for a deadline says "overdue leads to told". No fairness is
given to arrivals, failures, lost connections, lost workers or the passing of the
breaker's recovery time.

## 4. Proofs

Eight modules hold the theorems. Each is of the whole specification and for every
value of its constants: any sets of requests, drafts, workers, users, schedules
or entities, and any bound. A property that has a theorem is the one that a run
checks, by the same definition.

| module | theorem | property or result |
|---|---|---|
| `ModelLifecycleProofs` | `TypeCorrect`, `Inductive` | `TypeOK`, `IInv` |
| | `AtMostOneActive`, `DraftsCompileOnce`, `ChangesetsMergeOnce` | `OneActive`, `DraftCompiledOnce`, `ChangesetMergedOnce` |
| | `VersionsSound`, `VersionsStored` | `VersionsContiguous`, `PublishedIsStored` |
| | `PublishersClashFree` | `PublishersNeverClash`: a publisher's INSERT never meets the active index |
| | `ArtifactsNeverChange`, `DraftsStayTerminal` | `ArtifactsImmutable`, `TerminalDrafts` |
| | `Refinement` | `ImplementsRegistry`: `versions`, `current`, `retired` of `BaselineRegistry` are the tables `rows`, `active`, `archived` |
| `DraftWorkspaceProofs` | `Inductive` | `IInv` |
| | `NothingIsLost`, `PublishedAtMostOnce` | `NothingLost`, `PublishedOnce` |
| | `SessionRefinement` | `ImplementsSession`: `state`, `document`, `decided`, `published` of `DraftSession` are `status`, `ws`, the decisions and `compiled` |
| | `CompiledIsCommitted` | `CompiledAsCommitted`: a baseline is the workspace as it was committed |
| | `DecidedAtMostOnce`, `ChatsWhileActive` | `DecidedOnce`, `ChatOnlyWhileActive` |
| `RunExecutionProofs` | `Inductive` | `IInv` |
| | `ResultsOfSucceeded`, if `~LoseUploads` | `SucceededHasResults` |
| | `TasksNotLost` | `NoTaskLost` |
| | `NoneLostWithoutFaults`, if `~Faulty` | no failure goes unrecorded: what `NoTaskLost` excepts is a full dead letter list only |
| `BudgetApprovalProofs` | `Inductive` | `IInv` |
| | `ActiveIsApproved`, if `"active" \notin PatchStatus` | `ActiveWasApproved` |
| | `SubmittedCanFinish`, if `"submitted" \notin PatchStatus` | `SubmittedHasInstance` |
| | `NumbersHaveNoGap` | `NumbersContiguous` |
| `ServicesProofs` | `Routing`, `BreakersAlwaysHold` | `StateMatchesCount` and `OvershootBounded`; `BreakersHold` |
| | `RemindersRepeatOnlyByOverlap` | `ToldAgainOnlyByOverlap` |
| `RecordsProofs` | `ReviewsAlwaysHold`, if `PatchedAsDocumented` | `ReviewsHold` |
| | `RowAlwaysKeepsPromises` | `RowKeepsPromises` |
| | `ActualsAlwaysLocked`, `ViewsAlwaysAgree` | `ActualsLocked`, `ViewsAgree` |
| | `DeskAlwaysHolds`, `DisclosuresAlwaysHold`, `SubscriptionsAlwaysHold` | `DeskHolds`, `DisclosuresHold`, `LiveOnlyByOverlap` |
| | `ConsolidatedRunsHold`, `PacksAlwaysHold`, `StatusesAlwaysTrue` | `SucceededHasResult`, `PacksAreWhatTheySay`; `StatusesAreTrue` |
| | `NoOccurrenceIsSkipped`, `OwnedNeverMore` | `NoOccurrenceSkipped`, `OwnedAtMostWhole` |
| `FiguresProofs` | `GroupIsItsParts`, `TreesShowWhatIsOwned` | `ParentsPartCountedOnce`, `TreeShowsWhatIsOwned` of `Consolidation`, for every input |
| | `ConsolidationsHold` | `ConsolidationHolds`, `EliminatedOnce` among it |
| | `StatementsHangTogether`, `WaterfallDrawsInOrder` | `FinancingIsExplained`, `LossesSetOffOnce`, `DebtHasItsBounds`; `DrawnInOrder`, `RepaidInOrder` of `Statements`, for every input |
| | `StatementsAlwaysHold` | `StatementsHold` |
| | `MatricesAreTheirCells`, `ValuationsLookNoFurther`, `MoreDebtCuresNothing` | `MatrixIsItsCells`, `OnlyProjectedMonthsCount`, `MoreDebtNeverCures` of `Analysis`, for every input |
| | `RanksKeepTheirOrder`, `GrowthNeverTurnsTheRegime` | `RankKeepsOrder`, `RegimeFollowsTheSignals` of `Investment`, for every input |
| | `StatesHaveTheirNumbers` | `EveryStateHasItsNumber` of `Markov`, for every input |

**Assumptions.** Those that the modules name for their constants: bounds are
numbers, `None` is none of the rows, shares lie in 1 to 100, amounts are integers
(below zero too), and the calls and jobs under way, the items, periods and
departments are finitely many. Beside `NoneLostWithoutFaults`, which is about a
system without faults, four theorems have a hypothesis of their own, and the run of
the same property is an instance of it:

- `~LoseUploads`: the store takes every upload. Without it the worker goes on
  after its result went to the memory of its own process, and `StoresResults` and
  `SucceededHasResults` fail (section 6).
- `PatchStatus` without `active`, or without `submitted`: nobody PATCHes a budget
  to the status in question. The code lets a client do so; the theorems say that
  this is the only way around the approval. Every other status may be sent.
- `PatchedAsDocumented`: PATCH does not set an assignment to submitted, completed
  or returned. Its documentation names `in_progress` (`assignments.py:314`); again
  the code accepts more, and the theorem leaves every other status free.

**Arguments.** No property of these is inductive: each is about rows written
several statements after something was read. The invariant of each proof adds
what a request still knows at the place it has reached.

- *ModelLifecycle.* That an `INSERT` finds no active row depends on what its
  request updated some steps before, and on what others could do since.
  `Consistent(q)` ties a request to the tables: while it holds its draft or
  changeset, that is still ready or tested; the version it numbered has a
  predecessor; after the update every row is among those it has deactivated, for
  it holds the tenant row and no other publisher inserts; after the insert its key
  is new, and after the save its artifact is in the store. `Compatible(p, q)` ties
  two requests: not both hold the tenant row, the same object or the index's
  active entry, and no two have chosen the same new baseline id. (Two merges may
  have chosen one number: the primary key refuses the second, which is why
  versions have no gap.) Each action is shown to keep `Consistent` of the request
  that moves, `Compatible` of it with the others, and, when it commits,
  `Consistent` of those that wait.
- *DraftWorkspace.* Who holds the row lock finds the status it read
  (`FindsStatus`) and, until a connection or upload is lost, has the stored
  document as its copy (`HasDocument`). So a document that is written whole from a
  copy as old as the model is slow still contains every decision. Publishing once
  needs only the status, and holds with losses. The refinement adds to the
  invariant that a decision is about one proposal (`OneEach`) and that, until a
  loss, only offered proposals are pending (`Offered`). Who awaits the model holds
  the lock of an active draft, so that what it saves is one answer to the document
  as it then is, with proposals nobody was offered before.
- *RunExecution.* `RowsWritten` and `ObjectsStored` say what an attempt has behind
  it at each step; later attempts add to it and take nothing away.
  `PublishedIsPending` finds the task of an unfinished run: in a message, at a
  worker, or in the dead letter list, over retry, loss and redelivery, unless that
  list is full (trimming is then what drops it) or the run is among `lost`, which
  takes a database and a Redis that refuse the same failure; with `~Faulty` none is.
- *BudgetApproval.* Whoever is about to complete an instance read it as approved
  (`ApprovalsKnown`), however long ago. The numbers in use are `1 .. k` for some
  `k`, and a reforecast in flight holds a number in `1 .. k + 1`: it adds the next
  one or repeats one.
- *LLMRouting.* A call is let in only below the limit. `Awaited` is the set of
  pairs of a call and a candidate that may still answer; what is used plus its
  size stays within the bound, each answer moving one pair from the second to the
  first.
- *Reminders.* For each task and kind there is a function from the notifications
  to the jobs that sent them, and those of one job are a quiet time apart
  (`Senders`); a job that is about to send found none within its window. More
  notifications than jobs in one window would give two to one job.
- *ReviewPipeline, ExcelIngestion.* A request that is about to write goes by a row
  that is there: a review by another than the assignee (`Follows`), a mapping, a
  stored workspace, a session (`Fits`). Rows and artifacts only gain, deletion
  excepted, so what was found still holds when it is used.
- *BoardPacks.* The pack a schedule made is one request's until it is recorded
  (`Owns`), so a request that is about to mail or to advance finds in the history
  what it put there (`OnTrack`). The lemma `Occurrences` says that the next time
  after a call's own `now` passes over no occurrence later than `now`.
- *Disclosures.* The text a section has is in the history, or the request that
  wrote it is about to put it there (`Whole`).
- *InvestmentDesk.* A compute holds the flows of the assessment, or `overtaken`
  remembers the update that came between; what a build has inserted and has yet
  to insert are the chosen holdings.
- *BudgetFigures.* A reforecast under the model has copied, for its periods, sums
  that are still those of the actuals unless `imported` has the account and period
  (`SumsHeld`, `Underway`); what it writes there is what it copied, whatever
  happened to the lines. For the views, that the lines are well formed is all that
  their equality takes: each view sums other keys (accounts, or accounts by
  department, or lines), and `SumMoves` says that a sum is the same when its terms
  are moved to other places, nothing being added but zeros. `SumsDiffer` carries
  the alert's threshold from the departments to the whole.
- *OrgStructures.* When a run is about to be set to succeeded its result is stored
  (`Reads`), and the shares it was computed with are parts of the whole. A create
  read owners whose shares leave room for its own (`Room`); until it inserts, an
  entity with another create under way is among the overlapped.
- *Consolidation.* For one entity, what is added less the minority's part, with an
  associate's share, is the parent's part, method by method (`CountedOnce`);
  `SumsCombine` and `SumOfSubset` carry that to the group. Each level of the tree
  consists of paths that name no entity twice and whose parts are paths of the
  levels above (`Leads`); a path as long as there are entities has no further child
  to show, by the pigeonhole principle (`PathsEnd`), so that the last level cuts
  nothing off.
- *Subscriptions.* A call creates a row only when it has read no live one: live
  rows that no webhook revived and calls about to create are together no more
  than the calls.

`TypeOK`, or a typing predicate as strong as the steps need, is a conjunct of
every invariant; the places where sizes of sets are compared cite the library's
theorems on finite sets, and the least or greatest member of a set of numbers is
found through well-foundedness of `<`.

*Sums.* `SumFunctionOnSet` is a fold, a function defined by recursion on the
subsets of a set through CHOOSE. The library's induction theorems take a predicate
as parameter, which the installed provers cannot instantiate; `FiniteInduction`
takes the set of the sets that satisfy it, which is a variable like any other and
is instantiated by its members. From it follow that the fold exists and is unique,
that the order of the elements does not matter (`SumTakesAny`), and what the proofs
above use. `LevelsExist` does the same for the recursion over the levels of a tree.

*Statements.* Balances, carried losses and the passes of the waterfall are each
computed from the month, facility or pass before. `RecursionExists` says that such
a recursion has a value, which its defining equation fixes, of the type that its
step keeps; `StepInduction` that what holds at the start and is kept by every step
holds throughout. Both take a set for the predicate, as above. The hypothesis is
`Configuration(c)`: whole figures by month, finitely many purchases with a useful
life of at least a month, any sequence of facilities with their limits and
schedules and of plugs with theirs; the horizon, the year and the number of
facilities are any. Debt's bounds are an induction over the months of one
facility, then a sum over facilities. What is set off in a month comes out of what
is carried into it, so that profits, taxed profits and carried losses telescope
over the months. Cash is computed as what makes the sheet balance and financing as
what explains the change in cash; that both come to what debt, equity and
dividends make of it is arithmetic over two months of the balance sheet, with the
first month apart. The loop of five passes keeps that what the waterfall owes, and
its interest, are whole figures by month; statements hang together for any such
figures. In a pass, the facilities are an induction within that over the months:
what is still missing, given what those before have drawn.

*Analyses, ranks, states.* What these calculations do is divide, and `Sums` says of
integer division that it keeps order and bounds (`DivisionOrdered`,
`DivisionWithin`). A rank lies in one of four segments, each growing evenly and
ending where the next begins. Of a valuation, the projected months, what they end
in and the terminal value are each no less than before. What remains of a state's
number after some dimensions are read is less than the number of states of those
that follow, so that a division gives the next level back; a higher level therefore
outweighs every later one. The hypotheses are those of the code's inputs: a missing
figure is no number, quartiles are ordered, of any sign (the lower of two figures lies
above a first quartile that is negative: below it the code turns the order, section
6), a range has two steps or more, growth is no worse than -100 %.

## 5. Only model-checked

- *Liveness* (`RequestsEnd`, `TasksEnd`, `CallsEnd`, `AggregatesCatchUp`,
  `OverdueIsTold`): fairness and ENABLED are beyond the prover.
- *Calculations* (`AnalysesHold`, `DocumentsHold`, `InvestmentsHold`), as a whole:
  six of their parts are proved for every input (the last three rows of the
  table), those of `Consolidation` and `Statements` all (`EliminatedOnce` within
  `ConsolidationsHold`, by the lemma `LinksEliminatedOnce`). The others are loops
  over sequences of any length, a recursion each, and would take an induction for
  every loop (section 8).
- `Sentiment` has a liveness property only.

## 6. Disagreements between the code and its documents

`findings` in `PROJECT.json` quotes both sides. Four have a run (`FindStaleChat`,
`FindPoolExhausted`, `FindStuckQueued`, `FindCellsLost`). For most of the others
the property that the document states is defined in the module (`StoresResults` of
`MCRunExecution`, `ReforecastCopiesCurrent` of `MCBudgetApproval`,
`PlugLimitsHold` of `Statements`, `StampedIsCurrent` and `CommentaryStays` of
`InvestmentDesk`, `FailedTasksAreListed` of `RunExecution`, `ActualsAreLocked` of
`BudgetFigures`, `DividendsShown` of `Statements`, `MatrixIsStochastic` of
`Markov`, `PositionsAreBounded` and `HigherRanksHigher` of `Investment`,
`PublishedWasReviewed` of `Disclosures`, `AtMostOneLive` of `Subscriptions`,
`ExportConvertsAsToday` and `RatiosAreNoMoney` of `PackExport`,
`NoEquityIsABreach` of `Analysis`, `PausedStateIsWhole` of `ExcelIngestion`), and
TLC violates it on an instance of the module (`StoresResults` with `LoseUploads`).

Seen in the modules without a finding of their own:

- *Baselines and drafts.* A restore of an unknown id deactivates every baseline
  and activates none (`baselines.py:281-291`; `docs/user-manual/10-baselines.md:240`).
  Archiving ignores open drafts (`baselines.py:270-292`; `10-baselines.md:243`).
  PATCH takes a draft to `committed` without a baseline (`drafts.py:39-44`;
  `11-drafts.md:65`), and accept and reject write the workspace of a committed
  draft (`drafts.py:654-730`; `11-drafts.md:306`). The dry run never sets a
  changeset to tested (`changesets.py:132-164`; `13-changesets.md:161`).
- *Runs.* A missing or invalid configuration leaves a deterministic run `running`
  (`runs.py:164-172`; `14-runs.md:249`); a task delivered again takes a succeeded
  run back to running (`tasks.py:136`; `14-runs.md:7`). A task that has failed is
  nowhere when Redis refuses the write of its dead letter, which is only logged
  (`celery_app.py:85-88`), and the database refused the status. The API takes 100
  000 simulations, the library 10 000 (`runs.py:41`, `monte_carlo.py:41`).
- *Budgets.* Two submits leave an instance without a budget (`crud.py:163`);
  `returned` does not take the budget back to draft (`17-budgets.md:162`); line
  items can be edited under review (`17-budgets.md:159`); reforecasts can share
  a number. With two lines of one account the variance keeps the last and the
  dashboard adds both (`analytics.py:444-447`); a period with any actual counts 0
  for accounts without one; the dashboard's "unfavourable" alert fires for
  spending below the budget.
- *Reviews and reminders.* Two reviewers can both decide (`assignments.py:479`); a
  submit that read before a review reopens what the review completed
  (`assignments.py:277`). Overlapping cron calls notify twice; a deadline moved
  within its window is not announced again.
- *Board packs.* A schedule whose cron expression is changed keeps the date of the
  old one, and a cron call that overlaps the change writes one of the old
  expression again (`board_pack_schedules.py:505`): `NoOccurrenceSkipped` speaks of
  calls that go by the expression the schedule has; an error of the model that is no
  `LLMError` leaves the pack "generating" (`board_packs.py:314-333`); an edit
  during generation is overwritten; distribution works on failed history rows.
  Budget variances and benchmarks of an export are not converted.
- *Excel ingestion.* Without a jsonb codec on the connection, columns arrive as
  text and `create_draft` and `resume_session` raise (`JsonDecoded = FALSE`); the
  streamed path never sets `analyzed`; a missing artifact leaves `analyzing`; two
  answers both resume the agent.
- *Statements.* Interest that is capitalised is never expensed
  (`debt.py:115-118`); draws beyond a limit are recorded before they are clamped;
  the cash flow's dividends line is of before the passes of the waterfall
  (`statements.py:400`), though its totals are not; the reconciliation of those
  passes compares a figure with itself; plugs of one type are repaid in the order
  they are listed, as they are drawn (`funding_waterfall.py:3,89`), though the
  module says reverse; what is due within the year ignores a grace period.
- *Engine and analyses.* A ramp that does not interpolate starts a month late;
  formulas' inputs without an edge read 0; multiplier overrides of drivers that
  are not constant are ignored; `if_else` evaluates both branches. Multiples are
  applied to one month's figures, and what is called median and mean are extremes;
  growth at or above the discount rate gives a terminal value of 0; a correlation
  of 1 is accepted and then ignored.
- *Consolidation and structures.* Rows of the engine collapse to one period in
  `_get_period_values` (`consolidation.py:53-75`); a loan's amount serves as
  principal and as rate; the equity method does not balance. Of the eliminations
  the two of the cash flow have no counterpart (`consolidation.py:341-342`,
  `350-351`), so that eliminated cash flows do not add up to nothing; all are
  taken out in full, also between entities consolidated by share or by equity.
  Models are stored by baseline and version, so the bare id of a baseline never
  loads; two creates at once take a child's owners above 100; a crash leaves
  `running`.
- *Annual statements.* `ACCOUNT_PATTERNS` finds revenue in "cost of sales"
  (`EachPatternFindsItsOwn` of `TrialBalances`); CSV files keep their grand
  totals as accounts; benchmarks have no deviation, so the z-score never fires. An
  edit can land after the lock (`disclosure.py:325`), and two submits or decisions
  overlap; a second rollforward duplicates; a locked section can be unlocked after
  approval.
- *Investment.* With fewer than two observations and `alpha` 0 the transition
  matrix is 0 divided by 0 (`markov.py:181-193`, `MatrixIsStochastic`). Below a
  negative first quartile a higher figure ranks lower. A weight cap is undone by the
  normalisation that follows it (`PositionsAreBounded`); a
  fallback of the backtest counts one return twice; factor weights that add up to
  zero raise; a value and commitment changed by PUT leave the stamp. Articles
  without a date are stored again by every refresh (`sentiment_ingestor.py:53`);
  the oldest bucket of the window is recomputed from part of its signals.
- *Billing.* A GET after a cancellation subscribes again; unknown statuses of the
  provider count as active; an update that arrives after a deletion revives it;
  the webhook compares names the provider does not send; `record_llm_usage` is
  called by nothing in the API (`deps.py:90`).

## 7. Not modelled

Texts, prompts, layout, authentication, row level security, audit rows.
Rounding and other effects of floating point. Restart of the API process as a
single event, except in `OrgStructures`: elsewhere its requests fail one by one.
Object listing and deletion in the store. Stages of workflow templates. Formulas'
parser, tax computations, AFS projections, the company universe, and what is pure
CRUD; `components` in `PROJECT.json` says for each part what is left out and why.

Hazards outside the list of `PROJECT.json`, because a single line decides them or
nothing in the models depends on them: the limit of simulations, progress written
by a callback that may run late (`tasks.py:153`), deterministic runs left
`running`, an instance created without its assignment (`workflows.py:228`), a
second reviewer's insert (`assignments.py:479`).

## 8. Plan

1. The refinement of one more protocol: an abstract review (a decision by another),
   which `ReviewPipeline` implements; the invariant for it is there.
2. The other calculations for every input: the order of the driver graph, the
   simulations and schedules of `Analysis`; the score, portfolio and backtest of
   `Investment`; the rows that `TrialBalances` reads, with `StepInduction`.
3. `ArtifactStore` on its own (bucket, memory per process, upsert), and the
   workspace and run modules restated over it.

No module declares a RECURSIVE operator, so all can be proved about.
