--------------------------- MODULE ModelLifecycle ---------------------------
(***************************************************************************)
(* Draft sessions, baselines and changesets of one tenant: the handlers of *)
(* routers/drafts.py, routers/baselines.py and routers/changesets.py that  *)
(* write those tables, as concurrent requests.                             *)
(*                                                                         *)
(* A handler that publishes a baseline is a Postgres transaction of        *)
(* several statements at READ COMMITTED.  Each statement is one action.    *)
(* An UPDATE takes its snapshot first and then waits for the row locks, so *)
(* it never sees the rows that commit while it waits.  The partial unique  *)
(* index on is_active and the primary key make an INSERT wait for a        *)
(* transaction in flight and fail against a committed row.                 *)
(* ensure_tenant's upsert locks the tenant row to the end of the           *)
(* transaction, which the handlers that call it queue for.                 *)
(*                                                                         *)
(* ArtifactStore.save is not part of the transaction: what it wrote stays  *)
(* when the transaction is rolled back.  Row level security keeps tenants  *)
(* apart, so one tenant is modelled.                                       *)
(***************************************************************************)
EXTENDS Naturals

CONSTANTS
    Req,            \* requests that may be in flight together
    Draft,          \* draft session ids
    Changeset,      \* changeset ids
    Baseline,       \* baseline ids uuid4 may produce (bounds the run)
    MaxVersion,     \* versions of one baseline (bounds the run; with more than
                    \* one version per member of HandTested it never binds)
    HandTested,     \* changesets an operator sets to 'tested' in the database
    StoreFaults,    \* TRUE: ArtifactStore.save may raise
    None,           \* no object, no artifact
    Upload          \* the origin of an artifact that create_baseline saved

ASSUME ConstantsOK ==
    /\ MaxVersion \in Nat \ {0}
    /\ HandTested \subseteq Changeset
    /\ StoreFaults \in BOOLEAN
    /\ {None, Upload} \cap (Draft \cup Changeset \cup Baseline) = {}
    /\ None # Upload
    /\ Draft \cap Changeset = {}

Key == Baseline \X (1 .. MaxVersion)    \* primary key of model_baselines
NoKey == <<None, 0>>

VARIABLES
    draft,          \* draft_sessions.status
    rows,           \* committed keys of model_baselines
    active,         \* those with is_active
    archived,       \* those with status 'archived'
    created,        \* those that create_baseline published (history)
    artifact,       \* what the store holds under model_config_v1/<key>
    changeset,      \* model_changesets: status and base version
    dryRun,         \* changesets whose dry run answered 200 (history)
    req             \* the requests in flight and their uncommitted writes

vars == <<draft, rows, active, archived, created, artifact, changeset, dryRun, req>>
-----------------------------------------------------------------------------
DraftStatus == {"none", "active", "ready_to_commit", "committed", "abandoned"}
ChangesetStatus == {"none", "draft", "tested", "merged"}

(* VALID_TRANSITIONS: the PATCH endpoint's status table.                    *)
VALID_TRANSITIONS ==
    [s \in DraftStatus |->
        CASE s = "active"          -> {"ready_to_commit", "abandoned"}
          [] s = "ready_to_commit" -> {"active", "committed", "abandoned"}
          [] OTHER                 -> {}]

Publishers == {"create_baseline", "commit_draft", "merge_changeset"}
Ops == Publishers \cup {"none", "activate_baseline", "archive_baseline"}
Pcs == {"idle", "lock", "tenant", "update", "rows", "write", "save", "commit"}

RequestRecord ==
    [op      : Ops,
     pc      : Pcs,
     obj     : Draft \cup Changeset \cup Baseline \cup {None},
     key     : Key \cup {NoKey},    \* the version it publishes or restores
     snap    : SUBSET Key,          \* rows its UPDATE statement saw
     touched : SUBSET Key]          \* rows it updated, locked until it ends

Request ==
    {v \in RequestRecord :
        /\ v.op = "commit_draft" => v.obj \in Draft
        /\ v.op = "merge_changeset" => v.obj \in Changeset
        /\ v.pc = "save" => v.op \in Publishers
        /\ v.op \in Publishers /\ v.pc \notin {"idle", "lock"} => v.key \in Key}

NoRequest == [op |-> "none", pc |-> "idle", obj |-> None, key |-> NoKey,
              snap |-> {}, touched |-> {}]

Others(r) == Req \ {r}

(* Who holds what: locks last from the statement that takes them to the end*)
(* of the transaction.                                                     *)
HoldsObject(q, x) ==
    /\ q.obj = x
    /\ q.op \in {"commit_draft", "merge_changeset"}
    /\ q.pc \notin {"idle", "lock"}
Unlocked(x) == \A r \in Req : ~HoldsObject(req[r], x)

HoldsTenant(q) ==
    /\ q.op \in Publishers
    /\ q.pc \in {"update", "rows", "write", "save", "commit"}

(* q has an uncommitted row version with is_active = true.                  *)
Activating(q) ==
    \/ q.op \in Publishers /\ q.pc \in {"save", "commit"}
    \/ q.op = "activate_baseline" /\ q.pc = "commit" /\ q.key # NoKey

(* What the version q publishes is made of.                                 *)
Origin(q) == IF q.op = "create_baseline" THEN Upload ELSE q.obj

(* The unique index makes a writer of an active row wait for every other    *)
(* transaction that has added or removed an active row and is not over.     *)
IndexBusy(r) ==
    \E s \in Others(r) : Activating(req[s]) \/ req[s].touched \cap active # {}

VersionsOf(b) == rows \cap ({b} \X (1 .. MaxVersion))

(* A uuid nobody has used: no row, no artifact and no request in flight.    *)
FreshKey(k) ==
    /\ k[2] = 1
    /\ VersionsOf(k[1]) = {}
    /\ \A v \in 1 .. MaxVersion : artifact[<<k[1], v>>] = None
    /\ \A s \in Req : req[s].key # k
-----------------------------------------------------------------------------
Init ==
    /\ draft = [d \in Draft |-> "none"]
    /\ rows = {} /\ active = {} /\ archived = {} /\ created = {}
    /\ artifact = [k \in Key |-> None]
    /\ changeset = [c \in Changeset |-> [status |-> "none", base |-> NoKey]]
    /\ dryRun = {}
    /\ req = [r \in Req |-> NoRequest]

tables == <<draft, rows, active, archived, created, artifact, changeset, dryRun>>
baselineTable == <<rows, active, archived, created>>

(* A request goes on with its own state only: its writes are uncommitted.  *)
Goes(r, v) == req' = [req EXCEPT ![r] = v] /\ UNCHANGED tables
Advance(r, pc) == Goes(r, [req[r] EXCEPT !.pc = pc])

Start(r, op, obj, pc, key) ==
    /\ req[r].pc = "idle"
    /\ Goes(r, [NoRequest EXCEPT !.op = op, !.obj = obj, !.pc = pc, !.key = key])

(* The transaction ends without effect: a raised HTTPException, a          *)
(* constraint error, a lost connection or a crash of the process.          *)
Rollback(r) == Goes(r, NoRequest)
-----------------------------------------------------------------------------
(* Faulty handlers, which the properties tell from the ones below.  No     *)
(* specification uses them.                                                *)

(* delete_draft writes a baseline's status; delete_draft without its guard.*)
delete_draft_Archives(d) ==
    /\ draft[d] \notin {"none", "abandoned", "committed"}
    /\ draft' = [draft EXCEPT ![d] = "archived"]
    /\ UNCHANGED <<baselineTable, artifact, changeset, dryRun, req>>

delete_draft_Unguarded(d) ==
    /\ Unlocked(d) /\ draft[d] # "none"
    /\ draft' = [draft EXCEPT ![d] = "abandoned"]
    /\ UNCHANGED <<baselineTable, artifact, changeset, dryRun, req>>

(* The SELECT of commit_draft without FOR UPDATE.                          *)
LockDraft_NoForUpdate(r) ==
    /\ req[r].op = "commit_draft" /\ req[r].pc = "lock"
    /\ IF draft[req[r].obj] = "ready_to_commit"
       THEN \E k \in Key : FreshKey(k) /\ Goes(r, [req[r] EXCEPT !.pc = "tenant",
                                                              !.key = k])
       ELSE Rollback(r)

(* merge_changeset without its status guard, and one that numbers the new  *)
(* version from the artifact store.                                        *)
LockChangeset_Numbers(r, from, status) ==
    LET b == changeset[req[r].obj].base[1]
    IN  /\ req[r].op = "merge_changeset" /\ req[r].pc = "lock"
        /\ Unlocked(req[r].obj)
        /\ changeset[req[r].obj].status \in status
        /\ \E n \in 1 .. MaxVersion - 1 :
              /\ <<b, n>> \in from
              /\ \A v \in 1 .. MaxVersion : <<b, v>> \in from => v <= n
              /\ Goes(r, [req[r] EXCEPT !.pc = "tenant", !.key = <<b, n + 1>>])
LockChangeset_AnyStatus(r) ==
    LockChangeset_Numbers(r, rows, {"tested", "merged"})
LockChangeset_FromStore(r) ==
    LockChangeset_Numbers(r, {k \in Key : artifact[k] # None}, {"tested"})

(* INSERT ... ON CONFLICT DO NOTHING of the tenant, which locks no row.    *)
ensure_tenant_DoNothing(r) == req[r].pc = "tenant" /\ Advance(r, "update")

(* INSERT ... ON CONFLICT DO UPDATE of the baseline version.               *)
InsertRow_Upsert(r) ==
    /\ req[r].op \in Publishers /\ req[r].pc = "write" /\ ~IndexBusy(r)
    /\ Advance(r, "save")

(* A restore with no unique index behind it, and one that starts again     *)
(* whenever the index refuses it.                                          *)
ActivateRows_NoIndex(r) ==
    /\ req[r].op = "activate_baseline" /\ req[r].pc = "write"
    /\ \E k \in VersionsOf(req[r].obj) :
          Goes(r, [req[r] EXCEPT !.pc = "commit", !.key = k, !.touched = @ \cup {k}])

ActivateRows_Retries(r) ==
    LET seen == VersionsOf(req[r].obj)
    IN  /\ req[r].op = "activate_baseline" /\ req[r].pc = "write"
        /\ ~IndexBusy(r)
        /\ IF \E k \in seen : seen = {k}
           THEN Goes(r, [req[r] EXCEPT !.pc = "commit", !.touched = @ \cup seen])
           ELSE Goes(r, [req[r] EXCEPT !.pc = "update", !.touched = {}])

(* A save whose failure every handler swallows.                            *)
SaveArtifact_Swallows(r) ==
    /\ req[r].pc = "save"
    /\ \E a \in {None, Upload, req[r].obj} :
          artifact' = [artifact EXCEPT ![req[r].key] = a]
    /\ req' = [req EXCEPT ![r] = [req[r] EXCEPT !.pc = "commit"]]
    /\ UNCHANGED <<draft, baselineTable, changeset, dryRun>>

(* A restore that sets is_active and leaves the status alone.              *)
CommitActivate_KeepsStatus(r) ==
    /\ req[r].op = "activate_baseline" /\ req[r].pc = "commit"
    /\ active' = (active \ req[r].touched) \cup ({req[r].key} \ {NoKey})
    /\ req' = [req EXCEPT ![r] = NoRequest]
    /\ UNCHANGED <<draft, rows, archived, created, artifact, changeset, dryRun>>
-----------------------------------------------------------------------------
(* Handlers of one statement under the row lock, or of one transaction     *)
(* that nothing can observe half done: a single action each.               *)

(* create_draft, and the imports that open a draft the same way.  (The     *)
(* parent baseline is stored as given, and no handler here reads it.)      *)
create_draft(d) ==
    /\ draft[d] = "none"
    /\ draft' = [draft EXCEPT ![d] = "active"]
    /\ UNCHANGED <<baselineTable, artifact, changeset, dryRun, req>>

(* patch_draft with a status: SELECT ... FOR UPDATE, 410 when the draft is *)
(* over, 409 outside VALID_TRANSITIONS.  The workspace half of the handler *)
(* is in DraftWorkspace.                                                   *)
patch_draft(d, s) ==
    /\ Unlocked(d)
    /\ draft[d] \notin {"none", "abandoned", "committed"}
    /\ s \in VALID_TRANSITIONS[draft[d]]
    /\ draft' = [draft EXCEPT ![d] = s]
    /\ UNCHANGED <<baselineTable, artifact, changeset, dryRun, req>>

(* delete_draft: one UPDATE guarded by status NOT IN (abandoned, committed).*)
delete_draft(d) ==
    /\ Unlocked(d)
    /\ draft[d] \notin {"none", "abandoned", "committed"}
    /\ draft' = [draft EXCEPT ![d] = "abandoned"]
    /\ UNCHANGED <<baselineTable, artifact, changeset, dryRun, req>>

(* create_changeset: the base version must exist (the SELECT, and the      *)
(* foreign key behind it).                                                 *)
create_changeset(c, k) ==
    /\ changeset[c].status = "none"
    /\ k \in rows
    /\ changeset' = [changeset EXCEPT ![c] = [status |-> "draft", base |-> k]]
    /\ UNCHANGED <<draft, baselineTable, artifact, dryRun, req>>

(* test_changeset: load the base version, apply the overrides, run the     *)
(* engine, answer 200.  Nothing is written.                                *)
test_changeset(c) ==
    /\ changeset[c].status # "none"
    /\ artifact[changeset[c].base] # None
    /\ dryRun' = dryRun \cup {c}
    /\ UNCHANGED <<draft, baselineTable, artifact, changeset, req>>

(* No handler writes 'tested', so that merge_changeset gets past its guard *)
(* only after the row was changed outside the program.                     *)
OperatorMarksTested(c) ==
    /\ c \in HandTested \cap dryRun
    /\ changeset[c].status = "draft"
    /\ Unlocked(c)
    /\ changeset' = [changeset EXCEPT ![c].status = "tested"]
    /\ UNCHANGED <<draft, baselineTable, artifact, dryRun, req>>
-----------------------------------------------------------------------------
(* Requests that publish, restore or retire a baseline.                    *)

create_baseline(r) ==
    \E k \in Key : FreshKey(k) /\ Start(r, "create_baseline", None, "tenant", k)

commit_draft(r, d) ==
    draft[d] # "none" /\ Start(r, "commit_draft", d, "lock", NoKey)

merge_changeset(r, c) ==
    changeset[c].status # "none" /\ Start(r, "merge_changeset", c, "lock", NoKey)

patch_baseline(r, b, op) ==
    /\ op \in {"activate_baseline", "archive_baseline"}
    /\ Start(r, op, b, "update", NoKey)

(* commit_draft takes the draft's row lock, and goes on with a fresh       *)
(* baseline id if the draft is ready and compiles.                         *)
LockDraft(r) ==
    /\ req[r].op = "commit_draft" /\ req[r].pc = "lock"
    /\ Unlocked(req[r].obj)
    /\ \/ /\ draft[req[r].obj] = "ready_to_commit"
          /\ \E k \in Key :
                /\ FreshKey(k)
                /\ Goes(r, [req[r] EXCEPT !.pc = "tenant", !.key = k])
       \/ draft[req[r].obj] # "ready_to_commit" /\ Rollback(r)      \* 409
       \/ draft[req[r].obj] = "ready_to_commit" /\ Rollback(r)      \* 422, 409

(* merge_changeset takes the changeset's row lock and numbers the new      *)
(* version from the rows it sees now, before it queues for the tenant.     *)
LockChangeset(r) ==
    /\ req[r].op = "merge_changeset" /\ req[r].pc = "lock"
    /\ Unlocked(req[r].obj)
    /\ LET cs == changeset[req[r].obj]
           b  == cs.base[1]
       IN  \/ /\ cs.status = "tested"
              /\ artifact[cs.base] # None
              /\ \E n \in 1 .. MaxVersion - 1 :
                    /\ <<b, n>> \in rows
                    /\ \A k \in VersionsOf(b) : k[2] <= n
                    /\ Goes(r, [req[r] EXCEPT !.pc = "tenant",
                                              !.key = <<b, n + 1>>])
           \/ /\ cs.status # "tested" \/ artifact[cs.base] = None  \* 409, 404
              /\ Rollback(r)

(* ensure_tenant: the upsert waits for, then holds, the tenant's row.      *)
ensure_tenant(r) ==
    /\ req[r].pc = "tenant"
    /\ \A s \in Others(r) : ~HoldsTenant(req[s])
    /\ Advance(r, "update")

(* UPDATE model_baselines: the statement's snapshot ...                    *)
SnapshotRows(r) ==
    /\ req[r].pc = "update"
    /\ Goes(r, [req[r] EXCEPT !.pc = "rows",
                              !.snap = IF req[r].op = "archive_baseline"
                                       THEN VersionsOf(req[r].obj) ELSE rows])

(* ... and its row locks.                                                  *)
UpdateRows(r) ==
    /\ req[r].pc = "rows"
    /\ \A s \in Others(r) : req[s].touched \cap req[r].snap = {}
    /\ Goes(r, [req[r] EXCEPT !.touched = req[r].snap,
                              !.snap = {},
                              !.pc = IF req[r].op = "archive_baseline"
                                     THEN "commit" ELSE "write"])

(* INSERT of the new active version: a duplicate key or a second active    *)
(* row raises UniqueViolationError.                                        *)
InsertRow(r) ==
    /\ req[r].op \in Publishers /\ req[r].pc = "write"
    /\ ~IndexBusy(r)
    /\ IF req[r].key \in rows \/ ~(active \subseteq req[r].touched)
       THEN Rollback(r)
       ELSE Advance(r, "save")

(* patch_baseline's second UPDATE sets is_active on every version of the   *)
(* baseline it is given, which may be none (the id is not checked) or      *)
(* several, when the index refuses the second.                             *)
ActivateRows(r) ==
    /\ req[r].op = "activate_baseline" /\ req[r].pc = "write"
    /\ ~IndexBusy(r)
    /\ LET seen == VersionsOf(req[r].obj)
       IN  /\ \A s \in Others(r) : req[s].touched \cap seen = {}
           /\ \/ /\ seen = {}
                 /\ Advance(r, "commit")
              \/ \E k \in seen :
                    /\ seen = {k}
                    /\ active \subseteq req[r].touched \cup {k}
                    /\ Goes(r, [req[r] EXCEPT !.pc = "commit", !.key = k,
                                              !.touched = @ \cup {k}])
              \/ /\ \/ \E k1, k2 \in seen : k1 # k2
                    \/ seen # {} /\ ~(active \subseteq req[r].touched \cup seen)
                 /\ Rollback(r)

(* ArtifactStore.save under the new key.  When it raises, create_baseline  *)
(* logs and goes on; the others lose their transaction.  (A failed upload  *)
(* does not raise: the object goes to the memory of the process, and load  *)
(* serves it from there.  It counts as saved.)                             *)
SaveArtifact(r) ==
    /\ req[r].pc = "save"
    /\ \/ /\ artifact' = [artifact EXCEPT ![req[r].key] = Origin(req[r])]
          /\ req' = [req EXCEPT ![r] = [req[r] EXCEPT !.pc = "commit"]]
          /\ UNCHANGED <<draft, baselineTable, changeset, dryRun>>
       \/ /\ StoreFaults
          /\ IF req[r].op = "create_baseline" THEN Advance(r, "commit")
                                              ELSE Rollback(r)

CommitPublish(r) ==
    /\ req[r].op \in Publishers /\ req[r].pc = "commit"
    /\ rows' = rows \cup {req[r].key}
    /\ active' = (active \ req[r].touched) \cup {req[r].key}
    /\ created' = IF req[r].op = "create_baseline"
                  THEN created \cup {req[r].key} ELSE created
    /\ draft' = IF req[r].op = "commit_draft"
                THEN [draft EXCEPT ![req[r].obj] = "committed"] ELSE draft
    /\ changeset' = IF req[r].op = "merge_changeset"
                    THEN [changeset EXCEPT ![req[r].obj].status = "merged"]
                    ELSE changeset
    /\ req' = [req EXCEPT ![r] = NoRequest]
    /\ UNCHANGED <<archived, artifact, dryRun>>

CommitActivate(r) ==
    /\ req[r].op = "activate_baseline" /\ req[r].pc = "commit"
    /\ active' = (active \ req[r].touched) \cup ({req[r].key} \ {NoKey})
    /\ archived' = archived \ {req[r].key}
    /\ req' = [req EXCEPT ![r] = NoRequest]
    /\ UNCHANGED <<draft, rows, created, artifact, changeset, dryRun>>

CommitArchive(r) ==
    /\ req[r].op = "archive_baseline" /\ req[r].pc = "commit"
    /\ active' = active \ req[r].touched
    /\ archived' = archived \cup req[r].touched
    /\ req' = [req EXCEPT ![r] = NoRequest]
    /\ UNCHANGED <<draft, rows, created, artifact, changeset, dryRun>>

(* A crash, a cancelled request or a lost connection at any point.         *)
Fail(r) == req[r].pc # "idle" /\ Rollback(r)
-----------------------------------------------------------------------------
Step(r) ==
    \/ LockDraft(r) \/ LockChangeset(r) \/ ensure_tenant(r) \/ SnapshotRows(r)
    \/ UpdateRows(r) \/ InsertRow(r) \/ ActivateRows(r) \/ SaveArtifact(r)
    \/ CommitPublish(r) \/ CommitActivate(r) \/ CommitArchive(r)

Arrive(r) ==
    \/ create_baseline(r)
    \/ \E d \in Draft : commit_draft(r, d)
    \/ \E c \in Changeset : merge_changeset(r, c)
    \/ \E b \in Baseline, op \in Ops : patch_baseline(r, b, op)

Short ==
    \/ \E d \in Draft : \/ create_draft(d)
                        \/ \E s \in DraftStatus : patch_draft(d, s)
                        \/ delete_draft(d)
    \/ \E c \in Changeset : \/ \E k \in Key : create_changeset(c, k)
                            \/ test_changeset(c)
                            \/ OperatorMarksTested(c)

Next == Short \/ \E r \in Req : Arrive(r) \/ Step(r) \/ Fail(r)

Spec == Init /\ [][Next]_vars

(* Postgres serves a lock's waiters in turn and a handler that is not      *)
(* waiting runs on, so that a step that can be taken again and again is    *)
(* taken.  Clients promise nothing: no fairness on Arrive, Short and Fail. *)
FairSpec == Spec /\ \A r \in Req : SF_vars(Step(r))
-----------------------------------------------------------------------------
TypeOK ==
    /\ draft \in [Draft -> DraftStatus]
    /\ rows \subseteq Key /\ active \subseteq Key /\ archived \subseteq Key
    /\ created \subseteq rows
    /\ artifact \in [Key -> Draft \cup Changeset \cup {Upload, None}]
    /\ changeset \in [Changeset -> [status : ChangesetStatus,
                                    base : Key \cup {NoKey}]]
    /\ dryRun \subseteq Changeset
    /\ req \in [Req -> Request]

(* A tenant never has two active baselines, whatever create, commit, merge *)
(* and restore requests interleave (uq_one_active_baseline_per_tenant).    *)
OneActive == \A k1, k2 \in active : k1 = k2

(* A draft is compiled into one baseline at most, however many commits of  *)
(* it are in flight, and only a draft that is committed has one.           *)
DraftCompiledOnce ==
    \A k1 \in rows : artifact[k1] \in Draft =>
        /\ draft[artifact[k1]] = "committed"
        /\ \A k2 \in rows : artifact[k2] = artifact[k1] => k2 = k1

(* A changeset is merged once at most, by the same argument.               *)
ChangesetMergedOnce ==
    \A k1 \in rows : artifact[k1] \in Changeset =>
        /\ changeset[artifact[k1]].status = "merged"
        /\ \A k2 \in rows : artifact[k2] = artifact[k1] => k2 = k1

(* What a published version stands for is immutable: no request, and no    *)
(* merge that computed a stale version number, writes over its artifact.   *)
ArtifactsImmutable == [][\A k \in rows : artifact'[k] = artifact[k]]_vars

(* A committed or abandoned draft stays so, whatever its other requests do.*)
TerminalDrafts ==
    [][\A d \in Draft :
        draft[d] \in {"committed", "abandoned"} => draft'[d] = draft[d]]_vars

(* The tenant lock keeps the publishing handlers from ever meeting the     *)
(* unique index: when one inserts, it has deactivated the active row, even *)
(* if a restore ran between its statements.  (A restore, which does not    *)
(* lock the tenant, may meet the index and fail.)                          *)
PublishersNeverClash ==
    \A r \in Req :
        req[r].op \in Publishers /\ req[r].pc = "write"
        => active \subseteq req[r].touched

(* The versions of a baseline are v1..vn without a gap: a merge numbered   *)
(* from a stale read is refused by the primary key.                        *)
VersionsContiguous ==
    \A k \in rows : \A v \in 1 .. k[2] : <<k[1], v>> \in rows

(* Every version that commit_draft or merge_changeset published can be     *)
(* loaded, whatever fails between their statements, and so can what        *)
(* create_baseline published, unless its save raised: it alone goes on.    *)
PublishedIsStored ==
    \A k \in rows : artifact[k] = None => StoreFaults /\ k \in created

(* Every request ends: no cycle among draft, changeset, tenant, row and    *)
(* index waits.                                                            *)
RequestsEnd == \A r \in Req : req[r].pc # "idle" ~> req[r].pc = "idle"

-----------------------------------------------------------------------------
(* The inductive invariant.  Numbered: the request has chosen the version  *)
(* it will publish.                                                        *)
Numbered(q) == q.op \in Publishers /\ q.pc \notin {"idle", "lock"}

(* What a request in flight has relied on still holds.                     *)
Consistent(q) ==
    /\ q.snap \cup q.touched \subseteq rows
    /\ q.op = "activate_baseline" =>
         IF q.pc = "commit" THEN q.key \in rows \cup {NoKey} ELSE q.key = NoKey
    /\ HoldsObject(q, q.obj) =>
         IF q.op = "commit_draft" THEN draft[q.obj] = "ready_to_commit"
                                  ELSE changeset[q.obj].status = "tested"
    /\ Numbered(q) =>
         IF q.op = "merge_changeset"
         THEN q.key[2] > 1 /\ <<q.key[1], q.key[2] - 1>> \in rows
         ELSE q.key[2] = 1
    /\ q.op = "create_baseline" /\ Numbered(q) /\ q.pc # "commit" =>
         artifact[q.key] = None
    /\ q.op \in Publishers =>
         /\ q.pc = "rows" => rows \subseteq q.snap
         /\ q.pc \in {"write", "save", "commit"} => rows \subseteq q.touched
         /\ q.pc \in {"save", "commit"} => q.key \notin rows
         /\ q.pc = "commit" =>
              \/ artifact[q.key] = Origin(q)
              \/ /\ q.op = "create_baseline" /\ StoreFaults
                 /\ artifact[q.key] = None
    /\ Activating(q) => active \subseteq q.touched

(* Two requests never hold one lock, and never choose one new baseline.    *)
Compatible(p, q) ==
    /\ ~(HoldsTenant(p) /\ HoldsTenant(q))
    /\ ~(Activating(p) /\ Activating(q))
    /\ ~(HoldsObject(p, q.obj) /\ HoldsObject(q, q.obj))
    /\ /\ Numbered(p) /\ p.op # "merge_changeset"
       /\ Numbered(q) /\ q.op # "merge_changeset"
       => p.key # q.key

(* With these, whatever interleaves, each lock and index does its work:    *)
(* the tables keep every invariant above.                                  *)
IInv ==
    /\ TypeOK
    /\ active \subseteq rows
    /\ \A r \in Req : Consistent(req[r])
    /\ \A r, s \in Req : r # s => Compatible(req[r], req[s])
    /\ OneActive
    /\ DraftCompiledOnce
    /\ ChangesetMergedOnce
    /\ VersionsContiguous
    /\ PublishedIsStored
-----------------------------------------------------------------------------
(* The handlers implement the registry: each of their commits is one of    *)
(* its steps, and nothing else changes the baselines.                      *)
Registry == INSTANCE BaselineRegistry
                WITH versions <- rows, current <- active, retired <- archived
ImplementsRegistry == Registry!Spec
=============================================================================
