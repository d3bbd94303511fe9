------------------------ MODULE ModelLifecycleProofs ------------------------
(***************************************************************************)
(* Type correctness, the inductive invariant, the safety properties that   *)
(* follow from it, and the refinement of BaselineRegistry, for any sets of *)
(* requests, drafts, changesets and baselines.                             *)
(***************************************************************************)
EXTENDS ModelLifecycle, TLAPS

USE ConstantsOK

-----------------------------------------------------------------------------
(* Type correctness.                                                       *)

LEMMA KeyFacts ==
    /\ NoKey \notin Key
    /\ NoRequest \in Request
    /\ NoRequest = [op |-> "none", pc |-> "idle", obj |-> None, key |-> NoKey,
                    snap |-> {}, touched |-> {}]
  BY DEF NoKey, Key, NoRequest, Request, RequestRecord, Ops, Publishers, Pcs

(* What the handlers do to a request record.                               *)
LEMMA GoesType ==
    ASSUME TypeOK, NEW r \in Req, NEW v \in Request, Goes(r, v)
    PROVE  TypeOK'
  BY DEF TypeOK, Goes, tables

LEMMA RollbackType ==
    ASSUME TypeOK, NEW r \in Req, Rollback(r)
    PROVE  TypeOK'
  BY GoesType, KeyFacts DEF Rollback

LEMMA ShortType == TypeOK /\ Short => TypeOK'
  <1> SUFFICES ASSUME TypeOK, Short PROVE TypeOK'
    OBVIOUS
  <1>1. ASSUME NEW d \in Draft, create_draft(d)
        PROVE  TypeOK'
    BY <1>1 DEF TypeOK, create_draft, DraftStatus, baselineTable
  <1>2. ASSUME NEW d \in Draft, NEW s \in DraftStatus, patch_draft(d, s)
        PROVE  TypeOK'
    BY <1>2 DEF TypeOK, patch_draft, baselineTable
  <1>3. ASSUME NEW d \in Draft, delete_draft(d)
        PROVE  TypeOK'
    BY <1>3 DEF TypeOK, delete_draft, DraftStatus, baselineTable
  <1>4. ASSUME NEW c \in Changeset, NEW k \in Key, create_changeset(c, k)
        PROVE  TypeOK'
    BY <1>4 DEF TypeOK, create_changeset, ChangesetStatus, baselineTable
  <1>5. ASSUME NEW c \in Changeset, test_changeset(c)
        PROVE  TypeOK'
    BY <1>5 DEF TypeOK, test_changeset, baselineTable
  <1>6. ASSUME NEW c \in Changeset, OperatorMarksTested(c)
        PROVE  TypeOK'
    BY <1>6 DEF TypeOK, OperatorMarksTested, ChangesetStatus, baselineTable
  <1>7. QED
    BY <1>1, <1>2, <1>3, <1>4, <1>5, <1>6 DEF Short

LEMMA ArriveType ==
    ASSUME TypeOK, NEW r \in Req, Arrive(r)
    PROVE  TypeOK'
  <1> DEFINE new(op, obj, pc, key) ==
        [NoRequest EXCEPT !.op = op, !.obj = obj, !.pc = pc, !.key = key]
  <1> USE KeyFacts DEF Request, RequestRecord, Ops, Publishers, Pcs
  <1>1. ASSUME NEW k \in Key, Start(r, "create_baseline", None, "tenant", k)
        PROVE  TypeOK'
    <2>1. new("create_baseline", None, "tenant", k) \in Request
      OBVIOUS
    <2>2. QED
      BY <1>1, <2>1, GoesType, ZenonT(30) DEF Start
  <1>2. ASSUME NEW d \in Draft, commit_draft(r, d) PROVE TypeOK'
    <2>1. new("commit_draft", d, "lock", NoKey) \in Request
      OBVIOUS
    <2>2. QED
      BY <1>2, <2>1, GoesType, ZenonT(30) DEF commit_draft, Start
  <1>3. ASSUME NEW c \in Changeset, merge_changeset(r, c) PROVE TypeOK'
    <2>1. new("merge_changeset", c, "lock", NoKey) \in Request
      OBVIOUS
    <2>2. QED
      BY <1>3, <2>1, GoesType, ZenonT(30) DEF merge_changeset, Start
  <1>4. ASSUME NEW b \in Baseline, NEW op \in Ops, patch_baseline(r, b, op)
        PROVE  TypeOK'
    <2>1. new(op, b, "update", NoKey) \in Request
      BY <1>4 DEF patch_baseline
    <2>2. QED
      BY <1>4, <2>1, GoesType, ZenonT(30) DEF patch_baseline, Start
  <1>5. QED
    BY <1>1, <1>2, <1>3, <1>4 DEF Arrive, create_baseline

LEMMA StepType ==
    ASSUME TypeOK, NEW r \in Req, Step(r)
    PROVE  TypeOK'
  <1>0. req[r] \in Request
    BY DEF TypeOK
  <1>1. CASE LockDraft(r)
    <2>1. CASE Rollback(r)
      BY <2>1, RollbackType
    <2>2. ASSUME NEW k \in Key, Goes(r, [req[r] EXCEPT !.pc = "tenant", !.key = k])
          PROVE  TypeOK'
      <3>1. [req[r] EXCEPT !.pc = "tenant", !.key = k] \in Request
        BY <1>0, <1>1, <2>2 DEF LockDraft, Request, RequestRecord, Pcs
      <3>2. QED
        BY <2>2, <3>1, GoesType
    <2>3. QED
      BY <1>1, <2>1, <2>2 DEF LockDraft
  <1>2. CASE LockChangeset(r)
    <2>1. CASE Rollback(r)
      BY <2>1, RollbackType
    <2>2. ASSUME NEW n \in 1 .. MaxVersion - 1,
                 <<changeset[req[r].obj].base[1], n>> \in rows,
                 Goes(r, [req[r] EXCEPT !.pc = "tenant",
                              !.key = <<changeset[req[r].obj].base[1], n + 1>>])
          PROVE  TypeOK'
      <3>1. <<changeset[req[r].obj].base[1], n + 1>> \in Key
        BY <2>2 DEF TypeOK, Key
      <3>2. [req[r] EXCEPT !.pc = "tenant",
                 !.key = <<changeset[req[r].obj].base[1], n + 1>>] \in Request
        BY <1>0, <1>2, <3>1 DEF LockChangeset, Request, RequestRecord, Pcs
      <3>3. QED
        BY <2>2, <3>2, GoesType
    <2>3. QED
      BY <1>2, <2>1, <2>2 DEF LockChangeset
  <1>3. CASE ensure_tenant(r)
    <2>1. [req[r] EXCEPT !.pc = "update"] \in Request
      BY <1>0, <1>3 DEF ensure_tenant, Request, RequestRecord, Pcs
    <2>2. QED
      BY <1>3, <2>1, GoesType DEF ensure_tenant, Advance
  <1>4. CASE SnapshotRows(r)
    <2>1. [req[r] EXCEPT !.pc = "rows",
               !.snap = IF req[r].op = "archive_baseline"
                        THEN VersionsOf(req[r].obj) ELSE rows] \in Request
      BY <1>0, <1>4 DEF SnapshotRows, Request, RequestRecord, Pcs, TypeOK, VersionsOf
    <2>2. QED
      BY <1>4, <2>1, GoesType DEF SnapshotRows
  <1>5. CASE UpdateRows(r)
    <2>1. [req[r] EXCEPT !.touched = req[r].snap, !.snap = {},
               !.pc = IF req[r].op = "archive_baseline"
                      THEN "commit" ELSE "write"] \in Request
      BY <1>0, <1>5 DEF UpdateRows, Request, RequestRecord, Pcs
    <2>2. QED
      BY <1>5, <2>1, GoesType DEF UpdateRows
  <1>6. CASE InsertRow(r)
    <2>1. [req[r] EXCEPT !.pc = "save"] \in Request
      BY <1>0, <1>6 DEF InsertRow, Request, RequestRecord, Pcs
    <2>2. QED
      BY <1>6, <2>1, GoesType, RollbackType DEF InsertRow, Advance
  <1>7. CASE ActivateRows(r)
    <2>1. CASE Rollback(r)
      BY <2>1, RollbackType
    <2>2. CASE Advance(r, "commit")
      <3>1. [req[r] EXCEPT !.pc = "commit"] \in Request
        BY <1>0, <1>7 DEF ActivateRows, Request, RequestRecord, Pcs, Publishers
      <3>2. QED
        BY <2>2, <3>1, GoesType DEF Advance
    <2>3. ASSUME NEW k \in VersionsOf(req[r].obj),
                 Goes(r, [req[r] EXCEPT !.pc = "commit", !.key = k,
                                        !.touched = @ \cup {k}])
          PROVE  TypeOK'
      <3>1. k \in Key
        BY <2>3 DEF VersionsOf, TypeOK
      <3>2. [req[r] EXCEPT !.pc = "commit", !.key = k, !.touched = @ \cup {k}]
               \in Request
        BY <1>0, <1>7, <3>1 DEF ActivateRows, Publishers, Request, RequestRecord, Pcs
      <3>3. QED
        BY <2>3, <3>2, GoesType
    <2>4. QED
      BY <1>7, <2>1, <2>2, <2>3 DEF ActivateRows
  <1>8. CASE SaveArtifact(r)
    <2>1. [req[r] EXCEPT !.pc = "commit"] \in Request
      BY <1>0, <1>8 DEF SaveArtifact, Request, RequestRecord, Pcs
    <2>2. CASE Advance(r, "commit") \/ Rollback(r)
      BY <2>1, <2>2, GoesType, RollbackType DEF Advance
    <2>3. CASE /\ artifact' = [artifact EXCEPT ![req[r].key] = Origin(req[r])]
               /\ req' = [req EXCEPT ![r] = [req[r] EXCEPT !.pc = "commit"]]
               /\ UNCHANGED <<draft, baselineTable, changeset, dryRun>>
      <3>2. req' \in [Req -> Request]
        BY <2>1, <2>3 DEF TypeOK
      <3>3. Origin(req[r]) \in Draft \cup Changeset \cup {Upload, None}
        BY <1>0, <1>8 DEF SaveArtifact, Origin, Request, Publishers
      <3>4. QED
        BY <2>3, <3>2, <3>3 DEF TypeOK, baselineTable
    <2>4. QED
      BY <1>8, <2>2, <2>3 DEF SaveArtifact
  <1>9. CASE CommitPublish(r)
    <2>1. /\ req[r].key \in Key
          /\ req[r].op = "commit_draft" => req[r].obj \in Draft
          /\ req[r].op = "merge_changeset" => req[r].obj \in Changeset
      BY <1>0, <1>9 DEF CommitPublish, Request
    <2>2. QED
      BY <1>9, <2>1, KeyFacts DEF CommitPublish, TypeOK, DraftStatus, ChangesetStatus
  <1>10. CASE CommitActivate(r)
    <2>1. req[r].key \in Key \cup {NoKey}
      BY <1>0 DEF Request, RequestRecord
    <2>2. QED
      BY <1>10, <2>1, KeyFacts DEF CommitActivate, TypeOK
  <1>11. CASE CommitArchive(r)
    <2>1. req[r].touched \subseteq Key
      BY <1>0 DEF Request, RequestRecord
    <2>2. QED
      BY <1>11, <2>1, KeyFacts DEF CommitArchive, TypeOK
  <1>12. QED
    BY <1>1, <1>2, <1>3, <1>4, <1>5, <1>6, <1>7, <1>8, <1>9, <1>10, <1>11 DEF Step

(* Every reachable state of the lifecycle is well typed.                   *)
THEOREM TypeCorrect == Spec => []TypeOK
  <1>1. Init => TypeOK
    BY KeyFacts DEF Init, TypeOK, DraftStatus, ChangesetStatus
  <1>2. TypeOK /\ [Next]_vars => TypeOK'
    <2> SUFFICES ASSUME TypeOK, [Next]_vars PROVE TypeOK'
      OBVIOUS
    <2>1. CASE UNCHANGED vars
      BY <2>1 DEF vars, TypeOK
    <2>2. CASE Next
      BY <2>2, ShortType, ArriveType, StepType, RollbackType DEF Next, Fail
    <2>3. QED
      BY <2>1, <2>2
  <1>3. QED
    BY <1>1, <1>2, PTL DEF Spec

-----------------------------------------------------------------------------
(* Steps that change nothing but the record of their own request.          *)

LEMMA CompatibleSym ==
    ASSUME NEW p \in Request, NEW q \in Request, Compatible(p, q)
    PROVE  Compatible(q, p)
  BY DEF Compatible, HoldsObject

LEMMA GoesKeeps ==
    ASSUME IInv, NEW r \in Req, NEW v \in Request, Goes(r, v),
           Consistent(v), \A s \in Others(r) : Compatible(v, req[s])
    PROVE  IInv'
  <1>1. /\ req' = [req EXCEPT ![r] = v]
        /\ UNCHANGED <<draft, rows, active, archived, created, artifact,
                       changeset, dryRun>>
    BY DEF Goes, tables
  <1>2. req'[r] = v /\ \A s \in Others(r) : req'[s] = req[s]
    BY <1>1 DEF IInv, TypeOK, Others
  <1>3. TypeOK'
    BY GoesType DEF IInv
  <1>4. \A s \in Req : Consistent(req[s])'
    <2>1. Consistent(req[r])'
      BY <1>1, <1>2 DEF Consistent, Origin, Numbered, HoldsObject, Activating
    <2>2. ASSUME NEW s \in Others(r) PROVE Consistent(req[s])'
      <3>1. Consistent(req[s])
        BY DEF IInv, Others
      <3>2. QED
        BY <1>1, <1>2, <3>1 DEF Consistent, Origin, Numbered, HoldsObject, Activating
    <2>3. QED
      BY <2>1, <2>2 DEF Others
  <1>5. ASSUME NEW s \in Req, NEW t \in Req, s # t
        PROVE  Compatible(req'[s], req'[t])
    <2>1. req[s] \in Request /\ req[t] \in Request
      BY DEF IInv, TypeOK
    <2>2. CASE s # r /\ t # r
      BY <2>2, <1>2, <1>5 DEF IInv, Others
    <2>3. CASE s = r
      BY <2>3, <1>2, <1>5 DEF Others
    <2>4. CASE t = r
      BY <2>1, <2>4, <1>2, <1>5, CompatibleSym DEF Others
    <2>5. QED
      BY <2>2, <2>3, <2>4
  <1>6. \A s, t \in Req : s # t => Compatible(req[s], req[t])'
    BY <1>5 DEF Compatible, HoldsTenant, Activating, HoldsObject, Numbered
  <1>7. /\ (active \subseteq rows)' /\ OneActive' /\ DraftCompiledOnce'
        /\ ChangesetMergedOnce' /\ VersionsContiguous' /\ PublishedIsStored'
    BY <1>1 DEF IInv, OneActive, DraftCompiledOnce, ChangesetMergedOnce,
                VersionsContiguous, PublishedIsStored
  <1>8. QED
    BY <1>3, <1>4, <1>6, <1>7 DEF IInv

LEMMA RollbackKeeps ==
    ASSUME IInv, NEW r \in Req, Rollback(r)
    PROVE  IInv'
  <1>1. Consistent(NoRequest)
    BY KeyFacts DEF Consistent, HoldsObject, Numbered, Activating, Publishers
  <1>2. \A s \in Others(r) : Compatible(NoRequest, req[s])
    BY KeyFacts DEF Compatible, HoldsTenant, HoldsObject, Numbered, Activating,
                    Publishers
  <1>3. QED
    BY <1>1, <1>2, KeyFacts, GoesKeeps DEF Rollback

(* A new request: it holds nothing, or it chose a key nobody else has.     *)
LEMMA ArriveKeeps ==
    ASSUME IInv, NEW r \in Req, Arrive(r)
    PROVE  IInv'
  <1> DEFINE new(op, obj, pc, key) ==
        [NoRequest EXCEPT !.op = op, !.obj = obj, !.pc = pc, !.key = key]
  <1> USE KeyFacts
  <1>1. ASSUME NEW k \in Key, FreshKey(k),
               Start(r, "create_baseline", None, "tenant", k)
        PROVE  IInv'
    <2> DEFINE v == new("create_baseline", None, "tenant", k)
    <2>1. v \in Request
      BY DEF Request, RequestRecord, Ops, Publishers, Pcs
    <2>2. k[2] = 1 /\ artifact[k] = None /\ \A s \in Req : req[s].key # k
      BY <1>1 DEF FreshKey, Key
    <2>3. Consistent(v)
      BY <2>2 DEF Consistent, HoldsObject, Numbered, Activating, Publishers
    <2>4. \A s \in Others(r) : Compatible(v, req[s])
      BY <2>2 DEF Compatible, HoldsTenant, HoldsObject, Numbered, Activating,
                  Publishers, Others
    <2>5. QED
      BY <1>1, <2>1, <2>3, <2>4, GoesKeeps DEF Start
  <1>2. ASSUME NEW op \in Ops \ {"create_baseline"}, NEW x, NEW pc \in {"lock", "update"},
               op \in Publishers => pc = "lock",
               new(op, x, pc, NoKey) \in Request, Start(r, op, x, pc, NoKey)
        PROVE  IInv'
    <2> DEFINE v == new(op, x, pc, NoKey)
    <2>1. /\ v.op = op /\ v.pc = pc /\ v.key = NoKey
      OBVIOUS
    <2>2. Consistent(v)
      BY <1>2, <2>1 DEF Consistent, HoldsObject, Numbered, Activating, Publishers
    <2>3. \A s \in Others(r) : Compatible(v, req[s])
      BY <1>2, <2>1 DEF Compatible, HoldsTenant, HoldsObject, Numbered, Activating,
                        Publishers
    <2>4. QED
      BY <1>2, <2>2, <2>3, GoesKeeps DEF Start
  <1> USE DEF Request, RequestRecord, Ops, Publishers, Pcs
  <1>3. ASSUME NEW d \in Draft, commit_draft(r, d) PROVE IInv'
    <2>1. new("commit_draft", d, "lock", NoKey) \in Request
      OBVIOUS
    <2>2. QED
      BY <1>2, <1>3, <2>1, ZenonT(30) DEF commit_draft
  <1>4. ASSUME NEW c \in Changeset, merge_changeset(r, c) PROVE IInv'
    <2>1. new("merge_changeset", c, "lock", NoKey) \in Request
      OBVIOUS
    <2>2. QED
      BY <1>2, <1>4, <2>1, ZenonT(30) DEF merge_changeset
  <1>5. ASSUME NEW b \in Baseline, NEW op \in Ops, patch_baseline(r, b, op)
        PROVE  IInv'
    <2>1. new(op, b, "update", NoKey) \in Request
      BY <1>5 DEF patch_baseline
    <2>2. QED
      BY <1>2, <1>5, <2>1, ZenonT(30) DEF patch_baseline
  <1>6. QED
    BY <1>1, <1>3, <1>4, <1>5 DEF Arrive, create_baseline

(* The statements that take a lock.                                        *)
LEMMA LockDraftKeeps ==
    ASSUME IInv, NEW r \in Req, LockDraft(r)
    PROVE  IInv'
  <1>1. CASE Rollback(r)
    BY <1>1, RollbackKeeps
  <1>2. ASSUME draft[req[r].obj] = "ready_to_commit", NEW k \in Key, FreshKey(k),
               Goes(r, [req[r] EXCEPT !.pc = "tenant", !.key = k])
        PROVE  IInv'
    <2> DEFINE q == req[r]
               v == [q EXCEPT !.pc = "tenant", !.key = k]
    <2>1. q \in Request /\ q.op = "commit_draft" /\ q.pc = "lock" /\ Unlocked(q.obj)
      BY DEF LockDraft, IInv, TypeOK
    <2>2. v \in Request
      BY <2>1 DEF Request, RequestRecord, Pcs
    <2>3. k[2] = 1 /\ \A s \in Req : req[s].key # k
      BY <1>2 DEF FreshKey, Key
    <2>4. /\ v.op = q.op /\ v.obj = q.obj /\ v.pc = "tenant" /\ v.key = k
          /\ v.snap = q.snap /\ v.touched = q.touched
      BY <2>1 DEF Request, RequestRecord
    <2>5. Consistent(v)
      BY <1>2, <2>1, <2>3, <2>4 DEF IInv, Consistent, HoldsObject, Numbered, Activating
    <2>6. \A s \in Others(r) : Compatible(v, req[s])
      BY <2>1, <2>3, <2>4 DEF Compatible, HoldsTenant, HoldsObject, Numbered,
                              Activating, Unlocked, Others, Publishers
    <2>7. QED
      BY <1>2, <2>2, <2>5, <2>6, GoesKeeps
  <1>3. QED
    BY <1>1, <1>2 DEF LockDraft

LEMMA LockChangesetKeeps ==
    ASSUME IInv, NEW r \in Req, LockChangeset(r)
    PROVE  IInv'
  <1> DEFINE q == req[r]
             cs == changeset[q.obj]
             b == cs.base[1]
  <1>1. CASE Rollback(r)
    BY <1>1, RollbackKeeps
  <1>2. ASSUME cs.status = "tested", NEW n \in 1 .. MaxVersion - 1,
               <<b, n>> \in rows,
               Goes(r, [q EXCEPT !.pc = "tenant", !.key = <<b, n + 1>>])
        PROVE  IInv'
    <2> DEFINE v == [q EXCEPT !.pc = "tenant", !.key = <<b, n + 1>>]
    <2>1. /\ q \in Request /\ q.op = "merge_changeset" /\ q.pc = "lock"
          /\ Unlocked(q.obj)
      BY DEF LockChangeset, IInv, TypeOK
    <2>2. <<b, n + 1>> \in Key
      <3>1. <<b, n>> \in Key
        BY <1>2 DEF IInv, TypeOK
      <3>2. b \in Baseline /\ n + 1 \in 1 .. MaxVersion
        BY <3>1, <1>2, ConstantsOK DEF Key
      <3>3. QED
        BY <3>2 DEF Key
    <2>3. v \in Request
      BY <2>1, <2>2 DEF Request, RequestRecord, Pcs
    <2>4. /\ v.op = q.op /\ v.obj = q.obj /\ v.pc = "tenant" /\ v.key = <<b, n + 1>>
          /\ v.snap = q.snap /\ v.touched = q.touched
      BY <2>1 DEF Request, RequestRecord
    <2>5. v.key[2] > 1 /\ <<v.key[1], v.key[2] - 1>> \in rows
      <3>1. v.key[1] = b /\ v.key[2] = n + 1 /\ (n + 1) - 1 = n
        BY <2>4
      <3>2. QED
        BY <3>1, <1>2
    <2>6. Consistent(v)
      BY <1>2, <2>1, <2>4, <2>5 DEF IInv, Consistent, HoldsObject, Numbered, Activating
    <2>7. \A s \in Others(r) : Compatible(v, req[s])
      BY <2>1, <2>4 DEF Compatible, HoldsTenant, HoldsObject, Numbered,
                        Activating, Unlocked, Others, Publishers
    <2>8. QED
      BY <1>2, <2>3, <2>6, <2>7, GoesKeeps
  <1>3. QED
    BY <1>1, <1>2 DEF LockChangeset

LEMMA EnsureTenantKeeps ==
    ASSUME IInv, NEW r \in Req, ensure_tenant(r)
    PROVE  IInv'
  <1> DEFINE q == req[r]
             v == [q EXCEPT !.pc = "update"]
  <1>1. q \in Request /\ q.pc = "tenant" /\ Consistent(q)
    BY DEF ensure_tenant, IInv, TypeOK
  <1>2. v \in Request
    BY <1>1 DEF Request, RequestRecord, Pcs
  <1>3. v.op = q.op /\ v.obj = q.obj /\ v.pc = "update" /\ v.key = q.key
    BY <1>1 DEF Request, RequestRecord
  <1>4. Consistent(v)
    BY <1>1, <1>3 DEF Consistent, HoldsObject, Numbered, Activating
  <1>5. \A s \in Others(r) : Compatible(v, req[s])
    <2> SUFFICES ASSUME NEW s \in Others(r) PROVE Compatible(v, req[s])
      OBVIOUS
    <2>1. Compatible(q, req[s]) /\ ~HoldsTenant(req[s])
      BY DEF ensure_tenant, IInv, Others
    <2>2. QED
      BY <1>1, <1>3, <2>1 DEF Compatible, HoldsObject, HoldsTenant, Numbered, Activating
  <1>6. QED
    BY <1>2, <1>4, <1>5, GoesKeeps DEF ensure_tenant, Advance

(* The statements that change and insert baseline versions.                *)
LEMMA SnapshotKeeps ==
    ASSUME IInv, NEW r \in Req, SnapshotRows(r)
    PROVE  IInv'
  <1> DEFINE q == req[r]
             S == IF q.op = "archive_baseline" THEN VersionsOf(q.obj) ELSE rows
             v == [q EXCEPT !.pc = "rows", !.snap = S]
  <1>1. q \in Request /\ q.pc = "update" /\ Consistent(q)
    BY DEF SnapshotRows, IInv, TypeOK
  <1>2. S \subseteq rows /\ rows \subseteq Key
    BY DEF IInv, TypeOK, VersionsOf
  <1>3. v \in Request
    BY <1>1, <1>2 DEF Request, RequestRecord, Pcs
  <1>4. /\ v.op = q.op /\ v.obj = q.obj /\ v.pc = "rows" /\ v.key = q.key
        /\ v.snap = S /\ v.touched = q.touched
    BY <1>1 DEF Request, RequestRecord
  <1>5. Consistent(v)
    BY <1>1, <1>2, <1>4 DEF Consistent, HoldsObject, Numbered, Activating, Publishers
  <1>6. \A s \in Others(r) : Compatible(v, req[s])
    <2> SUFFICES ASSUME NEW s \in Others(r) PROVE Compatible(v, req[s])
      OBVIOUS
    <2>1. Compatible(q, req[s])
      BY DEF IInv, Others
    <2>2. QED
      BY <1>1, <1>4, <2>1 DEF Compatible, HoldsObject, HoldsTenant, Numbered, Activating
  <1>7. QED
    BY <1>3, <1>5, <1>6, GoesKeeps DEF SnapshotRows

LEMMA UpdateKeeps ==
    ASSUME IInv, NEW r \in Req, UpdateRows(r)
    PROVE  IInv'
  <1> DEFINE q == req[r]
             pc == IF q.op = "archive_baseline" THEN "commit" ELSE "write"
             v == [q EXCEPT !.touched = q.snap, !.snap = {}, !.pc = pc]
  <1>1. q \in Request /\ q.pc = "rows" /\ Consistent(q)
    BY DEF UpdateRows, IInv, TypeOK
  <1>2. v \in Request
    BY <1>1 DEF Request, RequestRecord, Pcs
  <1>3. v.op = q.op /\ v.obj = q.obj /\ v.pc = pc /\ v.key = q.key /\ v.touched = q.snap
    BY <1>1 DEF Request, RequestRecord
  <1>4. Consistent(v)
    BY <1>1, <1>3 DEF Consistent, HoldsObject, Numbered, Activating, Publishers
  <1>5. \A s \in Others(r) : Compatible(v, req[s])
    <2> SUFFICES ASSUME NEW s \in Others(r) PROVE Compatible(v, req[s])
      OBVIOUS
    <2>1. Compatible(q, req[s])
      BY DEF IInv, Others
    <2>2. QED
      BY <1>1, <1>3, <2>1 DEF Compatible, HoldsObject, HoldsTenant, Numbered,
                              Activating, Publishers
  <1>6. QED
    BY <1>2, <1>4, <1>5, GoesKeeps DEF UpdateRows

LEMMA InsertKeeps ==
    ASSUME IInv, NEW r \in Req, InsertRow(r)
    PROVE  IInv'
  <1> DEFINE q == req[r]
             v == [q EXCEPT !.pc = "save"]
  <1>1. CASE Rollback(r)
    BY <1>1, RollbackKeeps
  <1>2. CASE q.key \notin rows /\ active \subseteq q.touched /\ Goes(r, v)
    <2>1. /\ q \in Request /\ Consistent(q)
          /\ q.op \in Publishers /\ q.pc = "write" /\ ~IndexBusy(r)
      BY DEF InsertRow, IInv, TypeOK
    <2>2. v \in Request
      BY <2>1 DEF Request, RequestRecord, Pcs
    <2>3. v.op = q.op /\ v.obj = q.obj /\ v.pc = "save" /\ v.key = q.key
          /\ v.touched = q.touched
      BY <2>1 DEF Request, RequestRecord
    <2>4. Consistent(v)
      BY <1>2, <2>1, <2>3 DEF Consistent, HoldsObject, Numbered, Activating, Publishers
    <2>5. \A s \in Others(r) : Compatible(v, req[s])
      <3> SUFFICES ASSUME NEW s \in Others(r) PROVE Compatible(v, req[s])
        OBVIOUS
      <3>1. Compatible(q, req[s]) /\ ~Activating(req[s])
        BY <2>1 DEF IInv, Others, IndexBusy
      <3>2. QED
        BY <2>1, <2>3, <3>1 DEF Compatible, HoldsObject, HoldsTenant, Numbered
    <2>6. QED
      BY <1>2, <2>2, <2>4, <2>5, GoesKeeps
  <1>3. QED
    BY <1>1, <1>2 DEF InsertRow, Advance

LEMMA ActivateKeeps ==
    ASSUME IInv, NEW r \in Req, ActivateRows(r)
    PROVE  IInv'
  <1> DEFINE q == req[r]
             seen == VersionsOf(q.obj)
  <1>1. /\ q \in Request /\ Consistent(q)
        /\ q.op = "activate_baseline" /\ q.pc = "write" /\ ~IndexBusy(r)
    BY DEF ActivateRows, IInv, TypeOK
  <1>2. \A s \in Others(r) : Compatible(q, req[s]) /\ ~Activating(req[s])
    BY <1>1 DEF IInv, Others, IndexBusy
  <1>3. CASE Rollback(r)
    BY <1>3, RollbackKeeps
  <1>4. ASSUME NEW v \in Request, Goes(r, v), v.op = q.op, v.pc = "commit",
               v.snap = q.snap, v.touched \subseteq rows,
               \/ v.key = NoKey
               \/ v.key \in rows /\ active \subseteq v.touched
        PROVE  IInv'
    <2>1. Consistent(v)
      BY <1>1, <1>4 DEF Consistent, HoldsObject, Numbered, Activating, Publishers
    <2>2. \A s \in Others(r) : Compatible(v, req[s])
      BY <1>1, <1>2, <1>4 DEF Compatible, HoldsObject, HoldsTenant, Numbered,
                              Publishers
    <2>3. QED
      BY <1>4, <2>1, <2>2, GoesKeeps
  <1>5. CASE Advance(r, "commit")
    <2> DEFINE v == [q EXCEPT !.pc = "commit"]
    <2>1. v \in Request
      BY <1>1 DEF Request, RequestRecord, Pcs, Publishers
    <2>2. /\ v.op = q.op /\ v.pc = "commit" /\ v.key = q.key
          /\ v.snap = q.snap /\ v.touched = q.touched
      BY <1>1 DEF Request, RequestRecord
    <2>3. q.key = NoKey /\ q.touched \subseteq rows
      BY <1>1 DEF Consistent
    <2>4. QED
      BY <1>4, <1>5, <2>1, <2>2, <2>3 DEF Advance
  <1>6. ASSUME NEW k \in seen, active \subseteq q.touched \cup {k},
               Goes(r, [q EXCEPT !.pc = "commit", !.key = k, !.touched = @ \cup {k}])
        PROVE  IInv'
    <2> DEFINE v == [q EXCEPT !.pc = "commit", !.key = k, !.touched = @ \cup {k}]
    <2>1. k \in Key /\ k \in rows
      BY <1>6 DEF VersionsOf, IInv, TypeOK
    <2>2. v \in Request
      BY <1>1, <2>1 DEF Request, RequestRecord, Pcs, Publishers
    <2>3. /\ v.op = q.op /\ v.pc = "commit" /\ v.key = k
          /\ v.snap = q.snap /\ v.touched = q.touched \cup {k}
          /\ q.touched \subseteq rows
      BY <1>1 DEF Request, RequestRecord, Consistent
    <2>4. QED
      BY <1>4, <1>6, <2>1, <2>2, <2>3
  <1>7. QED
    BY <1>3, <1>5, <1>6 DEF ActivateRows

(* The save writes under a key that is nobody's row and nobody else's.     *)
LEMMA SaveKeeps ==
    ASSUME IInv, NEW r \in Req, SaveArtifact(r)
    PROVE  IInv'
  <1> DEFINE q == req[r]
             v == [q EXCEPT !.pc = "commit"]
  <1>1. /\ q \in Request /\ Consistent(q) /\ q.pc = "save" /\ q.op \in Publishers
        /\ q.key \in Key
    BY DEF SaveArtifact, IInv, TypeOK, Request
  <1>2. v \in Request
    BY <1>1 DEF Request, RequestRecord, Pcs
  <1>3. /\ v.op = q.op /\ v.obj = q.obj /\ v.pc = "commit" /\ v.key = q.key
        /\ v.snap = q.snap /\ v.touched = q.touched
    BY <1>1 DEF Request, RequestRecord
  <1>4. ASSUME NEW s \in Others(r) PROVE Compatible(v, req[s])
    <2>1. Compatible(q, req[s])
      BY DEF IInv, Others
    <2>2. QED
      BY <1>1, <1>3, <2>1 DEF Compatible, HoldsObject, HoldsTenant, Numbered, Activating
  <1>5. CASE Rollback(r)
    BY <1>5, RollbackKeeps
  <1>6. CASE q.op = "create_baseline" /\ StoreFaults /\ Goes(r, v)
    <2>1. Consistent(v)
      BY <1>1, <1>3, <1>6 DEF Consistent, HoldsObject, Numbered, Activating, Publishers
    <2>2. QED
      BY <1>2, <1>4, <1>6, <2>1, GoesKeeps
  <1>7. CASE /\ artifact' = [artifact EXCEPT ![q.key] = Origin(q)]
             /\ req' = [req EXCEPT ![r] = v]
             /\ UNCHANGED <<draft, rows, active, archived, created, changeset, dryRun>>
    <2>1. TypeOK'
      BY StepType DEF IInv, Step
    <2>2. /\ artifact'[q.key] = Origin(q)
          /\ \A k \in Key \ {q.key} : artifact'[k] = artifact[k]
          /\ req'[r] = v
          /\ \A s \in Others(r) : req'[s] = req[s]
      BY <1>1, <1>7 DEF IInv, TypeOK, Others
    <2>3. q.key \notin rows /\ rows \subseteq Key
      BY <1>1 DEF Consistent, IInv, TypeOK
    <2>4. \A k \in rows : artifact'[k] = artifact[k]
      BY <2>2, <2>3
    <2>5. \A s \in Req : Consistent(req[s])'
      <3>1. Consistent(req[r])'
        <4>1. /\ q.op # "activate_baseline" /\ Activating(q) /\ Numbered(q)
              /\ HoldsObject(v, v.obj) <=> HoldsObject(q, q.obj)
              /\ Origin(v) = Origin(q)
          BY <1>1, <1>3 DEF HoldsObject, Numbered, Activating, Publishers, Origin
        <4>2. UNCHANGED <<draft, changeset, rows, active>>
          BY <1>7
        <4>3. /\ v.snap \cup v.touched \subseteq rows'
              /\ HoldsObject(v, v.obj) =>
                   IF v.op = "commit_draft" THEN draft'[v.obj] = "ready_to_commit"
                                            ELSE changeset'[v.obj].status = "tested"
              /\ IF v.op = "merge_changeset"
                 THEN v.key[2] > 1 /\ <<v.key[1], v.key[2] - 1>> \in rows'
                 ELSE v.key[2] = 1
              /\ rows' \subseteq v.touched /\ v.key \notin rows'
              /\ artifact'[v.key] = Origin(v)
              /\ active' \subseteq v.touched
          BY <1>1, <1>3, <2>2, <4>1, <4>2 DEF Consistent
        <4>4. QED
          BY <1>3, <2>2, <4>1, <4>3 DEF Consistent, HoldsObject, Numbered, Activating,
                                        Origin
      <3>2. ASSUME NEW s \in Others(r) PROVE Consistent(req[s])'
        <4> DEFINE t == req[s]
        <4>1. t \in Request /\ Consistent(t) /\ Compatible(q, t)
          BY DEF IInv, TypeOK, Others
        <4>2. Numbered(t) => t.key \in Key
          BY <4>1 DEF Request, Numbered
        <4>3. t.op \in Publishers => t.pc # "commit"
          BY <1>1, <4>1 DEF Compatible, HoldsTenant
        <4>4. t.op = "create_baseline" /\ Numbered(t) => t.key # q.key
          <5>1. CASE q.op = "merge_changeset"
            BY <1>1, <4>1, <5>1 DEF Consistent, Numbered
          <5>2. CASE q.op # "merge_changeset"
            BY <1>1, <4>1, <5>2 DEF Compatible, Numbered
          <5>3. QED
            BY <5>1, <5>2
        <4>5. t.op = "create_baseline" /\ Numbered(t) => artifact'[t.key] = artifact[t.key]
          BY <2>2, <4>2, <4>4
        <4>6. req'[s] = t
          BY <2>2
        <4>7. UNCHANGED <<draft, changeset, rows, active>>
          BY <1>7
        <4>8. QED
          BY <4>1, <4>3, <4>5, <4>6, <4>7
             DEF Consistent, HoldsObject, Numbered, Activating
      <3>3. QED
        BY <3>1, <3>2 DEF Others
    <2>6. \A s, t \in Req : s # t => Compatible(req[s], req[t])'
      <3>1. ASSUME NEW s \in Req, NEW t \in Req, s # t PROVE Compatible(req'[s], req'[t])
        <4>1. req[s] \in Request /\ req[t] \in Request
          BY DEF IInv, TypeOK
        <4>2. CASE s # r /\ t # r
          BY <2>2, <3>1, <4>2 DEF IInv, Others
        <4>3. CASE s = r
          BY <2>2, <3>1, <4>3, <1>4 DEF Others
        <4>4. CASE t = r
          BY <2>2, <3>1, <4>4, <1>2, <1>4, <4>1, CompatibleSym DEF Others
        <4>5. QED
          BY <4>2, <4>3, <4>4
      <3>2. QED
        BY <3>1 DEF Compatible, HoldsTenant, Activating, HoldsObject, Numbered
    <2>7. /\ (active \subseteq rows)' /\ OneActive' /\ VersionsContiguous'
      BY <1>7 DEF IInv, OneActive, VersionsContiguous
    <2>8. DraftCompiledOnce' /\ ChangesetMergedOnce' /\ PublishedIsStored'
      BY <1>7, <2>4 DEF IInv, DraftCompiledOnce, ChangesetMergedOnce, PublishedIsStored
    <2>9. QED
      BY <2>1, <2>5, <2>6, <2>7, <2>8 DEF IInv
  <1>8. QED
    BY <1>5, <1>6, <1>7 DEF SaveArtifact, Advance, baselineTable

(* The commits.  A request that ends takes its locks and claims with it.   *)
LEMMA EndedCompatible ==
    ASSUME IInv, NEW r \in Req, req' = [req EXCEPT ![r] = NoRequest]
    PROVE  /\ req'[r] = NoRequest
           /\ \A s \in Others(r) : req'[s] = req[s]
           /\ Consistent(req[r])'
           /\ \A s, t \in Req : s # t => Compatible(req[s], req[t])'
  <1>1. /\ req'[r] = NoRequest
        /\ \A s \in Others(r) : req'[s] = req[s]
    BY DEF IInv, TypeOK, Others
  <1>2. Consistent(req[r])'
    BY <1>1, KeyFacts DEF Consistent, HoldsObject, Numbered, Activating, Publishers
  <1>3. ASSUME NEW s \in Req, NEW t \in Req, s # t PROVE Compatible(req'[s], req'[t])
    <2>1. CASE s # r /\ t # r
      BY <1>1, <1>3, <2>1 DEF IInv, Others
    <2>2. CASE s = r \/ t = r
      BY <1>1, <1>3, <2>2, KeyFacts DEF Others, Compatible, HoldsTenant, HoldsObject,
                                        Numbered, Activating, Publishers
    <2>3. QED
      BY <2>1, <2>2
  <1>4. \A s, t \in Req : s # t => Compatible(req[s], req[t])'
    BY <1>3 DEF Compatible, HoldsTenant, Activating, HoldsObject, Numbered
  <1>5. QED
    BY <1>1, <1>2, <1>4

LEMMA PublishKeeps ==
    ASSUME IInv, NEW r \in Req, CommitPublish(r)
    PROVE  IInv'
  <1> DEFINE q == req[r]
  <1>1. /\ q \in Request /\ Consistent(q) /\ q.op \in Publishers /\ q.pc = "commit"
        /\ q.key \in Key /\ HoldsTenant(q) /\ Activating(q) /\ Numbered(q)
    BY DEF CommitPublish, IInv, TypeOK, Request, HoldsTenant, Activating, Numbered
  <1>2. /\ rows' = rows \cup {q.key}
        /\ UNCHANGED artifact
        /\ created \subseteq created'
        /\ q.op = "create_baseline" => q.key \in created'
        /\ req' = [req EXCEPT ![r] = NoRequest]
    BY DEF CommitPublish
  <1>3. active' = {q.key}
    BY <1>1 DEF CommitPublish, Consistent
  <1>4. q.key \notin rows
    BY <1>1 DEF Consistent
  <1>5. /\ q.op = "commit_draft" =>
             /\ q.obj \in Draft /\ draft[q.obj] = "ready_to_commit"
             /\ draft' = [draft EXCEPT ![q.obj] = "committed"]
             /\ UNCHANGED changeset
        /\ q.op = "merge_changeset" =>
             /\ q.obj \in Changeset /\ changeset[q.obj].status = "tested"
             /\ changeset' = [changeset EXCEPT ![q.obj].status = "merged"]
             /\ UNCHANGED draft
        /\ q.op = "create_baseline" => UNCHANGED <<draft, changeset>>
    BY <1>1 DEF CommitPublish, Consistent, HoldsObject, Request
  <1>6. TypeOK'
    BY StepType DEF IInv, Step
  <1>7. /\ draft \in [Draft -> DraftStatus]
        /\ changeset \in [Changeset -> [status : ChangesetStatus, base : Key \cup {NoKey}]]
    BY DEF IInv, TypeOK
  <1>8. /\ q.op = "commit_draft" =>
             /\ draft'[q.obj] = "committed"
             /\ \A d \in Draft \ {q.obj} : draft'[d] = draft[d]
        /\ q.op = "merge_changeset" =>
             /\ changeset'[q.obj].status = "merged"
             /\ \A c \in Changeset \ {q.obj} : changeset'[c] = changeset[c]
    BY <1>5, <1>7
  <1>9. /\ artifact[q.key] \in Draft => q.op = "commit_draft" /\ artifact[q.key] = q.obj
        /\ artifact[q.key] \in Changeset =>
             q.op = "merge_changeset" /\ artifact[q.key] = q.obj
        /\ artifact[q.key] = None => q.op = "create_baseline" /\ StoreFaults
    BY <1>1, <1>5, ConstantsOK DEF Consistent, Origin, Publishers
  <1>10. \A s \in Req : Consistent(req[s])'
    <2> SUFFICES ASSUME NEW s \in Others(r) PROVE Consistent(req[s])'
      BY <1>2, EndedCompatible DEF Others
    <2> DEFINE t == req[s]
    <2>1. /\ t \in Request /\ Consistent(t) /\ Compatible(q, t) /\ req'[s] = t
      BY <1>2, EndedCompatible DEF IInv, TypeOK, Others
    <2>2. ~HoldsTenant(t) /\ ~Activating(t)
      BY <1>1, <2>1 DEF Compatible
    <2>3. HoldsObject(t, t.obj) =>
            IF t.op = "commit_draft" THEN draft'[t.obj] = "ready_to_commit"
                                     ELSE changeset'[t.obj].status = "tested"
      <3> SUFFICES ASSUME HoldsObject(t, t.obj)
                   PROVE  IF t.op = "commit_draft"
                          THEN draft'[t.obj] = "ready_to_commit"
                          ELSE changeset'[t.obj].status = "tested"
        OBVIOUS
      <3>1. q.op \in {"commit_draft", "merge_changeset"} => t.obj # q.obj
        BY <1>1, <2>1 DEF Compatible, HoldsObject
      <3>2. /\ t.op = "commit_draft" =>
                 t.obj \in Draft /\ draft[t.obj] = "ready_to_commit"
            /\ t.op # "commit_draft" =>
                 t.obj \in Changeset /\ changeset[t.obj].status = "tested"
        BY <2>1 DEF Consistent, HoldsObject, Request
      <3>3. QED
        BY <1>1, <1>5, <1>8, <3>1, <3>2 DEF Publishers
    <2>4. rows \subseteq rows'
      BY <1>2
    <2>5. QED
      BY <1>2, <2>1, <2>2, <2>3, <2>4
         DEF Consistent, HoldsObject, HoldsTenant, Numbered, Activating
  <1>11. (active \subseteq rows)' /\ OneActive'
    BY <1>2, <1>3 DEF OneActive
  <1>12. DraftCompiledOnce'
    <2>1. DraftCompiledOnce
      BY DEF IInv
    <2>2. ASSUME NEW k \in rows, artifact[k] \in Draft
          PROVE  draft'[artifact[k]] = "committed" /\ artifact[q.key] # artifact[k]
      BY <1>1, <1>5, <1>8, <1>9, <2>1, <2>2 DEF DraftCompiledOnce, Publishers
    <2>3. QED
      BY <1>2, <1>8, <1>9, <2>1, <2>2 DEF DraftCompiledOnce
  <1>13. ChangesetMergedOnce'
    <2>1. ChangesetMergedOnce
      BY DEF IInv
    <2>2. ASSUME NEW k \in rows, artifact[k] \in Changeset
          PROVE  changeset'[artifact[k]].status = "merged" /\ artifact[q.key] # artifact[k]
      BY <1>1, <1>5, <1>8, <1>9, <2>1, <2>2 DEF ChangesetMergedOnce, Publishers
    <2>3. QED
      BY <1>2, <1>8, <1>9, <2>1, <2>2 DEF ChangesetMergedOnce
  <1>14. VersionsContiguous'
    <2>1. VersionsContiguous /\ rows \subseteq Key
      BY DEF IInv, TypeOK
    <2>2. q.key = <<q.key[1], q.key[2]>> /\ q.key[2] \in Nat
      BY <1>1, ConstantsOK DEF Key
    <2>3. ASSUME NEW v \in 1 .. q.key[2] PROVE <<q.key[1], v>> \in rows'
      <3>1. CASE v = q.key[2]
        BY <1>2, <2>2, <3>1
      <3>2. CASE v # q.key[2]
        <4>1. q.key[2] > 1 /\ <<q.key[1], q.key[2] - 1>> \in rows
          BY <1>1, <2>2, <2>3, <3>2 DEF Consistent
        <4>2. v \in 1 .. (q.key[2] - 1)
          BY <2>2, <2>3, <3>2
        <4>3. <<q.key[1], v>> \in rows
          BY <2>1, <4>1, <4>2 DEF VersionsContiguous
        <4>4. QED
          BY <1>2, <4>3
      <3>3. QED
        BY <3>1, <3>2
    <2>4. QED
      BY <1>2, <2>1, <2>3 DEF VersionsContiguous
  <1>15. PublishedIsStored'
    BY <1>2, <1>9 DEF IInv, PublishedIsStored
  <1>16. \A s, t \in Req : s # t => Compatible(req[s], req[t])'
    BY <1>2, EndedCompatible
  <1>17. QED
    BY <1>6, <1>10, <1>11, <1>12, <1>13, <1>14, <1>15, <1>16 DEF IInv

LEMMA RetireKeeps ==
    ASSUME IInv, NEW r \in Req, CommitActivate(r) \/ CommitArchive(r)
    PROVE  IInv'
  <1> DEFINE q == req[r]
  <1>1. q \in Request /\ Consistent(q)
    BY DEF IInv, TypeOK
  <1>2. /\ req' = [req EXCEPT ![r] = NoRequest]
        /\ UNCHANGED <<draft, rows, created, artifact, changeset>>
    BY DEF CommitActivate, CommitArchive
  <1>3. \/ active' \subseteq active
        \/ Activating(q) /\ q.key \in rows /\ active' = {q.key}
    <2>1. CASE CommitArchive(r)
      BY <2>1 DEF CommitArchive
    <2>2. CASE CommitActivate(r) /\ q.key = NoKey
      BY <2>2 DEF CommitActivate
    <2>3. CASE CommitActivate(r) /\ q.key # NoKey
      BY <1>1, <2>3 DEF CommitActivate, Consistent, Activating
    <2>4. QED
      BY <2>1, <2>2, <2>3
  <1>4. TypeOK'
    BY StepType DEF IInv, Step
  <1>5. \A s \in Req : Consistent(req[s])'
    <2> SUFFICES ASSUME NEW s \in Others(r) PROVE Consistent(req[s])'
      BY <1>2, EndedCompatible DEF Others
    <2> DEFINE t == req[s]
    <2>1. /\ t \in Request /\ Consistent(t) /\ Compatible(q, t) /\ req'[s] = t
      BY <1>2, EndedCompatible DEF IInv, TypeOK, Others
    <2>2. Activating(t) => active' \subseteq t.touched
      BY <1>3, <2>1 DEF Compatible, Consistent
    <2>3. QED
      BY <1>2, <2>1, <2>2 DEF Consistent, HoldsObject, Numbered, Activating, Origin
  <1>6. (active \subseteq rows)' /\ OneActive'
    BY <1>2, <1>3 DEF IInv, OneActive
  <1>7. DraftCompiledOnce' /\ ChangesetMergedOnce' /\ VersionsContiguous' /\ PublishedIsStored'
    BY <1>2 DEF IInv, DraftCompiledOnce, ChangesetMergedOnce, VersionsContiguous,
                PublishedIsStored
  <1>8. QED
    BY <1>2, <1>4, <1>5, <1>6, <1>7, EndedCompatible DEF IInv

(* The handlers of one action change no locked draft or changeset.         *)
LEMMA ShortKeeps ==
    ASSUME IInv, Short
    PROVE  IInv'
  <1>1. TypeOK'
    BY ShortType DEF IInv
  <1>2. UNCHANGED <<rows, active, archived, created, artifact, req>>
    BY DEF Short, create_draft, patch_draft, delete_draft, create_changeset,
           test_changeset, OperatorMarksTested, baselineTable
  <1>3. ASSUME NEW d \in Draft, draft'[d] # draft[d]
        PROVE  draft[d] # "committed" /\ (Unlocked(d) \/ draft[d] = "none")
    <2>1. CASE \E e \in Draft : create_draft(e)
      BY <1>3, <2>1 DEF create_draft, IInv, TypeOK
    <2>2. CASE \E e \in Draft, z \in DraftStatus : patch_draft(e, z)
      BY <1>3, <2>2 DEF patch_draft, IInv, TypeOK
    <2>3. CASE \E e \in Draft : delete_draft(e)
      BY <1>3, <2>3 DEF delete_draft, IInv, TypeOK
    <2>4. QED
      BY <1>3, <2>1, <2>2, <2>3 DEF Short, create_changeset, test_changeset,
                                    OperatorMarksTested
  <1>4. ASSUME NEW c \in Changeset, changeset'[c] # changeset[c]
        PROVE  changeset[c].status \notin {"tested", "merged"}
    <2>1. CASE \E e \in Changeset, k \in Key : create_changeset(e, k)
      BY <1>4, <2>1 DEF create_changeset, IInv, TypeOK
    <2>2. CASE \E e \in Changeset : OperatorMarksTested(e)
      BY <1>4, <2>2 DEF OperatorMarksTested, IInv, TypeOK
    <2>3. QED
      BY <1>4, <2>1, <2>2 DEF Short, create_draft, patch_draft, delete_draft,
                              test_changeset
  <1>5. \A s \in Req : Consistent(req[s])'
    <2> SUFFICES ASSUME NEW s \in Req PROVE Consistent(req[s])'
      OBVIOUS
    <2> DEFINE t == req[s]
    <2>1. t \in Request /\ Consistent(t)
      BY DEF IInv, TypeOK
    <2>2. HoldsObject(t, t.obj) =>
            IF t.op = "commit_draft" THEN draft'[t.obj] = "ready_to_commit"
                                     ELSE changeset'[t.obj].status = "tested"
      <3>1. CASE HoldsObject(t, t.obj) /\ t.op = "commit_draft"
        <4>1. t.obj \in Draft /\ draft[t.obj] = "ready_to_commit" /\ ~Unlocked(t.obj)
          BY <2>1, <3>1 DEF Request, Consistent, Unlocked
        <4>2. QED
          BY <1>3, <3>1, <4>1
      <3>2. CASE HoldsObject(t, t.obj) /\ t.op # "commit_draft"
        <4>1. t.obj \in Changeset /\ changeset[t.obj].status = "tested"
          BY <2>1, <3>2 DEF Request, Consistent, HoldsObject
        <4>2. QED
          BY <1>4, <3>2, <4>1
      <3>3. QED
        BY <3>1, <3>2
    <2>3. QED
      BY <1>2, <2>1, <2>2 DEF Consistent, HoldsObject, Numbered, Activating, Origin
  <1>6. \A s, t \in Req : s # t => Compatible(req[s], req[t])'
    BY <1>2 DEF IInv, Compatible, HoldsTenant, Activating, HoldsObject, Numbered
  <1>7. DraftCompiledOnce'
    BY <1>2, <1>3 DEF IInv, DraftCompiledOnce
  <1>8. ChangesetMergedOnce'
    BY <1>2, <1>4 DEF IInv, ChangesetMergedOnce
  <1>9. (active \subseteq rows)' /\ OneActive' /\ VersionsContiguous' /\ PublishedIsStored'
    BY <1>2 DEF IInv, OneActive, VersionsContiguous, PublishedIsStored
  <1>10. QED
    BY <1>1, <1>5, <1>6, <1>7, <1>8, <1>9 DEF IInv
-----------------------------------------------------------------------------
LEMMA InitEstablishes == Init => IInv
  <1> SUFFICES ASSUME Init PROVE IInv
    OBVIOUS
  <1>1. TypeOK
    BY KeyFacts DEF Init, TypeOK, DraftStatus, ChangesetStatus
  <1>2. \A r \in Req : Consistent(req[r])
    BY KeyFacts DEF Init, Consistent, HoldsObject, Numbered, Activating, Publishers
  <1>3. \A r, s \in Req : Compatible(req[r], req[s])
    BY KeyFacts DEF Init, Compatible, HoldsTenant, HoldsObject, Numbered, Activating,
                    Publishers
  <1>4. /\ active \subseteq rows /\ OneActive /\ DraftCompiledOnce
        /\ ChangesetMergedOnce /\ VersionsContiguous /\ PublishedIsStored
    BY DEF Init, OneActive, DraftCompiledOnce, ChangesetMergedOnce, VersionsContiguous,
           PublishedIsStored
  <1>5. QED
    BY <1>1, <1>2, <1>3, <1>4 DEF IInv

LEMMA NextKeeps == IInv /\ [Next]_vars => IInv'
  <1> SUFFICES ASSUME IInv, [Next]_vars PROVE IInv'
    OBVIOUS
  <1>1. CASE UNCHANGED vars
    BY <1>1 DEF vars, IInv, TypeOK, Consistent, Compatible, HoldsTenant, HoldsObject,
                Numbered, Activating, Origin, OneActive, DraftCompiledOnce,
                ChangesetMergedOnce, VersionsContiguous, PublishedIsStored
  <1>2. CASE Short
    BY <1>2, ShortKeeps
  <1>3. ASSUME NEW r \in Req, Arrive(r) \/ Step(r) \/ Fail(r) PROVE IInv'
    BY <1>3, ArriveKeeps, LockDraftKeeps, LockChangesetKeeps, EnsureTenantKeeps,
       SnapshotKeeps, UpdateKeeps, InsertKeeps, ActivateKeeps, SaveKeeps,
       PublishKeeps, RetireKeeps, RollbackKeeps DEF Step, Fail
  <1>4. QED
    BY <1>1, <1>2, <1>3 DEF Next

(* Every reachable state satisfies the inductive invariant: each lock and  *)
(* each number a request in flight relies on is still good.                *)
THEOREM Inductive == Spec => []IInv
  BY InitEstablishes, NextKeeps, PTL DEF Spec

(* A tenant never has two active baselines, for any number of concurrent   *)
(* creates, commits, merges and restores.                                  *)
THEOREM AtMostOneActive == Spec => []OneActive
  <1>1. IInv => OneActive
    BY DEF IInv
  <1>2. QED
    BY <1>1, Inductive, PTL

(* A draft becomes one baseline at most, and is committed when it has one. *)
THEOREM DraftsCompileOnce == Spec => []DraftCompiledOnce
  <1>1. IInv => DraftCompiledOnce
    BY DEF IInv
  <1>2. QED
    BY <1>1, Inductive, PTL

(* A changeset is merged into one version at most.                         *)
THEOREM ChangesetsMergeOnce == Spec => []ChangesetMergedOnce
  <1>1. IInv => ChangesetMergedOnce
    BY DEF IInv
  <1>2. QED
    BY <1>1, Inductive, PTL

(* The versions of a baseline have no gap.                                 *)
THEOREM VersionsSound == Spec => []VersionsContiguous
  <1>1. IInv => VersionsContiguous
    BY DEF IInv
  <1>2. QED
    BY <1>1, Inductive, PTL

(* Every version that a commit or a merge publishes has its artifact: a    *)
(* save that raises takes its transaction with it, and what the store      *)
(* keeps of a save no later request takes away.  Only a version that       *)
(* create_baseline published may be without, and only if its save raised.  *)
THEOREM VersionsStored == Spec => []PublishedIsStored
  <1>1. IInv => PublishedIsStored
    BY DEF IInv
  <1>2. QED
    BY <1>1, Inductive, PTL

(* A publisher has deactivated every active row when it inserts its own,   *)
(* because what it updated is every row and no row was added since.        *)
THEOREM PublishersClashFree == Spec => []PublishersNeverClash
  <1>1. IInv => PublishersNeverClash
    BY DEF IInv, Consistent, PublishersNeverClash
  <1>2. QED
    BY <1>1, Inductive, PTL

(* Nothing overwrites the artifact of a version that is published.         *)
THEOREM ArtifactsNeverChange == Spec => ArtifactsImmutable
  <1>1. IInv /\ [Next]_vars => [\A k \in rows : artifact'[k] = artifact[k]]_vars
    <2> SUFFICES ASSUME IInv, Next PROVE \A k \in rows : artifact'[k] = artifact[k]
      OBVIOUS
    <2>1. CASE UNCHANGED artifact
      BY <2>1
    <2>2. ASSUME NEW r \in Req,
                 artifact' = [artifact EXCEPT ![req[r].key] = Origin(req[r])],
                 SaveArtifact(r)
          PROVE  \A k \in rows : artifact'[k] = artifact[k]
      <3>1. req[r].key \notin rows /\ rows \subseteq Key
        BY <2>2 DEF IInv, TypeOK, Consistent, SaveArtifact, Request
      <3>2. QED
        BY <2>2, <3>1 DEF IInv, TypeOK
    <2>3. ASSUME NEW r \in Req, Arrive(r) \/ Step(r) \/ Fail(r)
          PROVE  \A k \in rows : artifact'[k] = artifact[k]
      <3>1. CASE SaveArtifact(r)
        BY <2>1, <2>2, <3>1 DEF SaveArtifact, Advance, Rollback, Goes, tables
      <3>2. CASE ~SaveArtifact(r)
        <4>1. UNCHANGED artifact
          BY <2>3, <3>2 DEF Arrive, Step, Fail, Start, Rollback, Advance, Goes, tables,
             create_baseline, commit_draft, merge_changeset, patch_baseline, LockDraft,
             LockChangeset, ensure_tenant, SnapshotRows, UpdateRows, InsertRow,
             ActivateRows, CommitPublish, CommitActivate, CommitArchive
        <4>2. QED
          BY <2>1, <4>1
      <3>3. QED
        BY <3>1, <3>2
    <2>4. CASE Short
      BY <2>1, <2>4 DEF Short, create_draft, patch_draft, delete_draft, create_changeset,
         test_changeset, OperatorMarksTested
    <2>5. QED
      BY <2>3, <2>4 DEF Next
  <1>2. QED
    BY <1>1, Inductive, PTL DEF Spec, ArtifactsImmutable

(* A committed or abandoned draft stays so.                                *)
THEOREM DraftsStayTerminal == Spec => TerminalDrafts
  <1> DEFINE Stays == \A d \in Draft :
        draft[d] \in {"committed", "abandoned"} => draft'[d] = draft[d]
  <1>1. IInv /\ [Next]_vars => [Stays]_vars
    <2> SUFFICES ASSUME IInv, Next PROVE Stays
      OBVIOUS
    <2>1. CASE UNCHANGED draft
      BY <2>1
    <2>2. CASE Short
      BY <2>2 DEF Short, create_draft, patch_draft, delete_draft, create_changeset,
         test_changeset, OperatorMarksTested, IInv, TypeOK
    <2>3. ASSUME NEW r \in Req, CommitPublish(r) PROVE Stays
      <3>1. CASE req[r].op = "commit_draft"
        <4>1. draft[req[r].obj] = "ready_to_commit"
          BY <2>3, <3>1 DEF CommitPublish, IInv, Consistent, HoldsObject
        <4>2. QED
          BY <2>3, <3>1, <4>1 DEF CommitPublish, IInv, TypeOK
      <3>2. QED
        BY <2>1, <2>3, <3>1 DEF CommitPublish
    <2>4. ASSUME NEW r \in Req, Arrive(r) \/ Step(r) \/ Fail(r), ~CommitPublish(r)
          PROVE  UNCHANGED draft
      BY <2>4 DEF Arrive, Step, Fail, Start, Rollback, Advance, Goes, tables,
         create_baseline, commit_draft, merge_changeset, patch_baseline, LockDraft,
         LockChangeset, ensure_tenant, SnapshotRows, UpdateRows, InsertRow,
         ActivateRows, SaveArtifact, CommitActivate, CommitArchive
    <2>5. QED
      BY <2>1, <2>2, <2>3, <2>4 DEF Next
  <1>2. QED
    BY <1>1, Inductive, PTL DEF Spec, TerminalDrafts

-----------------------------------------------------------------------------
(* Refinement: each commit of a handler is one step of the registry.       *)

LEMMA PublishMaps ==
    ASSUME IInv, NEW r \in Req, CommitPublish(r)
    PROVE  Registry!Next
  <1>1. req[r].key \in Key /\ Consistent(req[r])
    BY DEF CommitPublish, IInv, TypeOK, Request
  <1>2. req[r].key \notin rows /\ active \subseteq req[r].touched
    BY <1>1 DEF CommitPublish, Consistent, Activating
  <1>3. Registry!Publish(req[r].key)
    BY <1>2 DEF CommitPublish, Registry!Publish
  <1>4. QED
    BY <1>1, <1>3 DEF Registry!Next

LEMMA ActivateMaps ==
    ASSUME IInv, NEW r \in Req, CommitActivate(r)
    PROVE  Registry!Next \/ UNCHANGED <<rows, active, archived>>
  <1> DEFINE q == req[r]
  <1>1. /\ q.op = "activate_baseline" /\ q.pc = "commit" /\ Consistent(q)
        /\ UNCHANGED rows
        /\ rows \subseteq Key /\ archived \subseteq Key /\ OneActive
    BY DEF CommitActivate, IInv, TypeOK
  <1>2. CASE q.key = NoKey
    <2>1. active' = active \ q.touched /\ UNCHANGED archived
      BY <1>1, <1>2, KeyFacts DEF CommitActivate
    <2>2. active' = {} \/ active' = active
      BY <1>1, <2>1 DEF OneActive
    <2>3. QED
      BY <1>1, <2>1, <2>2 DEF Registry!Next, Registry!RestoreNothing
  <1>3. CASE q.key # NoKey
    <2>1. q.key \in rows /\ active \subseteq q.touched
      BY <1>1, <1>3 DEF Consistent, Activating
    <2>2. Registry!Restore(q.key)
      BY <1>1, <1>3, <2>1 DEF CommitActivate, Registry!Restore
    <2>3. QED
      BY <1>1, <2>1, <2>2 DEF Registry!Next
  <1>4. QED
    BY <1>2, <1>3

LEMMA ArchiveMaps ==
    ASSUME IInv, NEW r \in Req, CommitArchive(r)
    PROVE  Registry!Next
  <1>1. req[r].touched \subseteq rows /\ rows \subseteq Key
    BY DEF IInv, TypeOK, Consistent
  <1>2. Registry!Archive(req[r].touched)
    BY <1>1 DEF CommitArchive, Registry!Archive
  <1>3. QED
    BY <1>1, <1>2 DEF Registry!Next

(* The handlers, interleaved in any way, implement BaselineRegistry.       *)
THEOREM Refinement == Spec => ImplementsRegistry
  <1>1. Init => Registry!Init
    BY DEF Init, Registry!Init
  <1>2. IInv /\ [Next]_vars => [Registry!Next]_(Registry!vars)
    <2> SUFFICES ASSUME IInv, [Next]_vars
                 PROVE  Registry!Next \/ UNCHANGED <<rows, active, archived>>
      BY DEF Registry!vars
    <2>1. CASE UNCHANGED vars
      BY <2>1 DEF vars
    <2>2. CASE Short
      BY <2>2 DEF Short, create_draft, patch_draft, delete_draft, create_changeset,
         test_changeset, OperatorMarksTested, baselineTable
    <2>3. ASSUME NEW r \in Req, CommitPublish(r) \/ CommitActivate(r) \/ CommitArchive(r)
          PROVE  Registry!Next \/ UNCHANGED <<rows, active, archived>>
      BY <2>3, PublishMaps, ActivateMaps, ArchiveMaps
    <2>4. ASSUME NEW r \in Req, Arrive(r) \/ Step(r) \/ Fail(r),
                 ~CommitPublish(r), ~CommitActivate(r), ~CommitArchive(r)
          PROVE  UNCHANGED <<rows, active, archived>>
      BY <2>4 DEF Arrive, Step, Fail, Start, Rollback, Advance, Goes, tables,
         baselineTable, create_baseline, commit_draft, merge_changeset, patch_baseline,
         LockDraft, LockChangeset, ensure_tenant, SnapshotRows, UpdateRows, InsertRow,
         ActivateRows, SaveArtifact
    <2>5. QED
      BY <2>1, <2>2, <2>3, <2>4 DEF Next
  <1>3. QED
    BY <1>1, <1>2, Inductive, PTL DEF Spec, ImplementsRegistry, Registry!Spec
=============================================================================
