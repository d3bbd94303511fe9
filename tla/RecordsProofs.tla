--------------------------- MODULE RecordsProofs ---------------------------
(***************************************************************************)
(* Proofs of what MCRecords states of its components, one after the other: *)
(* an assignment's reviews, an ingestion session, a budget's figures, the  *)
(* investment desk, an engagement's disclosures, subscriptions, board      *)
(* packs, consolidated runs and ownership; for every value of the          *)
(* constants.                                                              *)
(***************************************************************************)
EXTENDS MCRecords, Sums, Sequences, SequenceTheorems
-----------------------------------------------------------------------------
(* Reviews.  PATCH is for the status in_progress, as its doc says          *)
(* (routers/assignments.py:314), or at least for none that a submission or *)
(* a review is to set.                                                     *)
PatchedAsDocumented == PatchStatus \cap {"submitted", "completed", "returned"} = {}

(* What a request goes by is a review by another, and the one it acts for. *)
Follows(q) ==
    /\ q # Idle => task.assignee # None
    /\ q.pc = "insert" => q.row # NoReview /\ q.row.by # task.assignee
    /\ q.pc = "status" => review[q.id] # NoReview /\ review[q.id].decision = q.decision

ReviewInv ==
    /\ TypeOK
    /\ task.status = "none" => /\ task.assignee = None
                               /\ \A v \in Review : review[v] = NoReview
                               /\ \A r \in Req : req[r] = Idle
    /\ task.status = "submitted" => task.assignee # None
    /\ \A v \in Review : review[v] # NoReview =>
          task.assignee # None /\ review[v].by # task.assignee
    /\ \A r \in Req : Follows(req[r])
    /\ DecidedByReview
-----------------------------------------------------------------------------
(* The kinds of requests, told apart by pc.                                *)
LEMMA RequestKinds ==
    ASSUME NEW q \in Request
    PROVE  /\ q.pc \in {"idle", "submit", "insert", "status", "summary", "learn"}
           /\ q.pc = "idle" => q = Idle
           /\ q.pc = "insert" => q.row \in ReviewRow /\ q.summary \in BOOLEAN
           /\ q.pc \in {"status", "summary", "learn"} =>
                 /\ q.id \in Review /\ q.decision \in Decision /\ q.summary \in BOOLEAN
                 /\ q = [pc |-> q.pc, id |-> q.id, decision |-> q.decision, summary |-> q.summary]
           /\ q # Idle => q.pc # "idle"
  BY DEF Request, Idle

LEMMA RowFacts ==
    ASSUME NEW w \in ReviewRow
    PROVE  w # NoReview => w.by \in User /\ w.decision \in Decision
  BY DEF ReviewRow, NoReview

(* A request that is moved on leaves the others.                           *)
LEMMA Moved ==
    ASSUME TypeOK, NEW r \in Req, NEW q, Goes(r, q)
    PROVE  /\ req'[r] = q /\ \A o \in Req \ {r} : req'[o] = req[o]
           /\ q \in Request => req' \in [Req -> Request]
  BY DEF TypeOK, Goes

(* Requests that only start, fail or write no row.                         *)
LEMMA KeepsRequest ==
    ASSUME ReviewInv, UNCHANGED <<task, review>>, NEW r \in Req, NEW q \in Request, Goes(r, q),
           Follows(q), feedback' \in [Review -> {"none", "summary", "points"}],
           task.status # "none" \/ q = Idle
    PROVE  ReviewInv'
  <1>1. /\ req'[r] = q /\ \A o \in Req \ {r} : req'[o] = req[o]
        /\ req' \in [Req -> Request]
    BY Moved DEF ReviewInv
  <1>2. TypeOK'
    BY <1>1 DEF ReviewInv, TypeOK
  <1>3. \A o \in Req : Follows(req[o])'
    BY <1>1 DEF ReviewInv, Follows
  <1>4. DecidedByReview'
    BY DEF ReviewInv, DecidedByReview
  <1>5. QED
    BY <1>1, <1>2, <1>3, <1>4 DEF ReviewInv

LEMMA KeepsCreate ==
    ASSUME ReviewInv, create_assignment
    PROVE  ReviewInv'
  <1>1. PICK u \in User \cup {None} :
            task' = [status |-> IF u = None THEN "draft" ELSE "assigned", assignee |-> u]
    BY DEF create_assignment
  <1>2. task.status = "none" /\ UNCHANGED <<review, feedback, req>>
        /\ (\A v \in Review : review[v] = NoReview) /\ (\A r \in Req : req[r] = Idle)
    BY DEF create_assignment, ReviewInv
  <1>3. TypeOK'
    BY <1>1, <1>2 DEF ReviewInv, TypeOK, Status
  <1>4. \A r \in Req : Follows(req[r])'
    BY <1>2 DEF Follows, Idle
  <1>5. QED
    BY <1>1, <1>2, <1>3, <1>4 DEF ReviewInv, DecidedByReview

LEMMA KeepsClaim ==
    ASSUME ReviewInv, NEW u \in User, claim_assignment(u)
    PROVE  ReviewInv'
  <1>1. /\ task.assignee = None /\ task.status = "draft" /\ UNCHANGED <<review, feedback, req>>
        /\ task' = [task EXCEPT !.assignee = u, !.status = "assigned"]
    BY DEF claim_assignment
  <1>2. task' \in [status : Status, assignee : User \cup {None}] /\ task'.status = "assigned"
    BY <1>1 DEF ReviewInv, TypeOK, Status
  <1>3. (\A v \in Review : review[v] = NoReview) /\ (\A r \in Req : req[r] = Idle)
    BY <1>1 DEF ReviewInv, Follows
  <1>4. \A r \in Req : Follows(req[r])'
    BY <1>1, <1>3 DEF Follows, Idle
  <1>5. QED
    BY <1>1, <1>2, <1>3, <1>4 DEF ReviewInv, TypeOK, DecidedByReview

LEMMA KeepsPatch ==
    ASSUME ReviewInv, PatchedAsDocumented, update_assignment
    PROVE  ReviewInv'
  <1>1. PICK s \in PatchStatus : task' = [task EXCEPT !.status = s]
    BY DEF update_assignment
  <1>2. s \in Status \ {"none", "submitted", "completed", "returned"}
        /\ UNCHANGED <<review, feedback, req>>
    BY ReviewConstants DEF PatchedAsDocumented, update_assignment
  <1>3. task' \in [status : Status, assignee : User \cup {None}]
        /\ task'.status = s /\ task'.assignee = task.assignee
    BY <1>1, <1>2 DEF ReviewInv, TypeOK
  <1>4. \A r \in Req : Follows(req[r])'
    BY <1>2, <1>3 DEF ReviewInv, Follows
  <1>5. QED
    BY <1>2, <1>3, <1>4 DEF ReviewInv, TypeOK, DecidedByReview

(* A write of the status by a request: the review it goes by is there.     *)
LEMMA KeepsStatusWrite ==
    ASSUME ReviewInv, NEW r \in Req, req[r] # Idle, NEW q \in Request, Goes(r, q),
           Follows(q), UNCHANGED <<review, feedback>>,
           NEW s \in Status \ {"none"}, task' = [task EXCEPT !.status = s],
           s \in {"completed", "returned"} =>
               \E v \in Review : review[v] # NoReview /\ new_status(review[v].decision) = s
    PROVE  ReviewInv'
  <1>1. /\ req'[r] = q /\ \A o \in Req \ {r} : req'[o] = req[o]
        /\ req' \in [Req -> Request]
    BY Moved DEF ReviewInv
  <1>2. task' \in [status : Status, assignee : User \cup {None}]
        /\ task'.status = s /\ task'.assignee = task.assignee
    BY DEF ReviewInv, TypeOK
  <1>3. TypeOK'
    BY <1>1, <1>2 DEF ReviewInv, TypeOK
  <1>4. \A o \in Req : Follows(req[o])'
    BY <1>1, <1>2 DEF ReviewInv, Follows
  <1>5. task.assignee # None
    BY DEF ReviewInv, Follows
  <1>6. DecidedByReview'
    BY <1>2 DEF DecidedByReview
  <1>7. QED
    BY <1>2, <1>3, <1>4, <1>5, <1>6 DEF ReviewInv

LEMMA KeepsInsertReview ==
    ASSUME ReviewInv, NEW r \in Req, InsertReview(r)
    PROVE  ReviewInv'
  <1>1. PICK v \in Review :
            /\ req[r].pc = "insert" /\ review[v] = NoReview
            /\ review' = [review EXCEPT ![v] = req[r].row]
            /\ Goes(r, [pc |-> "status", id |-> v, decision |-> req[r].row.decision,
                        summary |-> req[r].summary])
            /\ UNCHANGED <<task, feedback>>
    BY DEF InsertReview
  <1>2. PICK w \in ReviewRow : w = req[r].row
    BY <1>1, RequestKinds DEF ReviewInv, TypeOK
  <1>3. PICK b \in BOOLEAN : b = req[r].summary
    BY <1>1, RequestKinds DEF ReviewInv, TypeOK
  <1>4. req[r] # Idle
    BY <1>1 DEF Idle
  <1>5. w # NoReview /\ w.by # task.assignee /\ task.assignee # None /\ w.decision \in Decision
    BY <1>1, <1>2, <1>4, RowFacts DEF ReviewInv, Follows
  <1> DEFINE q == [pc |-> "status", id |-> v, decision |-> w.decision, summary |-> b]
  <1>6. Goes(r, q) /\ q \in Request
    BY <1>1, <1>2, <1>3, <1>5 DEF Request
  <1>7. /\ req'[r] = q /\ \A o \in Req \ {r} : req'[o] = req[o]
        /\ req' \in [Req -> Request]
    BY <1>6, Moved DEF ReviewInv
  <1>8. /\ review' \in [Review -> ReviewRow] /\ review'[v] = w
        /\ \A o \in Review \ {v} : review'[o] = review[o]
    BY <1>1, <1>2 DEF ReviewInv, TypeOK
  <1>9. TypeOK'
    BY <1>1, <1>7, <1>8 DEF ReviewInv, TypeOK
  <1>10. Follows(q)'
    BY <1>1, <1>5, <1>8 DEF Follows, Idle
  <1>11. ASSUME NEW o \in Req \ {r} PROVE Follows(req[o])'
    <2>1. req[o].pc = "status" => req[o].id \in Review
      BY RequestKinds DEF ReviewInv, TypeOK
    <2>2. req[o].pc = "status" => req[o].id # v
      BY <1>1 DEF ReviewInv, Follows
    <2>3. QED
      BY <1>1, <1>7, <1>8, <2>1, <2>2 DEF ReviewInv, Follows
  <1>12. DecidedByReview'
    BY <1>1, <1>8 DEF ReviewInv, DecidedByReview
  <1>13. task.status # "none"
    BY <1>4 DEF ReviewInv
  <1> HIDE DEF q
  <1>14. \A o \in Req : Follows(req[o])'
    BY <1>7, <1>10, <1>11
  <1>15. QED
    BY <1>1, <1>5, <1>8, <1>9, <1>12, <1>13, <1>14 DEF ReviewInv

LEMMA KeepsRead ==
    ASSUME ReviewInv, NEW r \in Req, NEW u \in User, SubmitReads(r, u) \/ ReviewReads(r, u)
    PROVE  ReviewInv'
  <1>1. UNCHANGED <<task, review, feedback>> /\ feedback' \in [Review -> {"none", "summary", "points"}]
    BY DEF SubmitReads, ReviewReads, ReviewInv, TypeOK
  <1>2. CASE SubmitReads(r, u)
    <2>1. [pc |-> "submit"] \in Request /\ Goes(r, [pc |-> "submit"])
      BY <1>2 DEF SubmitReads, Request
    <2>2. task.assignee # None /\ task.status # "none"
      BY <1>2, ReviewConstants DEF SubmitReads
    <2>3. Follows([pc |-> "submit"])
      BY <2>2 DEF Follows
    <2>4. QED
      BY <1>1, <2>1, <2>2, <2>3, KeepsRequest
  <1>3. CASE ReviewReads(r, u)
    <2>1. PICK d \in Decision, s \in BOOLEAN :
              /\ task.assignee # u /\ task.status = "submitted"
              /\ Goes(r, [pc |-> "insert", row |-> [by |-> u, decision |-> d], summary |-> s])
      BY <1>3 DEF ReviewReads
    <2> DEFINE made == [by |-> u, decision |-> d]
               q == [pc |-> "insert", row |-> made, summary |-> s]
    <2>2. made \in ReviewRow /\ made # NoReview
      BY ReviewConstants DEF ReviewRow, NoReview
    <2>3. q \in Request
      BY <2>2 DEF Request
    <2>4. task.assignee # None
      BY <2>1 DEF ReviewInv
    <2>5. Follows(q)
      BY <2>1, <2>2, <2>4 DEF Follows
    <2>6. task.status # "none" /\ Goes(r, q)
      BY <2>1
    <2> HIDE DEF q
    <2>7. QED
      BY <1>1, <2>3, <2>5, <2>6, KeepsRequest
  <1>4. QED
    BY <1>2, <1>3

LEMMA IdleFollows == Idle \in Request /\ Follows(Idle)
  BY DEF Follows, Idle, Request

(* Requests that write no status: a summary, its learning points, a stop.  *)
LEMMA KeepsFeedback ==
    ASSUME ReviewInv, NEW r \in Req, InsertSummary(r) \/ LearningPoints(r) \/ Fail(r)
    PROVE  ReviewInv'
  <1>1. req[r] \in Request
    BY DEF ReviewInv, TypeOK
  <1>2. CASE InsertSummary(r)
    <2>1. req[r].pc = "summary" /\ UNCHANGED <<task, review>>
          /\ feedback' = [feedback EXCEPT ![req[r].id] = "summary"]
          /\ Goes(r, [req[r] EXCEPT !.pc = "learn"])
      BY <1>2 DEF InsertSummary
    <2>2. req[r] # Idle
      BY <2>1 DEF Idle
    <2>3. PICK v \in Review, d \in Decision, s \in BOOLEAN :
              req[r] = [pc |-> "summary", id |-> v, decision |-> d, summary |-> s]
      BY <1>1, <2>1, RequestKinds
    <2>4. [req[r] EXCEPT !.pc = "learn"] = [pc |-> "learn", id |-> v, decision |-> d, summary |-> s]
      BY <2>3
    <2>5. [pc |-> "learn", id |-> v, decision |-> d, summary |-> s] \in Request
      BY DEF Request
    <2>6. task.assignee # None /\ task.status # "none"
      BY <2>2 DEF ReviewInv, Follows
    <2>7. Follows([pc |-> "learn", id |-> v, decision |-> d, summary |-> s])
      BY <2>6 DEF Follows
    <2>8. feedback' \in [Review -> {"none", "summary", "points"}]
      BY <2>1 DEF ReviewInv, TypeOK
    <2>9. Goes(r, [pc |-> "learn", id |-> v, decision |-> d, summary |-> s])
      BY <2>1, <2>4, Zenon
    <2>10. QED
      BY <2>1, <2>5, <2>6, <2>7, <2>8, <2>9, KeepsRequest
  <1>3. CASE LearningPoints(r) \/ Fail(r)
    <2>1. UNCHANGED <<task, review>> /\ Goes(r, Idle)
          /\ feedback' \in [Review -> {"none", "summary", "points"}]
      BY <1>3 DEF LearningPoints, Fail, Ends, ReviewInv, TypeOK
    <2>2. QED
      BY <2>1, IdleFollows, KeepsRequest
  <1>4. QED
    BY <1>2, <1>3

LEMMA KeepsSubmitWrites ==
    ASSUME ReviewInv, NEW r \in Req, SubmitWrites(r)
    PROVE  ReviewInv'
  <1>1. req[r].pc = "submit" /\ Goes(r, Idle) /\ UNCHANGED <<review, feedback>>
        /\ task' = [task EXCEPT !.status = "submitted"]
    BY DEF SubmitWrites, Ends
  <1>2. req[r] # Idle /\ "submitted" \in Status \ {"none"}
    BY <1>1 DEF Idle, Status
  <1>3. QED
    BY <1>1, <1>2, IdleFollows, KeepsStatusWrite

LEMMA KeepsWriteStatus ==
    ASSUME ReviewInv, NEW r \in Req, WriteStatus(r)
    PROVE  ReviewInv'
  <1>1. /\ req[r].pc = "status" /\ UNCHANGED <<review, feedback>>
        /\ task' = [task EXCEPT !.status = new_status(req[r].decision)]
    BY DEF WriteStatus
  <1>2. PICK v \in Review, d \in Decision, s \in BOOLEAN :
            req[r] = [pc |-> "status", id |-> v, decision |-> d, summary |-> s]
    BY <1>1, RequestKinds DEF ReviewInv, TypeOK
  <1>3. req[r] # Idle /\ task.assignee # None /\ review[v] # NoReview /\ review[v].decision = d
    BY <1>1, <1>2 DEF Idle, ReviewInv, Follows
  <1>4. PICK t : t = new_status(d)
    OBVIOUS
  <1>5. t \in Status \ {"none"} /\ task' = [task EXCEPT !.status = t]
    BY <1>1, <1>2, <1>4 DEF new_status, Status
  <1>6. \E x \in Review : review[x] # NoReview /\ new_status(review[x].decision) = t
    BY <1>3, <1>4
  <1> DEFINE q == [pc |-> "summary", id |-> v, decision |-> d, summary |-> s]
  <1>7. q \in Request /\ Follows(q)
    BY <1>3 DEF Request, Follows
  <1>8. [req[r] EXCEPT !.pc = "summary"] = q
    BY <1>2
  <1> HIDE DEF q
  <1>9. Goes(r, q) \/ Goes(r, Idle)
    BY <1>8, Zenon DEF WriteStatus, Ends
  <1>10. CASE Goes(r, q)
    BY <1>1, <1>3, <1>5, <1>6, <1>7, <1>10, KeepsStatusWrite
  <1>11. CASE Goes(r, Idle)
    BY <1>1, <1>3, <1>5, <1>6, <1>11, IdleFollows, KeepsStatusWrite
  <1>12. QED
    BY <1>9, <1>10, <1>11
-----------------------------------------------------------------------------
LEMMA ReviewsStart == Init => ReviewInv
  BY DEF Init, ReviewInv, TypeOK, Follows, DecidedByReview, Idle, Request, NoReview, ReviewRow, Status

LEMMA ReviewsKeep ==
    ASSUME PatchedAsDocumented
    PROVE  ReviewInv /\ [Next]_vars => ReviewInv'
  <1> SUFFICES ASSUME ReviewInv, [Next]_vars PROVE ReviewInv'
    OBVIOUS
  <1>1. CASE UNCHANGED vars
    BY <1>1 DEF vars, ReviewInv, TypeOK, Follows, DecidedByReview
  <1>2. CASE Next
    BY <1>2, KeepsCreate, KeepsPatch, KeepsClaim, KeepsRead, KeepsSubmitWrites,
       KeepsInsertReview, KeepsWriteStatus, KeepsFeedback DEF Next
  <1>3. QED
    BY <1>1, <1>2

(* Only create_assignment and claim_assignment set the assignee, and both  *)
(* only where there is none.                                               *)
LEMMA AssigneeStep ==
    ReviewInv /\ [Next]_vars => [task.assignee # None => task'.assignee = task.assignee]_vars
  <1> SUFFICES ASSUME ReviewInv, Next, task.assignee # None PROVE task'.assignee = task.assignee
    OBVIOUS
  <1>1. task \in [status : Status, assignee : User \cup {None}]
    BY DEF ReviewInv, TypeOK
  <1>2. ASSUME NEW s, task' = [task EXCEPT !.status = s] PROVE task'.assignee = task.assignee
    BY <1>1, <1>2
  <1>3. CASE UNCHANGED task
    BY <1>3
  <1>4. task.status # "none"
    BY DEF ReviewInv
  <1>5. CASE update_assignment
    BY <1>2, <1>5 DEF update_assignment
  <1>6. ASSUME NEW r \in Req, SubmitWrites(r) \/ WriteStatus(r)
        PROVE  task'.assignee = task.assignee
    BY <1>2, <1>6 DEF SubmitWrites, WriteStatus
  <1>7. QED
    BY <1>3, <1>4, <1>5, <1>6
       DEF Next, create_assignment, claim_assignment, SubmitReads, ReviewReads, InsertReview,
           InsertSummary, LearningPoints, Fail

LEMMA ReviewInvSuffices == ReviewInv => DecidedByReview /\ ReviewedByAnother
  BY DEF ReviewInv, ReviewedByAnother

(* However requests interleave and stop between their statements, an       *)
(* assignment is decided by a review that says so, never by its own        *)
(* assignee, and what was claimed stays claimed (routers/assignments.py).  *)
THEOREM ReviewsAlwaysHold ==
    ASSUME PatchedAsDocumented
    PROVE  AllSpec => ReviewsHold
  <1>1. AllInit => ReviewInv
    BY ReviewsStart DEF AllInit
  <1>2. [AllNext]_allVars => [Next]_vars
    BY DEF AllNext, allVars, reviewVars
  <1>3. ReviewInv /\ [Next]_vars => ReviewInv'
    BY ReviewsKeep
  <1>4. ReviewInv => (part = "reviews" => DecidedByReview /\ ReviewedByAnother)
    BY ReviewInvSuffices
  <1>5. QED
    BY <1>1, <1>2, <1>3, <1>4, AssigneeStep, PTL DEF AllSpec, ReviewsHold, AssigneeFixed
-----------------------------------------------------------------------------
(* Ingestion sessions.  The row, the artifacts and the drafts only gain,   *)
(* but for a deletion, which is for good; so what a request has found      *)
(* holds still when it writes, unless the row is deleted by then.          *)

Lives(w) == w.status \notin {"none", "deleted"}

Fits(q, w, a, ws) ==
    /\ q.pc \in {"classify", "map", "save", "commit"} => "parse" \in a
    /\ q.pc \in {"save", "commit"} => (Lives(w) => w.mapping)
    /\ q.pc = "commit" => q.draft \in ws
    /\ q.pc \in {"loop", "merge"} => (Lives(w) => w.session \/ q.out = <<"session_start">>)

Promises(w, a, dr, ws) ==
    /\ w.status \in {"analyzed", "draft_created"} => w.mapping /\ "parse" \in a
    /\ w.status = "draft_created" => w.draft \in Item /\ dr[w.draft] = "active"
    /\ \A d \in Item : dr[d] = "active" => d \in ws
    /\ w.agent = "paused" => w.question /\ w.session

Artifacts == {"upload", "parse", "classification"}

ExcelTyped ==
    /\ row \in Excel!Row
    /\ art \subseteq Artifacts
    /\ draft \in [Item -> {"none", "active"}]
    /\ workspace \subseteq Item
    /\ excelReq \in [Req -> Excel!Request]

(* Only the first upload inserts the row, and until then nothing else runs.*)
FirstUpload ==
    /\ row = Excel!NoRow /\ art = {} => \A r \in Req : excelReq[r] = Excel!Idle
    /\ \A r \in Req : excelReq[r].pc = "insert" =>
          row = Excel!NoRow /\ \A o \in Req \ {r} : excelReq[o] = Excel!Idle

ExcelInv ==
    /\ ExcelTyped
    /\ Promises(row, art, draft, workspace)
    /\ FirstUpload
    /\ \A r \in Req : Fits(excelReq[r], row, art, workspace)
-----------------------------------------------------------------------------
(* From one row to a later one.                                            *)
Kept(w, n) == Lives(n) => Lives(w) /\ (w.mapping => n.mapping) /\ (w.session => n.session)

LEMMA FitsLater ==
    ASSUME NEW q, NEW w, NEW a, NEW ws, NEW n, NEW b, NEW xs,
           Fits(q, w, a, ws), Kept(w, n), a \subseteq b, ws \subseteq xs
    PROVE  Fits(q, n, b, xs)
  BY DEF Fits, Kept

(* A step of request r, which goes on as q.                                *)
MovesTo(f, g, r, q) ==
    g \in [Req -> Excel!Request] /\ g[r] = q /\ \A o \in Req \ {r} : g[o] = f[o]

LEMMA ExcelStep ==
    ASSUME ExcelInv, NEW r \in Req, NEW q \in Excel!Request, MovesTo(excelReq, excelReq', r, q),
           row' \in Excel!Row, Kept(row, row') \/ \A o \in Req \ {r} : excelReq[o] = Excel!Idle,
           art \subseteq art', art' \subseteq Artifacts,
           draft' \in [Item -> {"none", "active"}],
           workspace \subseteq workspace', workspace' \subseteq Item,
           Promises(row', art', draft', workspace'), Fits(q, row', art', workspace'),
           excelReq[r] # Excel!Idle \/ row # Excel!NoRow,
           q.pc # "insert", row' = row \/ row' # Excel!NoRow
    PROVE  ExcelInv'
  <1>1. /\ excelReq'[r] = q /\ \A o \in Req \ {r} : excelReq'[o] = excelReq[o]
        /\ excelReq' \in [Req -> Excel!Request]
    BY DEF MovesTo
  <1>2. ExcelTyped'
    BY <1>1 DEF ExcelInv, ExcelTyped
  <1>3. ASSUME NEW o \in Req \ {r} PROVE Fits(excelReq[o], row', art', workspace')
    <2>1. Fits(excelReq[o], row, art, workspace)
      BY DEF ExcelInv
    <2>2. CASE Kept(row, row')
      BY <2>1, <2>2, FitsLater
    <2>3. CASE excelReq[o] = Excel!Idle
      BY <2>3 DEF Fits, Excel!Idle
    <2>4. QED
      BY <2>2, <2>3
  <1>4. \A o \in Req : Fits(excelReq'[o], row', art', workspace')
    BY <1>1, <1>3
  <1>5. \A o \in Req \ {r} : excelReq[o].pc # "insert"
    BY DEF ExcelInv, FirstUpload
  <1>6. ~(row = Excel!NoRow /\ art = {})
    BY DEF ExcelInv, FirstUpload
  <1>7. FirstUpload'
    BY <1>1, <1>5, <1>6 DEF FirstUpload
  <1>8. QED
    BY <1>2, <1>4, <1>7 DEF ExcelInv

(* What an UPDATE may make of the row: it must not lose what is promised.  *)
LEMMA UpdateFacts ==
    ASSUME ExcelInv, NEW n, Excel!Update(n),
           Lives(row) => /\ n \in Excel!Row /\ Lives(n)
                         /\ (row.mapping => n.mapping) /\ (row.session => n.session)
    PROVE  /\ row' \in Excel!Row /\ Kept(row, row')
           /\ row' = row \/ row' # Excel!NoRow
  BY DEF ExcelInv, ExcelTyped, Excel!Update, Excel!Exists, Lives, Kept, Excel!NoRow

LEMMA PromisesLater ==
    ASSUME NEW w, NEW a, NEW dr, NEW ws, NEW b, NEW xs, Promises(w, a, dr, ws), a \subseteq b,
           ws \subseteq xs
    PROVE  Promises(w, b, dr, xs)
  BY DEF Promises

(* The records that UPDATEs make of a row.                                 *)
LEMMA RowsMade ==
    ASSUME NEW w \in Excel!Row
    PROVE  /\ \A s \in {"parsing", "parsed", "analyzing", "failed"} :
                 /\ [w EXCEPT !.status = s] \in Excel!Row
                 /\ [w EXCEPT !.status = s].status = s
                 /\ [w EXCEPT !.status = s].mapping = w.mapping
                 /\ [w EXCEPT !.status = s].session = w.session
                 /\ [w EXCEPT !.status = s].agent = w.agent
                 /\ [w EXCEPT !.status = s].question = w.question
  BY DEF Excel!Row

LEMMA AnalyzedMade ==
    ASSUME NEW w \in Excel!Row, NEW n, n = [w EXCEPT !.status = "analyzed", !.mapping = TRUE]
    PROVE  /\ n \in Excel!Row /\ n.status = "analyzed" /\ n.mapping = TRUE
           /\ n.session = w.session /\ n.agent = w.agent /\ n.question = w.question
  BY DEF Excel!Row

(* And of a request that goes on.                                          *)
Points == {"insert", "parsing", "parse", "classify", "savecls", "analyzing", "load",
           "map", "save", "commit", "loop", "merge"}

LEMMA RequestFacts ==
    ASSUME NEW q \in Excel!Request
    PROVE  /\ q # Excel!Idle => /\ q.pc \in Points /\ q.found \in SUBSET Excel!Found
                                /\ q.out \in Seq(Excel!Event)
                                /\ q.read \in SUBSET Excel!Found
           /\ q.pc # "idle" => q # Excel!Idle
  BY DEF Excel!Request, Excel!Idle, Points

LEMMA EndsMade ==
    ASSUME NEW f \in [Req -> Excel!Request], NEW r \in Req, NEW g, g = [f EXCEPT ![r] = Excel!Idle]
    PROVE  MovesTo(f, g, r, Excel!Idle) /\ Excel!Idle \in Excel!Request
  BY DEF MovesTo, Excel!Request

LEMMA GoesOnTo ==
    ASSUME ExcelInv, NEW r \in Req, excelReq[r] # Excel!Idle, NEW p \in Points, Excel!Goes(r, p)
    PROVE  /\ MovesTo(excelReq, excelReq', r, excelReq'[r]) /\ excelReq'[r] \in Excel!Request
           /\ excelReq'[r].pc = p /\ excelReq'[r].out = excelReq[r].out
           /\ excelReq'[r].draft = excelReq[r].draft
  <1> DEFINE q == [excelReq[r] EXCEPT !.pc = p]
  <1>1. excelReq \in [Req -> Excel!Request] /\ excelReq[r] \in Excel!Request
    BY DEF ExcelInv, ExcelTyped
  <1>2. excelReq[r] \in Excel!Request \ {Excel!Idle}
    BY <1>1
  <1>3. q \in Excel!Request /\ q.pc = p /\ q.out = excelReq[r].out /\ q.draft = excelReq[r].draft
    BY <1>2 DEF Excel!Request, Points
  <1>4. excelReq' = [excelReq EXCEPT ![r] = q]
    BY Zenon DEF Excel!Goes
  <1> HIDE DEF q
  <1>5. excelReq'[r] = q /\ MovesTo(excelReq, excelReq', r, excelReq'[r])
    BY <1>1, <1>3, <1>4 DEF MovesTo
  <1>6. QED
    BY <1>3, <1>5

LEMMA OutMade ==
    ASSUME NEW f \in [Req -> Excel!Request], NEW r \in Req, f[r] # Excel!Idle,
           NEW p \in Points, NEW out \in Seq(Excel!Event),
           NEW g, g = [f EXCEPT ![r].pc = p, ![r].out = out]
    PROVE  /\ MovesTo(f, g, r, g[r]) /\ g[r] \in Excel!Request
           /\ g[r].pc = p /\ g[r].out = out
  <1> DEFINE q == [[f[r] EXCEPT !.pc = p] EXCEPT !.out = out]
  <1>1. q \in Excel!Request /\ q.pc = p /\ q.out = out
    BY ZenonT(30) DEF Excel!Request, Points
  <1>2. g = [f EXCEPT ![r] = q]
    BY Zenon
  <1> HIDE DEF q
  <1>3. g[r] = q /\ MovesTo(f, g, r, g[r])
    BY <1>1, <1>2 DEF MovesTo
  <1>4. QED
    BY <1>1, <1>3

LEMMA StartsMade ==
    ASSUME ExcelInv, NEW r \in Req, NEW p \in Points, NEW mode \in {"llm", "agent", "stream", "draft"},
           NEW found \in SUBSET Excel!Found, NEW out \in Seq(Excel!Event),
           Excel!Starts(r, p, mode, found, out)
    PROVE  /\ excelReq[r] = Excel!Idle
           /\ MovesTo(excelReq, excelReq', r, excelReq'[r]) /\ excelReq'[r] \in Excel!Request
           /\ excelReq'[r].pc = p /\ excelReq'[r].out = out
  <1> DEFINE q == [pc |-> p, mode |-> mode, found |-> found, out |-> out, read |-> {}, draft |-> None]
  <1>1. q \in Excel!Request /\ q.pc = p /\ q.out = out
    BY DEF Excel!Request, Points
  <1>2. excelReq' = [excelReq EXCEPT ![r] = q] /\ excelReq[r] = Excel!Idle
    BY DEF Excel!Starts
  <1> HIDE DEF q
  <1>3. excelReq'[r] = q /\ MovesTo(excelReq, excelReq', r, excelReq'[r])
    BY <1>1, <1>2 DEF MovesTo, ExcelInv, ExcelTyped
  <1>4. QED
    BY <1>1, <1>2, <1>3
-----------------------------------------------------------------------------
(* Steps that leave the row alone, and steps that update it.               *)
Acts(r) == excelReq[r] # Excel!Idle \/ row # Excel!NoRow

LEMMA SameRow ==
    ASSUME ExcelInv, NEW r \in Req, NEW q \in Excel!Request, MovesTo(excelReq, excelReq', r, q),
           Acts(r), q.pc # "insert", row' = row, draft' = draft,
           art \subseteq art', art' \subseteq Artifacts,
           workspace \subseteq workspace', workspace' \subseteq Item,
           Fits(q, row, art', workspace')
    PROVE  ExcelInv'
  <1>1. Kept(row, row') /\ row' \in Excel!Row
    BY DEF Kept, ExcelInv, ExcelTyped
  <1>2. draft' \in [Item -> {"none", "active"}]
    BY DEF ExcelInv, ExcelTyped
  <1>3. Promises(row', art', draft', workspace')
    BY PromisesLater DEF ExcelInv
  <1>4. Fits(q, row', art', workspace')
    OBVIOUS
  <1>5. QED
    BY <1>1, <1>2, <1>3, <1>4, ExcelStep DEF Acts

LEMMA UpdatedRow ==
    ASSUME ExcelInv, NEW r \in Req, NEW q \in Excel!Request, MovesTo(excelReq, excelReq', r, q),
           excelReq[r] # Excel!Idle, q.pc # "insert", UNCHANGED <<art, workspace>>,
           draft' \in [Item -> {"none", "active"}],
           NEW n, Excel!Update(n),
           Lives(row) => /\ n \in Excel!Row /\ Lives(n)
                         /\ (row.mapping => n.mapping) /\ (row.session => n.session)
                         /\ Promises(n, art, draft', workspace),
           ~Lives(row) => Promises(row, art, draft', workspace),
           Fits(q, row', art, workspace)
    PROVE  ExcelInv'
  <1>1. /\ row' \in Excel!Row /\ Kept(row, row')
        /\ row' = row \/ row' # Excel!NoRow
    BY UpdateFacts
  <1>2. Promises(row', art', draft', workspace')
    BY DEF Excel!Update, Excel!Exists, Lives
  <1>3. art' \subseteq Artifacts /\ workspace' \subseteq Item /\ art \subseteq art'
        /\ workspace \subseteq workspace' /\ Fits(q, row', art', workspace')
    BY DEF ExcelInv, ExcelTyped
  <1>4. QED
    BY <1>1, <1>2, <1>3, ExcelStep

LEMMA EndFits == \A w, a, ws : Fits(Excel!Idle, w, a, ws)
  BY DEF Fits, Excel!Idle
-----------------------------------------------------------------------------
(* One lemma per step: what the row is not written by.                     *)
LEMMA KeepsStored ==
    ASSUME ExcelInv, NEW r \in Req, \/ Excel!SaveParse(r) \/ Excel!SaveClassification(r)
                                    \/ Excel!LoadArtifacts(r) \/ Excel!Fail(r)
    PROVE  ExcelInv'
  <1>1. /\ excelReq \in [Req -> Excel!Request] /\ excelReq[r] \in Excel!Request
        /\ art \subseteq Artifacts /\ workspace \subseteq Item
    BY DEF ExcelInv, ExcelTyped
  <1>2. excelReq[r] # Excel!Idle /\ Acts(r)
    BY DEF Excel!SaveParse, Excel!SaveClassification, Excel!LoadArtifacts, Excel!Fail, Excel!Idle, Acts
  <1>3. CASE Excel!SaveParse(r)
    <2>1. "classify" \in Points /\ Excel!Goes(r, "classify")
          /\ art' = art \cup {"parse"} /\ UNCHANGED <<row, draft, workspace>>
      BY <1>3 DEF Excel!SaveParse, Points
    <2>2. PICK q \in Excel!Request : MovesTo(excelReq, excelReq', r, q) /\ q.pc = "classify"
      BY <1>2, <2>1, GoesOnTo
    <2>3. Fits(q, row, art', workspace')
      BY <2>1, <2>2 DEF Fits
    <2>4. QED
      BY <1>1, <1>2, <2>1, <2>2, <2>3, SameRow DEF Artifacts
  <1>4. CASE Excel!LoadArtifacts(r) /\ {"parse", "classification"} \subseteq art
    <2>1. "map" \in Points /\ Excel!Goes(r, "map")
          /\ UNCHANGED <<row, art, draft, workspace>>
      BY <1>4 DEF Excel!LoadArtifacts, Points
    <2>2. PICK q \in Excel!Request : MovesTo(excelReq, excelReq', r, q) /\ q.pc = "map"
      BY <1>2, <2>1, GoesOnTo
    <2>3. Fits(q, row, art', workspace')
      BY <1>4, <2>1, <2>2 DEF Fits
    <2>4. QED
      BY <1>1, <1>2, <2>1, <2>2, <2>3, SameRow
  <1>5. CASE \/ Excel!SaveClassification(r) \/ Excel!Fail(r)
             \/ Excel!LoadArtifacts(r) /\ ~({"parse", "classification"} \subseteq art)
    <2>1. /\ excelReq' = [excelReq EXCEPT ![r] = Excel!Idle]
          /\ art \subseteq art' /\ art' \subseteq Artifacts /\ UNCHANGED <<row, draft, workspace>>
      BY <1>1, <1>5 DEF Excel!SaveClassification, Excel!Fail, Excel!LoadArtifacts, Excel!Ends, Artifacts
    <2>2. MovesTo(excelReq, excelReq', r, Excel!Idle) /\ Excel!Idle \in Excel!Request
      BY <1>1, <2>1, EndsMade
    <2>3. Fits(Excel!Idle, row, art', workspace') /\ Excel!Idle.pc # "insert"
      BY EndFits DEF Excel!Idle
    <2>4. QED
      BY <1>1, <1>2, <2>1, <2>2, <2>3, SameRow
  <1>6. QED
    BY <1>3, <1>4, <1>5

LEMMA KeepsStarts ==
    ASSUME ExcelInv, NEW r \in Req, \/ Excel!trigger_analyze(r) \/ Excel!create_draft(r)
                                    \/ Excel!answer_and_stream(r)
    PROVE  ExcelInv'
  <1>1. /\ row \in Excel!Row /\ art \subseteq Artifacts /\ workspace \subseteq Item
        /\ UNCHANGED <<row, art, draft, workspace>>
    BY DEF ExcelInv, ExcelTyped, Excel!trigger_analyze, Excel!create_draft, Excel!answer_and_stream
  <1>2. row # Excel!NoRow /\ Acts(r)
    BY DEF Excel!trigger_analyze, Excel!create_draft, Excel!answer_and_stream, Acts, Excel!NoRow
  <1>3. <<>> \in Seq(Excel!Event) /\ <<"session_resume">> \in Seq(Excel!Event)
        /\ {} \in SUBSET Excel!Found /\ {"analyzing", "save", "loop"} \subseteq Points
    BY DEF Excel!Event, Points
  <1>4. CASE Excel!trigger_analyze(r)
    <2>1. PICK q \in Excel!Request : MovesTo(excelReq, excelReq', r, q) /\ q.pc = "analyzing"
      BY <1>3, <1>4, StartsMade DEF Excel!trigger_analyze
    <2>2. Fits(q, row, art', workspace')
      BY <2>1 DEF Fits
    <2>3. QED
      BY <1>1, <1>2, <2>1, <2>2, SameRow
  <1>5. CASE Excel!create_draft(r)
    <2>1. PICK q \in Excel!Request : MovesTo(excelReq, excelReq', r, q) /\ q.pc = "save"
      BY <1>3, <1>5, StartsMade DEF Excel!create_draft
    <2>2. row.mapping /\ "parse" \in art
      BY <1>5 DEF Excel!create_draft, ExcelInv, Promises
    <2>3. Fits(q, row, art', workspace')
      BY <1>1, <2>1, <2>2 DEF Fits
    <2>4. QED
      BY <1>1, <1>2, <2>1, <2>3, SameRow
  <1>6. CASE Excel!answer_and_stream(r)
    <2>1. row.state \in SUBSET Excel!Found /\ row.session
      BY <1>1, <1>6 DEF Excel!Row, Excel!answer_and_stream
    <2>2. PICK q \in Excel!Request : MovesTo(excelReq, excelReq', r, q) /\ q.pc = "loop"
      BY <1>3, <1>6, <2>1, StartsMade DEF Excel!answer_and_stream
    <2>3. Fits(q, row, art', workspace')
      BY <2>1, <2>2 DEF Fits
    <2>4. QED
      BY <1>1, <1>2, <2>2, <2>3, SameRow
  <1>7. QED
    BY <1>4, <1>5, <1>6

(* One lemma per kind of UPDATE.                                           *)
LEMMA KeepsMark ==
    ASSUME ExcelInv, NEW r \in Req,
           \/ Excel!MarkParsing(r) \/ Excel!Classified(r) \/ Excel!MarkAnalyzing(r)
    PROVE  ExcelInv'
  <1>1. excelReq \in [Req -> Excel!Request] /\ row \in Excel!Row /\ excelReq[r] # Excel!Idle
        /\ draft' \in [Item -> {"none", "active"}]
        /\ UNCHANGED <<art, workspace, draft>>
    BY DEF ExcelInv, ExcelTyped, Excel!MarkParsing, Excel!Classified, Excel!MarkAnalyzing, Excel!Idle
  <1>2. PICK s \in {"parsing", "parsed", "analyzing"}, p \in {"parse", "savecls", "load"} :
            Excel!Update([row EXCEPT !.status = s]) /\ Excel!Goes(r, p)
    BY Zenon DEF Excel!MarkParsing, Excel!Classified, Excel!MarkAnalyzing
  <1>3. p \in Points /\ s \in {"parsing", "parsed", "analyzing", "failed"}
    BY DEF Points
  <1>4. PICK q \in Excel!Request : MovesTo(excelReq, excelReq', r, q) /\ q.pc = p
    BY <1>1, <1>2, <1>3, GoesOnTo
  <1> DEFINE n == [row EXCEPT !.status = s]
  <1>5. /\ n \in Excel!Row /\ n.status = s /\ n.mapping = row.mapping
        /\ n.session = row.session /\ n.agent = row.agent /\ n.question = row.question
    BY <1>1, <1>3, RowsMade, ZenonT(30)
  <1>6. Excel!Update(n)
    BY <1>2
  <1> HIDE DEF n
  <1>7. Promises(row, art, draft, workspace)
    BY DEF ExcelInv
  <1>8. /\ Lives(n) /\ (row.mapping => n.mapping) /\ (row.session => n.session)
        /\ Promises(n, art, draft', workspace) /\ Promises(row, art, draft', workspace)
    BY <1>1, <1>5, <1>7 DEF Lives, Promises
  <1>9. Fits(q, row', art, workspace) /\ q.pc # "insert"
    BY <1>4 DEF Fits
  <1>10. QED
    BY <1>1, <1>4, <1>5, <1>6, <1>8, <1>9, UpdatedRow

LEMMA KeepsFailed ==
    ASSUME ExcelInv, NEW r \in Req, Excel!MarkFailed(r)
    PROVE  ExcelInv'
  <1>1. excelReq \in [Req -> Excel!Request] /\ row \in Excel!Row /\ excelReq[r] # Excel!Idle
        /\ draft' \in [Item -> {"none", "active"}]
        /\ UNCHANGED <<art, workspace, draft>>
        /\ excelReq' = [excelReq EXCEPT ![r] = Excel!Idle]
    BY DEF ExcelInv, ExcelTyped, Excel!MarkFailed, Excel!Idle, Excel!Ends
  <1>2. MovesTo(excelReq, excelReq', r, Excel!Idle) /\ Excel!Idle \in Excel!Request
    BY <1>1, EndsMade
  <1> DEFINE n == [row EXCEPT !.status = "failed"]
  <1>3. /\ n \in Excel!Row /\ n.status = "failed" /\ n.mapping = row.mapping
        /\ n.session = row.session /\ n.agent = row.agent /\ n.question = row.question
    BY <1>1, RowsMade
  <1>4. Excel!Update(n)
    BY DEF Excel!MarkFailed
  <1> HIDE DEF n
  <1>5. Promises(row, art, draft, workspace)
    BY DEF ExcelInv
  <1>6. /\ Lives(n) /\ (row.mapping => n.mapping) /\ (row.session => n.session)
        /\ Promises(n, art, draft', workspace) /\ Promises(row, art, draft', workspace)
    BY <1>1, <1>3, <1>5 DEF Lives, Promises
  <1>7. Fits(Excel!Idle, row', art, workspace) /\ Excel!Idle.pc # "insert"
    BY EndFits DEF Excel!Idle
  <1>8. QED
    BY <1>1, <1>2, <1>3, <1>4, <1>6, <1>7, UpdatedRow

LEMMA KeepsMapped ==
    ASSUME ExcelInv, NEW r \in Req, Excel!ClassifiedAndMapped(r) \/ Excel!Mapped(r)
    PROVE  ExcelInv'
  <1>1. excelReq \in [Req -> Excel!Request] /\ row \in Excel!Row /\ excelReq[r] # Excel!Idle
        /\ draft' \in [Item -> {"none", "active"}]
        /\ UNCHANGED <<art, workspace, draft>>
    BY DEF ExcelInv, ExcelTyped, Excel!ClassifiedAndMapped, Excel!Mapped, Excel!Idle
  <1>2. "parse" \in art
    BY DEF ExcelInv, Fits, Excel!ClassifiedAndMapped, Excel!Mapped
  <1>3. PICK q \in Excel!Request : MovesTo(excelReq, excelReq', r, q) /\ q.pc \in {"savecls", "idle"}
    <2>1. CASE Excel!ClassifiedAndMapped(r)
      <3>1. "savecls" \in Points /\ Excel!Goes(r, "savecls")
        BY <2>1 DEF Points, Excel!ClassifiedAndMapped
      <3>2. QED
        BY <1>1, <3>1, GoesOnTo
    <2>2. CASE Excel!Mapped(r)
      <3>1. excelReq' = [excelReq EXCEPT ![r] = Excel!Idle]
        BY <2>2 DEF Excel!Mapped, Excel!Ends
      <3>2. MovesTo(excelReq, excelReq', r, Excel!Idle) /\ Excel!Idle \in Excel!Request
        BY <1>1, <3>1, EndsMade
      <3>3. QED
        BY <3>2 DEF Excel!Idle
    <2>3. QED
      BY <2>1, <2>2
  <1> DEFINE n == [row EXCEPT !.status = "analyzed", !.mapping = TRUE]
  <1>4. /\ n \in Excel!Row /\ n.status = "analyzed" /\ n.mapping = TRUE
        /\ n.session = row.session /\ n.agent = row.agent /\ n.question = row.question
    BY <1>1, AnalyzedMade
  <1>5. Excel!Update(n)
    BY DEF Excel!ClassifiedAndMapped, Excel!Mapped
  <1> HIDE DEF n
  <1>6. Promises(row, art, draft, workspace)
    BY DEF ExcelInv
  <1>7. /\ Lives(n) /\ (row.mapping => n.mapping) /\ (row.session => n.session)
        /\ Promises(n, art, draft', workspace) /\ Promises(row, art, draft', workspace)
    BY <1>1, <1>2, <1>4, <1>6 DEF Lives, Promises
  <1>8. Fits(q, row', art, workspace) /\ q.pc # "insert"
    BY <1>3 DEF Fits
  <1>9. QED
    BY <1>1, <1>3, <1>4, <1>5, <1>7, <1>8, UpdatedRow

(* The draft: its workspace, and then the draft and the link to it.        *)
LEMMA KeepsSaveWorkspace ==
    ASSUME ExcelInv, NEW r \in Req, Excel!SaveWorkspace(r)
    PROVE  ExcelInv'
  <1>1. /\ excelReq \in [Req -> Excel!Request] /\ excelReq[r] \in Excel!Request \ {Excel!Idle}
        /\ excelReq[r].pc = "save" /\ Acts(r)
        /\ art \subseteq Artifacts /\ workspace \subseteq Item /\ UNCHANGED <<row, art, draft>>
    BY DEF ExcelInv, ExcelTyped, Excel!SaveWorkspace, Excel!Idle, Acts
  <1>2. PICK d \in Item :
            /\ workspace' = workspace \cup {d}
            /\ excelReq' = [excelReq EXCEPT ![r].pc = "commit", ![r].draft = d]
    BY DEF Excel!SaveWorkspace
  <1> DEFINE q == [[excelReq[r] EXCEPT !.pc = "commit"] EXCEPT !.draft = d]
  <1>3. q \in Excel!Request /\ q.pc = "commit" /\ q.draft = d
    BY <1>1 DEF Excel!Request
  <1>4. excelReq' = [excelReq EXCEPT ![r] = q]
    BY <1>2, Zenon
  <1> HIDE DEF q
  <1>5. MovesTo(excelReq, excelReq', r, q)
    BY <1>1, <1>3, <1>4 DEF MovesTo
  <1>6. "parse" \in art /\ (Lives(row) => row.mapping)
    BY <1>1 DEF ExcelInv, Fits
  <1>7. Fits(q, row, art', workspace') /\ workspace \subseteq workspace' /\ workspace' \subseteq Item
    BY <1>1, <1>2, <1>3, <1>6 DEF Fits
  <1>8. q.pc # "insert" /\ art \subseteq art' /\ art' \subseteq Artifacts
    BY <1>1, <1>3
  <1>9. QED
    BY <1>1, <1>3, <1>5, <1>7, <1>8, SameRow

LEMMA KeepsCreateDraft ==
    ASSUME ExcelInv, NEW r \in Req, Excel!create_draft_from_mapping(r)
    PROVE  ExcelInv'
  <1>1. /\ excelReq \in [Req -> Excel!Request] /\ row \in Excel!Row /\ excelReq[r] # Excel!Idle
        /\ excelReq[r].pc = "commit" /\ draft \in [Item -> {"none", "active"}]
        /\ workspace \subseteq Item /\ UNCHANGED <<art, workspace>>
        /\ excelReq' = [excelReq EXCEPT ![r] = Excel!Idle]
    BY DEF ExcelInv, ExcelTyped, Excel!create_draft_from_mapping, Excel!Idle, Excel!Ends
  <1>2. PICK d : d = excelReq[r].draft
    OBVIOUS
  <1>3. draft' = [draft EXCEPT ![d] = "active"]
    BY <1>2 DEF Excel!create_draft_from_mapping
  <1>4. "parse" \in art /\ (Lives(row) => row.mapping) /\ d \in workspace /\ d \in Item
    BY <1>1, <1>2 DEF ExcelInv, Fits
  <1>5. MovesTo(excelReq, excelReq', r, Excel!Idle) /\ Excel!Idle \in Excel!Request
    BY <1>1, EndsMade
  <1> DEFINE n == [row EXCEPT !.status = "draft_created", !.draft = d]
  <1>6. /\ n \in Excel!Row /\ n.status = "draft_created" /\ n.draft = d /\ n.mapping = row.mapping
        /\ n.session = row.session /\ n.agent = row.agent /\ n.question = row.question
    <2>1. row \in Excel!Row /\ d \in Item
      BY <1>1, <1>4
    <2>2. QED
      BY <2>1 DEF Excel!Row
  <1>7. Excel!Update(n)
    BY <1>2 DEF Excel!create_draft_from_mapping
  <1> HIDE DEF n
  <1>8. Promises(row, art, draft, workspace)
    BY DEF ExcelInv
  <1>9. /\ draft' \in [Item -> {"none", "active"}] /\ draft'[d] = "active"
        /\ \A e \in Item : draft'[e] = "active" => e \in workspace
        /\ \A e \in Item : draft[e] = "active" => draft'[e] = "active"
    BY <1>1, <1>3, <1>4, <1>8 DEF Promises
  <1>10. Promises(row, art, draft', workspace)
    BY <1>8, <1>9 DEF Promises
  <1>11. Lives(row) => /\ Lives(n) /\ (row.mapping => n.mapping) /\ (row.session => n.session)
                       /\ Promises(n, art, draft', workspace)
    BY <1>4, <1>6, <1>8, <1>9 DEF Lives, Promises
  <1>12. Fits(Excel!Idle, row', art, workspace) /\ Excel!Idle.pc # "insert"
    BY EndFits DEF Excel!Idle
  <1>13. QED
    BY <1>1, <1>5, <1>6, <1>7, <1>9, <1>10, <1>11, <1>12, UpdatedRow

(* The agent's turns, its end, and the reading of the state.               *)
LEMMA KeepsAgentTurn ==
    ASSUME ExcelInv, NEW r \in Req, Excel!AgentTurn(r)
    PROVE  ExcelInv'
  <1>1. /\ excelReq \in [Req -> Excel!Request] /\ excelReq[r] \in Excel!Request \ {Excel!Idle}
        /\ excelReq[r].pc = "loop" /\ excelReq[r].out = <<>> /\ Acts(r)
        /\ art \subseteq Artifacts /\ workspace \subseteq Item
        /\ UNCHANGED <<row, art, draft, workspace>>
    BY DEF ExcelInv, ExcelTyped, Excel!AgentTurn, Excel!Idle, Acts
  <1> DEFINE New(S, x) == IF x \in S \ excelReq[r].found THEN <<x>> ELSE <<>>
             Out(S, asked) == New(S, "classification")
                                \o (IF asked THEN <<"question">> ELSE New(S, "mapping"))
  <1>2. PICK S \in SUBSET Excel!Found, o \in Seq(Excel!Event) :
            excelReq' = [excelReq EXCEPT ![r].found = S, ![r].out = o]
    <2>1. PICK S \in SUBSET Excel!Found, asked \in BOOLEAN :
              excelReq' = [excelReq EXCEPT ![r].found = S, ![r].out = Out(S, asked)]
      BY Zenon DEF Excel!AgentTurn, Excel!Submitted
    <2>2. New(S, "classification") \in Seq(Excel!Event) /\ New(S, "mapping") \in Seq(Excel!Event)
          /\ <<"question">> \in Seq(Excel!Event)
      <3>1. /\ <<>> \in Seq(Excel!Event) /\ <<"classification">> \in Seq(Excel!Event)
            /\ <<"mapping">> \in Seq(Excel!Event) /\ <<"question">> \in Seq(Excel!Event)
        BY DEF Excel!Event
      <3>2. QED
        BY <3>1, Zenon
    <2> HIDE DEF New
    <2>3. Out(S, asked) \in Seq(Excel!Event)
      BY <2>2
    <2> HIDE DEF Out
    <2>4. QED
      BY <2>1, <2>3, Zenon
  <1> DEFINE q == [[excelReq[r] EXCEPT !.found = S] EXCEPT !.out = o]
  <1>3. q \in Excel!Request /\ q.pc = "loop"
    BY <1>1 DEF Excel!Request
  <1>4. excelReq' = [excelReq EXCEPT ![r] = q]
    BY <1>2, Zenon
  <1> HIDE DEF q
  <1>5. MovesTo(excelReq, excelReq', r, q)
    BY <1>1, <1>3, <1>4 DEF MovesTo
  <1>6. Lives(row) => row.session
    BY <1>1 DEF ExcelInv, Fits
  <1>7. Fits(q, row, art', workspace') /\ q.pc # "insert"
    BY <1>3, <1>6 DEF Fits
  <1>8. QED
    BY <1>1, <1>3, <1>5, <1>7, SameRow

LEMMA KeepsAgentEnds ==
    ASSUME ExcelInv, NEW r \in Req, Excel!AgentEnds(r)
    PROVE  ExcelInv'
  <1>1. /\ excelReq \in [Req -> Excel!Request] /\ excelReq[r] \in Excel!Request \ {Excel!Idle}
        /\ excelReq[r].pc = "loop" /\ excelReq[r].out = <<>> /\ Acts(r)
        /\ art \subseteq Artifacts /\ workspace \subseteq Item
        /\ UNCHANGED <<row, art, draft, workspace>>
    BY DEF ExcelInv, ExcelTyped, Excel!AgentEnds, Excel!Idle, Acts
  <1>2. PICK e \in {"complete", "error"} : excelReq' = [excelReq EXCEPT ![r].out = <<e>>]
    BY DEF Excel!AgentEnds
  <1> DEFINE q == [excelReq[r] EXCEPT !.out = <<e>>]
  <1>3. <<e>> \in Seq(Excel!Event)
    BY DEF Excel!Event
  <1>4. q \in Excel!Request /\ q.pc = "loop"
    BY <1>1, <1>3 DEF Excel!Request
  <1>5. excelReq' = [excelReq EXCEPT ![r] = q]
    BY <1>2, Zenon
  <1> HIDE DEF q
  <1>6. MovesTo(excelReq, excelReq', r, q)
    BY <1>1, <1>4, <1>5 DEF MovesTo
  <1>7. Lives(row) => row.session
    BY <1>1 DEF ExcelInv, Fits
  <1>8. Fits(q, row, art', workspace') /\ q.pc # "insert"
    BY <1>4, <1>7 DEF Fits
  <1>9. QED
    BY <1>1, <1>4, <1>6, <1>8, SameRow

LEMMA KeepsReadState ==
    ASSUME ExcelInv, NEW r \in Req, Excel!ReadState(r)
    PROVE  ExcelInv'
  <1>1. /\ excelReq \in [Req -> Excel!Request] /\ excelReq[r] \in Excel!Request \ {Excel!Idle}
        /\ excelReq[r].pc = "loop" /\ Acts(r) /\ row.state \in SUBSET Excel!Found
        /\ art \subseteq Artifacts /\ workspace \subseteq Item
        /\ UNCHANGED <<row, art, draft, workspace>>
    BY DEF ExcelInv, ExcelTyped, Excel!ReadState, Excel!Idle, Acts, Excel!Row
  <1> DEFINE q == [[excelReq[r] EXCEPT !.pc = "merge"] EXCEPT !.read = row.state]
  <1>2. q \in Excel!Request /\ q.pc = "merge" /\ q.out = excelReq[r].out
    BY <1>1 DEF Excel!Request
  <1>3. excelReq' = [excelReq EXCEPT ![r] = q]
    BY Zenon DEF Excel!ReadState
  <1> HIDE DEF q
  <1>4. MovesTo(excelReq, excelReq', r, q)
    BY <1>1, <1>2, <1>3 DEF MovesTo
  <1>5. Lives(row) => row.session \/ q.out = <<"session_start">>
    BY <1>1, <1>2 DEF ExcelInv, Fits
  <1>6. Fits(q, row, art', workspace') /\ q.pc # "insert"
    BY <1>2, <1>5 DEF Fits
  <1>7. QED
    BY <1>1, <1>2, <1>4, <1>6, SameRow

(* What an event makes of the row.                                         *)
RecordedAs(w, event, n) ==
    /\ n \in Excel!Row /\ n.status = w.status /\ n.mapping = w.mapping /\ n.draft = w.draft
    /\ event = "session_start" => n.session = TRUE
    /\ event # "session_start" => n.session = w.session
    /\ n.agent = "paused" =>
          IF event = "question" THEN n.question = TRUE
          ELSE w.agent = "paused" /\ n.question = w.question

LEMMA RecordedMade ==
    ASSUME row \in Excel!Row, NEW event \in Excel!Event, NEW read \in SUBSET Excel!Found
    PROVE  RecordedAs(row, event, Excel!Recorded(event, read))
  <1> DEFINE n == Excel!Recorded(event, read)
  <1>1. CASE event = "session_start"
    BY <1>1 DEF Excel!Recorded, Excel!Row, RecordedAs
  <1>2. CASE event = "session_resume"
    BY <1>2 DEF Excel!Recorded, Excel!Row, RecordedAs
  <1>3. CASE event = "question"
    BY <1>3 DEF Excel!Recorded, Excel!Row, RecordedAs
  <1>4. CASE event = "complete"
    BY <1>4 DEF Excel!Recorded, Excel!Row, RecordedAs
  <1>5. CASE event = "error"
    BY <1>5 DEF Excel!Recorded, Excel!Row, RecordedAs
  <1>6. CASE event \in {"classification", "mapping"}
    <2>1. /\ n = [row EXCEPT !.state = read \cup {event}]
          /\ read \cup {event} \in SUBSET Excel!Found
      BY <1>6 DEF Excel!Recorded, Excel!Found
    <2>2. QED
      BY <1>6, <2>1 DEF Excel!Row, RecordedAs
  <1>7. QED
    BY <1>1, <1>2, <1>3, <1>4, <1>5, <1>6 DEF Excel!Event

LEMMA KeepsPersist ==
    ASSUME ExcelInv, NEW r \in Req, Excel!_persist_stream_state(r)
    PROVE  ExcelInv'
  <1>1. /\ excelReq \in [Req -> Excel!Request] /\ row \in Excel!Row /\ excelReq[r] # Excel!Idle
        /\ excelReq[r] \in Excel!Request /\ excelReq[r].out # <<>>
        /\ excelReq[r].pc \in {"loop", "merge"}
        /\ draft' \in [Item -> {"none", "active"}]
        /\ UNCHANGED <<art, workspace, draft>>
    BY DEF ExcelInv, ExcelTyped, Excel!_persist_stream_state, Excel!Idle
  <1>2. /\ excelReq[r].out \in Seq(Excel!Event) /\ excelReq[r].found \in SUBSET Excel!Found
        /\ excelReq[r].read \in SUBSET Excel!Found
    BY <1>1, RequestFacts
  <1>3. PICK event : event = Head(excelReq[r].out)
    OBVIOUS
  <1>4. event \in Excel!Event /\ Tail(excelReq[r].out) \in Seq(Excel!Event)
    BY <1>1, <1>2, <1>3
  <1>5. PICK read \in SUBSET Excel!Found :
            read = IF event = "complete" THEN excelReq[r].found ELSE excelReq[r].read
    BY <1>2
  <1>6. PICK n : n = Excel!Recorded(event, read)
    OBVIOUS
  <1>7. Excel!Update(n)
    BY <1>3, <1>5, <1>6 DEF Excel!_persist_stream_state
  <1>8. Lives(row) => row.session \/ excelReq[r].out = <<"session_start">>
    BY <1>1 DEF ExcelInv, Fits
  <1>9. Lives(row) => row.session \/ event = "session_start"
    BY <1>3, <1>8
  <1>10. RecordedAs(row, event, n)
    <2>1. row \in Excel!Row /\ event \in Excel!Event /\ read \in SUBSET Excel!Found
      BY <1>1, <1>4
    <2>2. RecordedAs(row, event, Excel!Recorded(event, read))
      BY <2>1, RecordedMade
    <2>3. QED
      BY <1>6, <2>2, Zenon
  <1>11. Promises(row, art, draft, workspace)
    BY DEF ExcelInv
  <1>12. Lives(row) => /\ n \in Excel!Row /\ Lives(n) /\ n.session
                       /\ (row.mapping => n.mapping) /\ (row.session => n.session)
                       /\ Promises(n, art, draft', workspace)
    BY <1>1, <1>9, <1>10, <1>11 DEF Lives, Promises, RecordedAs
  <1>13. Promises(row, art, draft', workspace)
    BY <1>1, <1>11
  <1>14. Lives(row') => row'.session
    BY <1>7, <1>12 DEF Excel!Update, Excel!Exists, Lives
  <1>15. CASE event \in {"question", "complete", "error"}
    <2>1. excelReq' = [excelReq EXCEPT ![r] = Excel!Idle]
      BY <1>3, <1>15 DEF Excel!_persist_stream_state, Excel!Ends
    <2>2. MovesTo(excelReq, excelReq', r, Excel!Idle) /\ Excel!Idle \in Excel!Request
      BY <1>1, <2>1, EndsMade
    <2>3. Fits(Excel!Idle, row', art, workspace) /\ Excel!Idle.pc # "insert"
      BY EndFits DEF Excel!Idle
    <2>4. QED
      BY <1>1, <1>7, <1>12, <1>13, <2>2, <2>3, UpdatedRow
  <1>16. CASE event \notin {"question", "complete", "error"}
    <2> DEFINE q == [[excelReq[r] EXCEPT !.pc = "loop"] EXCEPT !.out = Tail(excelReq[r].out)]
    <2>1. excelReq[r] \in Excel!Request \ {Excel!Idle}
      BY <1>1
    <2>2. q \in Excel!Request /\ q.pc = "loop"
      BY <2>1, <1>4 DEF Excel!Request
    <2>3. excelReq' = [excelReq EXCEPT ![r].pc = "loop", ![r].out = Tail(excelReq[r].out)]
      BY <1>3, <1>16, Zenon DEF Excel!_persist_stream_state
    <2>4. excelReq' = [excelReq EXCEPT ![r] = q]
      BY <2>3, Zenon
    <2> HIDE DEF q
    <2>5. MovesTo(excelReq, excelReq', r, q)
      BY <1>1, <2>2, <2>4 DEF MovesTo
    <2>6. Fits(q, row', art, workspace) /\ q.pc # "insert"
      BY <1>14, <2>2 DEF Fits
    <2>7. QED
      BY <1>1, <1>7, <1>12, <1>13, <2>2, <2>5, <2>6, UpdatedRow
  <1>17. QED
    BY <1>15, <1>16

(* The upload and its row, and the deletion.                               *)
LEMMA KeepsInsertRow ==
    ASSUME ExcelInv, NEW r \in Req, Excel!InsertRow(r)
    PROVE  ExcelInv'
  <1>1. /\ excelReq \in [Req -> Excel!Request] /\ excelReq[r] \in Excel!Request \ {Excel!Idle}
        /\ excelReq[r].pc = "insert" /\ draft \in [Item -> {"none", "active"}]
        /\ art \subseteq Artifacts /\ workspace \subseteq Item /\ UNCHANGED <<art, draft, workspace>>
    BY DEF ExcelInv, ExcelTyped, Excel!InsertRow, Excel!Idle
  <1>2. \A o \in Req \ {r} : excelReq[o] = Excel!Idle
    BY <1>1 DEF ExcelInv, FirstUpload
  <1>3. /\ row' \in Excel!Row /\ row'.status = "uploaded" /\ row'.agent = "pending"
        /\ row' # Excel!NoRow
    BY DEF Excel!InsertRow, Excel!NoRow, Excel!Row
  <1>4. PICK q \in Excel!Request :
            /\ MovesTo(excelReq, excelReq', r, q)
            /\ q.pc = "parsing" \/ (q.pc = "loop" /\ q.out = <<"session_start">>)
    <2>1. CASE excelReq[r].mode = "stream"
      <3> DEFINE q == [[excelReq[r] EXCEPT !.pc = "loop"] EXCEPT !.out = <<"session_start">>]
      <3>1. <<"session_start">> \in Seq(Excel!Event)
        BY DEF Excel!Event
      <3>2. q \in Excel!Request /\ q.pc = "loop" /\ q.out = <<"session_start">>
        BY <1>1, <3>1 DEF Excel!Request
      <3>3. excelReq' = [excelReq EXCEPT ![r] = q]
        BY <2>1, Zenon DEF Excel!InsertRow
      <3> HIDE DEF q
      <3>4. MovesTo(excelReq, excelReq', r, q)
        BY <1>1, <3>2, <3>3 DEF MovesTo
      <3>5. QED
        BY <3>2, <3>4
    <2>2. CASE excelReq[r].mode # "stream"
      <3>1. excelReq[r] # Excel!Idle /\ "parsing" \in Points /\ Excel!Goes(r, "parsing")
        BY <1>1, <2>2 DEF Points, Excel!InsertRow
      <3>2. QED
        BY <3>1, GoesOnTo
    <2>3. QED
      BY <2>1, <2>2
  <1>5. Promises(row', art', draft', workspace')
    BY <1>1, <1>3 DEF ExcelInv, Promises
  <1>6. Fits(q, row', art', workspace') /\ q.pc # "insert"
    BY <1>4 DEF Fits
  <1>7. draft' \in [Item -> {"none", "active"}] /\ art \subseteq art' /\ art' \subseteq Artifacts
        /\ workspace \subseteq workspace' /\ workspace' \subseteq Item /\ excelReq[r] # Excel!Idle
    BY <1>1
  <1>8. QED
    BY <1>2, <1>3, <1>4, <1>5, <1>6, <1>7, ExcelStep

LEMMA KeepsUpload ==
    ASSUME ExcelInv, NEW r \in Req, Excel!start_ingestion(r)
    PROVE  ExcelInv'
  <1>1. PICK mode \in {"llm", "agent", "stream"} : Excel!Starts(r, "insert", mode, {}, <<>>)
    BY DEF Excel!start_ingestion
  <1>2. /\ <<>> \in Seq(Excel!Event) /\ {} \in SUBSET Excel!Found /\ "insert" \in Points
        /\ mode \in {"llm", "agent", "stream", "draft"}
    BY DEF Points
  <1>3. PICK q \in Excel!Request : MovesTo(excelReq, excelReq', r, q) /\ q.pc = "insert"
    BY <1>1, <1>2, StartsMade
  <1>4. /\ row = Excel!NoRow /\ art = {} /\ art' = {"upload"} /\ UNCHANGED <<row, draft, workspace>>
    BY DEF Excel!start_ingestion
  <1>5. \A o \in Req : excelReq[o] = Excel!Idle
    BY <1>4 DEF ExcelInv, FirstUpload
  <1>6. /\ excelReq' \in [Req -> Excel!Request] /\ excelReq'[r] = q
        /\ \A o \in Req \ {r} : excelReq'[o] = Excel!Idle
    BY <1>3, <1>5 DEF MovesTo
  <1>7. ExcelTyped'
    BY <1>4, <1>6 DEF ExcelInv, ExcelTyped, Artifacts
  <1>8. Promises(row', art', draft', workspace')
    <2>1. Promises(row, art, draft, workspace)
      BY DEF ExcelInv
    <2>2. QED
      BY <1>4, <2>1 DEF Promises
  <1>9. FirstUpload'
    BY <1>3, <1>4, <1>6 DEF FirstUpload, Excel!Idle
  <1>10. Fits(q, row', art', workspace')
    BY <1>3 DEF Fits
  <1>11. \A o \in Req : Fits(excelReq'[o], row', art', workspace')
    BY <1>6, <1>10, EndFits
  <1>12. QED
    BY <1>7, <1>8, <1>9, <1>11 DEF ExcelInv

LEMMA KeepsDelete ==
    ASSUME ExcelInv, Excel!delete_ingestion
    PROVE  ExcelInv'
  <1>1. /\ Lives(row) /\ row' = [Excel!NoRow EXCEPT !.status = "deleted"]
        /\ UNCHANGED <<art, draft, workspace, excelReq>>
    BY DEF Excel!delete_ingestion, Excel!Exists, Lives
  <1>2. /\ row' \in Excel!Row /\ row'.status = "deleted" /\ row'.agent = "pending"
        /\ row' # Excel!NoRow /\ row # Excel!NoRow
    <2>1. row' \in Excel!Row /\ row'.status = "deleted" /\ row'.agent = "pending"
      BY <1>1 DEF Excel!NoRow, Excel!Row
    <2>2. Excel!NoRow.status = "none"
      BY DEF Excel!NoRow
    <2>3. QED
      BY <1>1, <2>1, <2>2 DEF Lives
  <1>3. Promises(row, art, draft, workspace) /\ FirstUpload /\ ExcelTyped
    BY DEF ExcelInv
  <1>4. Promises(row', art', draft', workspace')
    BY <1>1, <1>2, <1>3 DEF Promises
  <1>5. ExcelTyped'
    BY <1>1, <1>2, <1>3 DEF ExcelTyped
  <1>6. FirstUpload'
    BY <1>1, <1>2, <1>3 DEF FirstUpload
  <1>7. Kept(row, row')
    BY <1>2 DEF Kept, Lives
  <1>8. \A o \in Req : Fits(excelReq'[o], row', art', workspace')
    BY <1>1, <1>7, FitsLater DEF ExcelInv
  <1>9. QED
    BY <1>4, <1>5, <1>6, <1>8 DEF ExcelInv
-----------------------------------------------------------------------------
LEMMA ExcelStarts == Excel!Init => ExcelInv
  <1> SUFFICES ASSUME Excel!Init PROVE ExcelInv
    OBVIOUS
  <1>1. /\ row = Excel!NoRow /\ art = {} /\ draft = [d \in Item |-> "none"] /\ workspace = {}
        /\ excelReq = [r \in Req |-> Excel!Idle]
    BY DEF Excel!Init
  <1>2. ExcelTyped
    BY <1>1 DEF ExcelTyped, Excel!NoRow, Excel!Row, Excel!Request
  <1>3. Promises(row, art, draft, workspace)
    BY <1>1 DEF Promises, Excel!NoRow
  <1>4. FirstUpload
    BY <1>1 DEF FirstUpload, Excel!Idle
  <1>5. \A r \in Req : Fits(excelReq[r], row, art, workspace)
    BY <1>1, EndFits
  <1>6. QED
    BY <1>2, <1>3, <1>4, <1>5 DEF ExcelInv

LEMMA ExcelKeeps == ExcelInv /\ [Excel!Next]_excelVars => ExcelInv'
  <1> SUFFICES ASSUME ExcelInv, [Excel!Next]_excelVars PROVE ExcelInv'
    OBVIOUS
  <1>1. CASE UNCHANGED excelVars
    BY <1>1 DEF excelVars, ExcelInv, ExcelTyped, FirstUpload
  <1>2. CASE Excel!Next
    BY <1>2, KeepsDelete, KeepsUpload, KeepsInsertRow, KeepsMark, KeepsStored, KeepsMapped, KeepsFailed,
       KeepsStarts, KeepsSaveWorkspace, KeepsCreateDraft, KeepsAgentTurn, KeepsAgentEnds, KeepsReadState,
       KeepsPersist
       DEF Excel!Next
  <1>3. QED
    BY <1>1, <1>2

LEMMA ExcelInvSuffices == ExcelInv => Excel!RowKeepsPromises
  BY DEF ExcelInv, Promises, Excel!RowKeepsPromises

(* Whatever overlaps and wherever it stops, the row of an ingestion keeps  *)
(* its promises: a mapping behind the status that lets a draft be made, a  *)
(* stored workspace behind every draft, a question and a session behind a  *)
(* pause (routers/excel_ingestion.py, services/excel_ingestion.py).        *)
THEOREM RowAlwaysKeepsPromises == AllSpec => []RowKeepsPromises
  <1>1. AllInit => ExcelInv
    BY ExcelStarts DEF AllInit
  <1>2. [AllNext]_allVars => [Excel!Next]_excelVars
    BY DEF AllNext, allVars
  <1>3. ExcelInv /\ [Excel!Next]_excelVars => ExcelInv'
    BY ExcelKeeps
  <1>4. ExcelInv => RowKeepsPromises
    BY ExcelInvSuffices DEF RowKeepsPromises
  <1>5. QED
    BY <1>1, <1>2, <1>3, <1>4, PTL DEF AllSpec
-----------------------------------------------------------------------------
(* The figures of a budget.                                                *)

AmountOrNone == Int \cup {None}
LineId == (Nat \X Nat) \cup (Nat \X Nat \X Nat)
BudgetLine == [id : LineId, account : Item, amounts : [Period -> AmountOrNone]]
KnownLine == [id : LineId, account : Item]
CopiedLine == [account : Item, amounts : [Period -> AmountOrNone]]

(* What a reforecast has read: the lines at first, then their amounts with *)
(* the sums of the actuals in the periods that had any, which are the sums *)
(* still, but for what was imported since.                                 *)
LinesRead == reforecast.rows \in Seq(KnownLine)
LinesCopied == reforecast.rows \in Seq(CopiedLine)
SumsHeld ==
    \A i \in DOMAIN reforecast.rows, per \in reforecast.periods :
        <<per, reforecast.rows[i].account>> \notin imported =>
            reforecast.rows[i].amounts[per] = Figures!Actual(per, reforecast.rows[i].account)
Underway ==
    /\ reforecast.periods \subseteq Period
    /\ reforecast.pc = "read" => LinesRead
    /\ reforecast.pc = "model" => LinesCopied /\ SumsHeld

FiguresInv ==
    /\ lines \in Seq(BudgetLine)
    /\ actuals \in [Figures!Key -> AnyAmount \cup {None}]
    /\ version \in Nat \ {0} /\ budgetEdits \in Nat
    /\ Underway

LEMMA FiguresSum == \A f : Figures!SumFunction(f) = SumFunctionOnSet(f, DOMAIN f)
  BY DEF Figures!SumFunction, Figures!SumFunctionOnSet, Figures!FoldFunctionOnSet, Figures!MapThenFoldSet,
         SumFunctionOnSet, FoldFunctionOnSet, MapThenFoldSet

LEMMA ValueIsNumber == \A a \in AmountOrNone : Figures!Value(a) \in Int
  BY DEF Figures!Value, AmountOrNone

(* What is posted to an account is a number, zero if there is nothing.     *)
LEMMA ActualIsNumber ==
    ASSUME actuals \in [Figures!Key -> AnyAmount \cup {None}], NEW per \in Period, NEW a \in Item
    PROVE  /\ Figures!Actual(per, a) \in Int
           /\ ~Figures!HasActual(per, a) => Figures!Actual(per, a) = 0
  <1> DEFINE f == [d \in Department |-> Figures!Value(actuals[<<per, a, d>>])]
  <1>1. Figures!Actual(per, a) = SumFunctionOnSet(f, Department)
    <2>1. Figures!Actual(per, a) = Figures!SumFunction(f)
      BY DEF Figures!Actual
    <2>2. DOMAIN f = Department
      OBVIOUS
    <2> HIDE DEF f
    <2>3. QED
      BY <2>1, <2>2, FiguresSum
  <1>2. \A d \in Department : actuals[<<per, a, d>>] \in AmountOrNone
    BY FigureConstants DEF Figures!Key, AmountOrNone
  <1>3. Numbers(f, Department)
    BY <1>2, ValueIsNumber DEF Numbers
  <1>4. ~Figures!HasActual(per, a) => \A d \in Department : f[d] = 0
    BY DEF Figures!HasActual, Figures!Value
  <1>5. IsFiniteSet(Department)
    BY FigureConstants
  <1> HIDE DEF f
  <1>6. QED
    BY <1>1, <1>3, <1>4, <1>5, SumTyped, SumOfZeros

LEMMA NothingUnderway == reforecast' = Figures!Resting => Underway'
  BY DEF Figures!Resting, Underway

LEMMA FiguresStart == Figures!Init => FiguresInv
  <1> SUFFICES ASSUME Figures!Init PROVE FiguresInv
    OBVIOUS
  <1>1. Underway
    BY DEF Figures!Init, Figures!Resting, Underway
  <1>2. QED
    BY <1>1 DEF Figures!Init, FiguresInv

(* What is under way stays so when it and the actuals are left alone.      *)
LEMMA StaysUnderway ==
    ASSUME Underway, UNCHANGED <<actuals, reforecast, imported>>
    PROVE  Underway'
  <1>1. \A per, a : Figures!Actual(per, a)' = Figures!Actual(per, a)
    BY DEF Figures!Actual
  <1>2. SumsHeld' <=> SumsHeld
    BY <1>1 DEF SumsHeld
  <1>3. (LinesRead' <=> LinesRead) /\ (LinesCopied' <=> LinesCopied)
    BY DEF LinesRead, LinesCopied
  <1>4. QED
    BY <1>2, <1>3 DEF Underway

LEMMA KeepsLines ==
    ASSUME FiguresInv, Figures!add_line_item \/ \E i \in DOMAIN lines : Figures!update_line_item(i) \/ Figures!remove_line_item(i)
    PROVE  FiguresInv'
  <1>1. /\ version' = version /\ actuals' = actuals /\ budgetEdits' = budgetEdits + 1
        /\ UNCHANGED <<actuals, reforecast, imported>>
    BY DEF Figures!add_line_item, Figures!update_line_item, Figures!remove_line_item, Figures!Edit
  <1>2. Underway' /\ budgetEdits' \in Nat
    BY <1>1, StaysUnderway DEF FiguresInv
  <1>3. CASE Figures!add_line_item
    <2>1. PICK new \in Figures!Line(<<budgetEdits', 1>>) : lines' = Append(lines, new)
      BY <1>3 DEF Figures!add_line_item
    <2>2. new \in BudgetLine
      BY <1>2, FigureConstants DEF Figures!Line, BudgetLine, LineId, AmountOrNone
    <2>3. lines' \in Seq(BudgetLine)
      BY <2>1, <2>2 DEF FiguresInv
    <2>4. QED
      BY <1>1, <1>2, <2>3 DEF FiguresInv
  <1>4. ASSUME NEW i \in DOMAIN lines, Figures!update_line_item(i) PROVE FiguresInv'
    <2>1. lines[i] \in BudgetLine
      BY DEF FiguresInv
    <2>2. \E new \in BudgetLine : lines' = [lines EXCEPT ![i] = new]
      <3>1. PICK per \in Period, a \in Amount : lines' = [lines EXCEPT ![i].amounts[per] = a]
        BY <1>4 DEF Figures!update_line_item
      <3>2. a \in AmountOrNone
        BY FigureConstants DEF AmountOrNone
      <3>3. PICK m : m = [lines[i].amounts EXCEPT ![per] = a]
        OBVIOUS
      <3>4. m \in [Period -> AmountOrNone]
        BY <2>1, <3>2, <3>3 DEF BudgetLine
      <3>5. lines' = [lines EXCEPT ![i] = [lines[i] EXCEPT !.amounts = m]]
        BY <3>1, <3>3
      <3>6. [lines[i] EXCEPT !.amounts = m] \in BudgetLine
        BY <2>1, <3>4 DEF BudgetLine
      <3>7. QED
        BY <3>5, <3>6
    <2>3. lines' \in Seq(BudgetLine)
      BY <2>2 DEF FiguresInv
    <2>4. QED
      BY <1>1, <1>2, <2>3 DEF FiguresInv
  <1>5. ASSUME NEW i \in DOMAIN lines, Figures!remove_line_item(i) PROVE FiguresInv'
    <2>1. lines' = SubSeq(lines, 1, i - 1) \o SubSeq(lines, i + 1, Len(lines))
      BY <1>5 DEF Figures!remove_line_item, Figures!RemoveAt
    <2>2. i \in 1..Len(lines)
      BY DEF FiguresInv
    <2>3. SubSeq(lines, 1, i - 1) \in Seq(BudgetLine) /\ SubSeq(lines, i + 1, Len(lines)) \in Seq(BudgetLine)
      BY <2>2 DEF FiguresInv
    <2>4. lines' \in Seq(BudgetLine)
      BY <2>1, <2>3
    <2>5. QED
      BY <1>1, <1>2, <2>4 DEF FiguresInv
  <1>6. QED
    BY <1>3, <1>4, <1>5

(* An import leaves the sums of what it does not name, and is noted while  *)
(* the model is asked.                                                     *)
LEMMA ImportIsNoted ==
    ASSUME FiguresInv, Figures!import_actuals
    PROVE  FiguresInv'
  <1>1. PICK k \in Figures!Key, amount \in AnyAmount :
            /\ actuals' = [actuals EXCEPT ![k] = amount]
            /\ imported' = IF reforecast.pc = "model" THEN imported \cup {<<k[1], k[2]>>} ELSE imported
    BY DEF Figures!import_actuals
  <1>2. /\ lines' = lines /\ version' = version /\ reforecast' = reforecast
        /\ budgetEdits' = budgetEdits + 1
    BY DEF Figures!import_actuals, Figures!Edit
  <1>3. actuals' \in [Figures!Key -> AnyAmount \cup {None}]
    BY <1>1 DEF FiguresInv
  <1>4. ASSUME NEW per \in Period, NEW a \in Item, <<per, a>> # <<k[1], k[2]>>
        PROVE  Figures!Actual(per, a)' = Figures!Actual(per, a)
    <2>1. \A d \in Department : actuals'[<<per, a, d>>] = actuals[<<per, a, d>>]
      <3> TAKE d \in Department
      <3>1. <<per, a, d>> \in Figures!Key /\ <<per, a, d>> # k
        BY <1>4 DEF Figures!Key
      <3>2. QED
        BY <1>1, <3>1 DEF FiguresInv
    <2>2. [d \in Department |-> Figures!Value(actuals'[<<per, a, d>>])]
            = [d \in Department |-> Figures!Value(actuals[<<per, a, d>>])]
      BY <2>1
    <2>3. QED
      BY <2>2 DEF Figures!Actual
  <1>5. ASSUME reforecast.pc = "model", LinesCopied, SumsHeld
        PROVE  SumsHeld'
    <2> SUFFICES ASSUME NEW i \in DOMAIN reforecast.rows, NEW per \in reforecast.periods,
                        <<per, reforecast.rows[i].account>> \notin imported'
                 PROVE  reforecast.rows[i].amounts[per] = Figures!Actual(per, reforecast.rows[i].account)'
      BY <1>2 DEF SumsHeld
    <2>0. reforecast.rows[i] \in CopiedLine
      BY <1>5 DEF LinesCopied
    <2>1. PICK a \in Item : a = reforecast.rows[i].account
      BY <2>0 DEF CopiedLine
    <2>2. <<per, a>> \notin imported /\ <<per, a>> # <<k[1], k[2]>>
      BY <1>1, <1>5, <2>1
    <2>3. per \in Period
      BY DEF FiguresInv, Underway
    <2>4. Figures!Actual(per, a)' = Figures!Actual(per, a)
      BY <1>4, <2>2, <2>3
    <2>5. reforecast.rows[i].amounts[per] = Figures!Actual(per, a)
      BY <1>5, <2>1, <2>2 DEF SumsHeld
    <2>6. reforecast.rows[i].account' = a
      BY <1>2, <2>1
    <2>7. QED
      BY <2>1, <2>4, <2>5, <2>6
  <1>6. (LinesRead' <=> LinesRead) /\ (LinesCopied' <=> LinesCopied)
    BY <1>2 DEF LinesRead, LinesCopied
  <1>7. Underway'
    BY <1>2, <1>5, <1>6 DEF FiguresInv, Underway
  <1>8. QED
    BY <1>2, <1>3, <1>7 DEF FiguresInv

LEMMA KeepsWrites ==
    ASSUME FiguresInv,
           \/ Figures!set_department_allocations \/ Figures!import_actuals \/ Figures!clone_budget
           \/ Figures!create_budget_from_template_impl \/ UNCHANGED budgetVars
    PROVE  FiguresInv'
  <1>1. CASE Figures!set_department_allocations
    <2>1. /\ UNCHANGED <<lines, actuals, version, reforecast, imported>> /\ budgetEdits' = budgetEdits + 1
          /\ UNCHANGED <<actuals, reforecast, imported>>
      BY <1>1 DEF Figures!set_department_allocations, Figures!Edit
    <2>2. Underway'
      BY <2>1, StaysUnderway DEF FiguresInv
    <2>3. QED
      BY <2>1, <2>2 DEF FiguresInv
  <1>2. CASE Figures!import_actuals
    BY <1>2, ImportIsNoted
  <1>3. CASE Figures!clone_budget
    <2>1. Underway'
      BY <1>3, NothingUnderway DEF Figures!clone_budget
    <2>2. QED
      BY <1>3, <2>1 DEF Figures!clone_budget, Figures!Edit, FiguresInv
  <1>4. CASE Figures!create_budget_from_template_impl
    <2>0. budgetEdits' \in Nat /\ Underway'
      BY <1>4, NothingUnderway DEF Figures!create_budget_from_template_impl, Figures!Edit, FiguresInv
    <2>1. PICK a, b \in Item, x, y \in AnyAmount :
            lines' = <<[id |-> <<budgetEdits', 1>>, account |-> a, amounts |-> [per \in Period |-> x]],
                       [id |-> <<budgetEdits', 2>>, account |-> b, amounts |-> [per \in Period |-> y]]>>
      BY <1>4 DEF Figures!create_budget_from_template_impl
    <2>2. x \in AmountOrNone /\ y \in AmountOrNone
      BY FigureConstants DEF AmountOrNone
    <2>3. lines' \in Seq(BudgetLine)
      BY <2>0, <2>1, <2>2 DEF BudgetLine, LineId
    <2>4. QED
      BY <1>4, <2>0, <2>3 DEF Figures!create_budget_from_template_impl, FiguresInv
  <1>5. CASE UNCHANGED budgetVars
    <2>1. Underway'
      BY <1>5, StaysUnderway DEF budgetVars, FiguresInv
    <2>2. QED
      BY <1>5, <2>1 DEF budgetVars, FiguresInv
  <1>6. QED
    BY <1>1, <1>2, <1>3, <1>4, <1>5

(* A reforecast begins: it knows the lines.                                *)
LEMMA ReforecastBegins ==
    ASSUME FiguresInv, Figures!reforecast_budget
    PROVE  FiguresInv'
  <1>1. /\ UNCHANGED <<lines, actuals, version, budgetEdits>>
        /\ reforecast'.pc = "read" /\ reforecast'.periods = Figures!periods_with_actuals
        /\ reforecast'.rows = [i \in DOMAIN lines |-> [id |-> lines[i].id, account |-> lines[i].account]]
    BY DEF Figures!reforecast_budget
  <1>2. LinesRead'
    <2>1. PICK n \in Nat : DOMAIN lines = 1..n
      BY DEF FiguresInv
    <2>2. \A i \in 1..n : lines[i].id \in LineId /\ lines[i].account \in Item
      <3>1. \A i \in 1..n : lines[i] \in BudgetLine
        BY <2>1 DEF FiguresInv
      <3>2. QED
        BY <3>1 DEF BudgetLine
    <2>3. reforecast'.rows \in [1..n -> KnownLine]
      BY <1>1, <2>1, <2>2 DEF KnownLine
    <2>4. QED
      BY <2>3 DEF LinesRead
  <1>3. Underway'
    BY <1>1, <1>2 DEF Underway, Figures!periods_with_actuals
  <1>4. QED
    BY <1>1, <1>3 DEF FiguresInv

(* It reads amounts and actuals: in the periods that had any each line has *)
(* what is posted to its account.                                          *)
LEMMA ReforecastReads ==
    ASSUME FiguresInv, Figures!ReadAmounts
    PROVE  FiguresInv'
  <1> DEFINE rows == reforecast.rows
             copy == [i \in DOMAIN rows |->
                        Figures!Locked(rows[i].account, reforecast.periods, Figures!AmountsNow(rows[i].id))]
  <1>1. /\ UNCHANGED <<lines, actuals, version, budgetEdits>>
        /\ reforecast.pc = "read"
        /\ reforecast'.pc = "model" /\ reforecast'.periods = reforecast.periods /\ reforecast'.rows = copy
    BY DEF Figures!ReadAmounts
  <1>2. PICK n \in Nat : DOMAIN rows = 1..n /\ \A i \in 1..n : rows[i].account \in Item
    <2>1. rows \in Seq(KnownLine)
      BY <1>1 DEF FiguresInv, Underway, LinesRead
    <2>2. PICK n \in Nat : DOMAIN rows = 1..n /\ \A i \in 1..n : rows[i] \in KnownLine
      BY <2>1
    <2>3. QED
      BY <2>2 DEF KnownLine
  <1>3. ASSUME NEW i \in 1..n
        PROVE  /\ copy[i] \in CopiedLine /\ copy[i].account = rows[i].account
               /\ \A per \in reforecast.periods : copy[i].amounts[per] = Figures!Actual(per, rows[i].account)
    <2>1. PICK a \in Item : a = rows[i].account
      BY <1>2
    <2>2. PICK now : now = Figures!AmountsNow(rows[i].id)
      OBVIOUS
    <2> DEFINE m == [per \in Period |-> IF per \in reforecast.periods THEN Figures!Actual(per, a) ELSE now[per]]
    <2>3. copy[i] = [account |-> a, amounts |-> m]
      BY <1>2, <2>1, <2>2 DEF Figures!Locked
    <2>4. \A per \in Period : now[per] \in AmountOrNone
      <3> TAKE per \in Period
      <3> DEFINE same == {j \in DOMAIN lines : lines[j].id = rows[i].id}
                 j == CHOOSE j \in same : TRUE
      <3>1. now[per] = IF same = {} THEN None ELSE lines[j].amounts[per]
        BY <2>2 DEF Figures!AmountsNow
      <3>2. same # {} => j \in DOMAIN lines
        OBVIOUS
      <3> HIDE DEF same, j
      <3>3. same # {} => lines[j].amounts[per] \in AmountOrNone
        <4>1. same # {} => lines[j] \in BudgetLine
          BY <3>2 DEF FiguresInv
        <4>2. QED
          BY <4>1 DEF BudgetLine
      <3>4. QED
        BY <3>1, <3>3 DEF AmountOrNone
    <2>5. \A per \in Period : Figures!Actual(per, a) \in AmountOrNone
      BY ActualIsNumber DEF FiguresInv, AmountOrNone
    <2>6. m \in [Period -> AmountOrNone]
      BY <2>4, <2>5
    <2>7. \A per \in reforecast.periods : m[per] = Figures!Actual(per, a)
      BY DEF FiguresInv, Underway
    <2> HIDE DEF m, copy
    <2>8. QED
      BY <2>1, <2>3, <2>6, <2>7 DEF CopiedLine
  <1>4. DOMAIN copy = 1..n
    BY <1>2
  <1> HIDE DEF copy
  <1>5. LinesCopied'
    <2>1. copy \in [1..n -> CopiedLine]
      <3>1. copy = [i \in 1..n |-> copy[i]]
        BY <1>4 DEF copy
      <3>2. QED
        BY <1>3, <3>1
    <2>2. QED
      BY <1>1, <2>1 DEF LinesCopied
  <1>6. SumsHeld'
    <2>1. \A per, a : Figures!Actual(per, a)' = Figures!Actual(per, a)
      BY <1>1 DEF Figures!Actual
    <2>2. \A i \in 1..n, per \in reforecast.periods : copy[i].amounts[per] = Figures!Actual(per, copy[i].account)
      BY <1>3
    <2>3. QED
      BY <1>1, <1>4, <2>1, <2>2 DEF SumsHeld
  <1>7. Underway'
    BY <1>1, <1>5, <1>6 DEF FiguresInv, Underway
  <1>8. QED
    BY <1>1, <1>7 DEF FiguresInv

(* It is written: each line has what it had in the copy, but where the     *)
(* model has revised it.                                                   *)
LEMMA ReforecastWrites ==
    ASSUME FiguresInv, Figures!CommitReforecast
    PROVE  /\ lines' \in Seq(BudgetLine) /\ DOMAIN lines' = DOMAIN reforecast.rows
           /\ actuals' = actuals /\ version' = version + 1 /\ budgetEdits' = budgetEdits
           /\ reforecast' = Figures!Resting /\ LinesCopied /\ SumsHeld
           /\ \A i \in DOMAIN lines' :
                 /\ lines'[i].account = reforecast.rows[i].account
                 /\ \A per \in reforecast.periods : lines'[i].amounts[per] = reforecast.rows[i].amounts[per]
  <1> DEFINE rows == reforecast.rows
             periods == reforecast.periods
  <1>1. LinesCopied /\ SumsHeld /\ periods \subseteq Period
    BY DEF Figures!CommitReforecast, FiguresInv, Underway
  <1>2. PICK n \in Nat : DOMAIN rows = 1..n /\ \A i \in 1..n : rows[i] \in CopiedLine
    BY <1>1 DEF LinesCopied
  <1>3. PICK revised \in [Figures!AccountsAsked -> AnyAmount \cup {None}] :
            lines' = [i \in DOMAIN rows |->
                [id |-> <<0, version, i>>, account |-> rows[i].account,
                 amounts |-> Figures!Revised(rows[i].amounts, periods, revised[rows[i].account])]]
    BY DEF Figures!CommitReforecast
  <1>4. /\ actuals' = actuals /\ version' = version + 1 /\ budgetEdits' = budgetEdits
        /\ reforecast' = Figures!Resting /\ version \in Nat
    BY DEF Figures!CommitReforecast, FiguresInv
  <1>5. ASSUME NEW i \in 1..n
        PROVE  /\ lines'[i] \in BudgetLine /\ lines'[i].account = rows[i].account
               /\ \A per \in periods : lines'[i].amounts[per] = rows[i].amounts[per]
    <2>1. PICK a \in Item, old \in [Period -> AmountOrNone] : a = rows[i].account /\ old = rows[i].amounts
      BY <1>2 DEF CopiedLine
    <2>2. PICK said \in AmountOrNone : said = revised[a]
      <3>1. a \in Figures!AccountsAsked
        BY <1>2, <2>1 DEF Figures!AccountsAsked
      <3>2. QED
        BY <3>1, FigureConstants DEF AmountOrNone
    <2> DEFINE m == [per \in Period |-> IF per \in periods \/ old[per] = None \/ said = None THEN old[per] ELSE said]
    <2>3. lines'[i] = [id |-> <<0, version, i>>, account |-> a, amounts |-> m]
      <3>1. lines'[i] = [id |-> <<0, version, i>>, account |-> a, amounts |-> Figures!Revised(old, periods, said)]
        BY <1>2, <1>3, <2>1, <2>2
      <3>2. Figures!Revised(old, periods, said) = m
        BY DEF Figures!Revised
      <3>3. QED
        BY <3>1, <3>2
    <2>4. m \in [Period -> AmountOrNone]
      BY <2>1, <2>2
    <2>5. \A per \in periods : m[per] = old[per]
      BY <1>1
    <2> HIDE DEF m
    <2>6. <<0, version, i>> \in LineId
      BY <1>4 DEF LineId
    <2>7. lines'[i] \in BudgetLine /\ lines'[i].account = a /\ lines'[i].amounts = m
      BY <2>3, <2>4, <2>6 DEF BudgetLine
    <2>8. QED
      BY <2>1, <2>5, <2>7
  <1>6. DOMAIN lines' = 1..n /\ lines' \in Seq(BudgetLine)
    <2>1. lines' = [i \in 1..n |-> lines'[i]]
      BY <1>2, <1>3
    <2>2. lines' \in [1..n -> BudgetLine]
      BY <1>5, <2>1
    <2>3. QED
      BY <2>2
  <1>7. QED
    BY <1>1, <1>2, <1>4, <1>5, <1>6

LEMMA FiguresKeep == FiguresInv /\ [Figures!Next]_budgetVars => FiguresInv'
  <1> SUFFICES ASSUME FiguresInv, [Figures!Next]_budgetVars PROVE FiguresInv'
    OBVIOUS
  <1>1. CASE Figures!CommitReforecast
    <2>1. Underway'
      BY <1>1, ReforecastWrites, NothingUnderway
    <2>2. version' \in Nat \ {0} /\ budgetEdits' \in Nat
      BY <1>1, ReforecastWrites DEF FiguresInv
    <2>3. lines' \in Seq(BudgetLine) /\ actuals' = actuals
      BY <1>1, ReforecastWrites
    <2>4. QED
      BY <2>1, <2>2, <2>3 DEF FiguresInv
  <1>2. CASE Figures!ModelFails
    <2>1. Underway'
      BY <1>2, NothingUnderway DEF Figures!ModelFails
    <2>2. QED
      BY <1>2, <2>1 DEF Figures!ModelFails, FiguresInv
  <1>3. QED
    BY <1>1, <1>2, KeepsLines, KeepsWrites, ReforecastBegins, ReforecastReads DEF Figures!Next

(* Only a reforecast makes a version that is later.                        *)
LEMMA OnlyReforecasts ==
    ASSUME FiguresInv, [Figures!Next]_budgetVars, version' > version
    PROVE  Figures!CommitReforecast
  <1>1. version \in Nat \ {0}
    BY DEF FiguresInv
  <1>2. CASE version' = version
    BY <1>1, <1>2
  <1>3. CASE version' = 1
    BY <1>1, <1>3
  <1>4. QED
    BY <1>2, <1>3 DEF Figures!Next, budgetVars, Figures!add_line_item, Figures!update_line_item,
       Figures!remove_line_item, Figures!set_department_allocations, Figures!import_actuals,
       Figures!reforecast_budget, Figures!ReadAmounts, Figures!ModelFails,
       Figures!clone_budget, Figures!create_budget_from_template_impl

LinesLocked ==
    \A v \in Figures!get_budget_variance(5)' :
        v.period \in reforecast.periods /\ <<v.period, v.account>> \notin imported => ~Figures!Differs(v)'

LEMMA ReforecastLocks ==
    ASSUME FiguresInv, Figures!CommitReforecast
    PROVE  LinesLocked
  <1> SUFFICES ASSUME NEW v \in Figures!get_budget_variance(5)', v.period \in reforecast.periods,
                      <<v.period, v.account>> \notin imported,
                      \E i \in DOMAIN lines' : lines'[i].account = v.account
               PROVE  v.budget = v.actual
    BY DEF LinesLocked, Figures!Differs
  <1>1. PICK x \in Item \X Period : v = [account |-> x[1], period |-> x[2],
            budget |-> Figures!BudgetOf(x[1], x[2])', actual |-> Figures!Actual(x[2], x[1])',
            material |-> Figures!Material(Figures!BudgetOf(x[1], x[2]), Figures!Actual(x[2], x[1]), 5)']
    BY DEF Figures!get_budget_variance
  <1>2. PICK a \in Item, per \in Period : x[1] = a /\ x[2] = per
    BY <1>1
  <1>3. /\ v.account = a /\ v.period = per /\ v.budget = Figures!BudgetOf(a, per)'
        /\ v.actual = Figures!Actual(per, a)'
    BY <1>1, <1>2
  <1>4. Figures!Actual(per, a)' = Figures!Actual(per, a) /\ Figures!Actual(per, a) \in Int
    <2>1. actuals' = actuals
      BY ReforecastWrites
    <2>2. Figures!Actual(per, a)' = Figures!Actual(per, a)
      BY <2>1 DEF Figures!Actual
    <2>3. QED
      BY <2>2, ActualIsNumber DEF FiguresInv
  <1>5. PICK K : K = Figures!Kept(a, per)'
    OBVIOUS
  <1>6. PICK n \in Nat : DOMAIN lines' = 1..n
    BY ReforecastWrites
  <1>7. \A j \in 1..n : lines'[j].account = a => lines'[j].amounts[per] = Figures!Actual(per, a)
    <2> SUFFICES ASSUME NEW j \in 1..n, lines'[j].account = a
                 PROVE  lines'[j].amounts[per] = Figures!Actual(per, a)
      OBVIOUS
    <2>1. j \in DOMAIN reforecast.rows /\ reforecast.rows[j].account = a
      BY <1>6, ReforecastWrites
    <2>2. lines'[j].amounts[per] = reforecast.rows[j].amounts[per]
      BY <1>3, <1>6, ReforecastWrites
    <2>3. reforecast.rows[j].amounts[per] = Figures!Actual(per, a)
      BY <1>3, <2>1, ReforecastWrites DEF SumsHeld
    <2>4. QED
      BY <2>2, <2>3
  <1>8. /\ K \subseteq 1..n /\ \A j \in K : lines'[j].amounts[per] = Figures!Actual(per, a)
        /\ \A j \in 1..n : lines'[j].account = a => j \in K
    <2>1. K = {j \in DOMAIN lines' : lines'[j].account = a /\ lines'[j].amounts[per] # None}
      BY <1>5 DEF Figures!Kept
    <2>2. Figures!Actual(per, a) # None
      BY <1>4, FigureConstants
    <2>3. QED
      BY <1>6, <1>7, <2>1, <2>2
  <1>9. K # {}
    BY <1>3, <1>6, <1>8
  <1>10. PICK m \in K : m = CHOOSE i \in K : \A j \in K : j <= i
    <2>1. \E m \in K : \A j \in K : j <= m
      BY <1>8, <1>9, GreatestExists
    <2>2. QED
      BY <2>1
  <1>11. Figures!BudgetOf(a, per)' = lines'[m].amounts[per]
    <2>1. Figures!BudgetOf(a, per)' = lines'[CHOOSE i \in K : \A j \in K : j <= i].amounts[per]
      BY <1>5, <1>9, Zenon DEF Figures!BudgetOf
    <2>2. QED
      BY <1>10, <2>1
  <1>12. QED
    BY <1>3, <1>4, <1>8, <1>11

(* analytics.py:482: a reforecast locks the actuals it has read.  In a     *)
(* period that had any when it began, no account with a line in the new    *)
(* version shows a variance, whatever was edited, removed or imported      *)
(* before, also amounts below zero, and whatever the model proposed; only  *)
(* what is imported while the model is asked is left out of the sums.      *)
THEOREM ActualsAlwaysLocked == AllSpec => ActualsLocked
  <1>1. AllInit => FiguresInv
    BY FiguresStart DEF AllInit
  <1>2. [AllNext]_allVars => [Figures!Next]_budgetVars
    BY DEF AllNext, allVars
  <1>3. FiguresInv /\ [Figures!Next]_budgetVars => [version' > version => LinesLocked]_(Figures!vars)
    BY OnlyReforecasts, ReforecastLocks
  <1>4. (version' > version => LinesLocked) <=>
        (version' > version => \A v \in Figures!get_budget_variance(5)' :
            v.period \in reforecast.periods /\ <<v.period, v.account>> \notin imported => ~Figures!Differs(v)')
    BY DEF LinesLocked
  <1>5. QED
    BY <1>1, <1>2, <1>3, <1>4, FiguresKeep, PTL DEF AllSpec, ActualsLocked, Figures!ActualsLocked
-----------------------------------------------------------------------------
(* The views of a budget's figures.                                        *)

VarianceOf(a, per) ==
    [account |-> a, period |-> per, budget |-> Figures!BudgetOf(a, per), actual |-> Figures!Actual(per, a),
     material |-> Figures!Material(Figures!BudgetOf(a, per), Figures!Actual(per, a), 5)]
VariancesIn(per) == {v \in Figures!get_budget_variance(5) : v.period = per}
Viewed(per) == {a \in Item : Figures!InView(a, per)}

LEMMA LinesHaveAmounts ==
    ASSUME FiguresInv, NEW i \in DOMAIN lines
    PROVE  lines[i].account \in Item /\ \A per \in Period : lines[i].amounts[per] \in AmountOrNone
  <1>1. lines[i] \in BudgetLine
    BY DEF FiguresInv
  <1>2. QED
    BY <1>1 DEF BudgetLine

LEMMA VariancesAre ==
    ASSUME NEW per \in Period
    PROVE  /\ \A a \in Viewed(per) : VarianceOf(a, per) \in VariancesIn(per)
           /\ \A v \in VariancesIn(per) : \E a \in Viewed(per) : v = VarianceOf(a, per)
           /\ IsFiniteSet(VariancesIn(per)) /\ IsFiniteSet(Viewed(per))
  <1>1. ASSUME NEW a \in Viewed(per) PROVE VarianceOf(a, per) \in VariancesIn(per)
    <2>1. <<a, per>> \in {y \in Item \X Period : Figures!InView(y[1], y[2])}
      BY DEF Viewed
    <2>2. VarianceOf(a, per) \in Figures!get_budget_variance(5)
      BY <2>1 DEF VarianceOf, Figures!get_budget_variance
    <2>3. QED
      BY <2>2 DEF VariancesIn, VarianceOf
  <1>2. ASSUME NEW v \in VariancesIn(per) PROVE \E a \in Viewed(per) : v = VarianceOf(a, per)
    <2>1. PICK x \in Item \X Period :
            /\ Figures!InView(x[1], x[2])
            /\ v = VarianceOf(x[1], x[2])
      BY DEF VariancesIn, VarianceOf, Figures!get_budget_variance
    <2>2. x[2] = per
      BY <2>1 DEF VariancesIn, VarianceOf
    <2>3. QED
      BY <2>1, <2>2 DEF Viewed
  <1>3. IsFiniteSet(Viewed(per))
    BY FigureConstants, FS_Subset DEF Viewed
  <1>4. IsFiniteSet(VariancesIn(per))
    <2> DEFINE f == [a \in Viewed(per) |-> VarianceOf(a, per)]
    <2>1. f \in Surjection(Viewed(per), VariancesIn(per))
      BY <1>1, <1>2 DEF Surjection
    <2>2. QED
      BY <1>3, <2>1, FS_Surjection
  <1>5. QED
    BY <1>1, <1>2, <1>3, <1>4

(* The budget of an account is that of its last line with an amount.       *)
LEMMA BudgetOfLines ==
    ASSUME FiguresInv, NEW per \in Period, NEW a \in Item
    PROVE  /\ Figures!BudgetOf(a, per) \in Int
           /\ Figures!Kept(a, per) = {} => Figures!BudgetOf(a, per) = 0
           /\ Figures!Kept(a, per) # {} =>
                \E i \in Figures!Kept(a, per) : Figures!BudgetOf(a, per) = lines[i].amounts[per]
  <1>1. PICK K : K = Figures!Kept(a, per)
    OBVIOUS
  <1>2. PICK n \in Nat : DOMAIN lines = 1..n
    BY DEF FiguresInv
  <1>3. K \subseteq 1..n /\ \A i \in K : lines[i].amounts[per] \in Int
    <2>1. \A i \in DOMAIN lines : lines[i].amounts[per] \in AmountOrNone
      BY LinesHaveAmounts
    <2>2. QED
      BY <1>1, <1>2, <2>1 DEF Figures!Kept, AmountOrNone
  <1>4. CASE K = {}
    BY <1>1, <1>4 DEF Figures!BudgetOf
  <1>5. CASE K # {}
    <2>1. PICK m \in K : m = CHOOSE i \in K : \A j \in K : j <= i
      BY <1>3, <1>5, GreatestExists
    <2>2. Figures!BudgetOf(a, per) = lines[CHOOSE i \in K : \A j \in K : j <= i].amounts[per]
      BY <1>1, <1>5, Zenon DEF Figures!BudgetOf
    <2>3. QED
      BY <1>1, <1>3, <1>5, <2>1, <2>2
  <1>6. QED
    BY <1>4, <1>5

(* The trend's budget of a period is the sum of the budgets in its view.   *)
LEMMA BudgetsAddUp ==
    ASSUME FiguresInv, Figures!OneLineEach, NEW per \in Period
    PROVE  Figures!PeriodTotal(per) = SumFunctionOnSet([v \in VariancesIn(per) |-> v.budget], VariancesIn(per))
  <1> DEFINE L == DOMAIN lines
             w == [i \in L |-> Figures!Value(lines[i].amounts[per])]
             L1 == {i \in L : lines[i].amounts[per] # None}
             T == VariancesIn(per)
             u == [v \in T |-> v.budget]
             b == [i \in L1 |-> VarianceOf(lines[i].account, per)]
  <1>1. IsFiniteSet(L) /\ Numbers(w, L)
    <2>1. PICK n \in Nat : DOMAIN lines = 1..n
      BY DEF FiguresInv
    <2>2. IsFiniteSet(L)
      BY <2>1, FS_Interval
    <2>3. \A i \in L : lines[i].amounts[per] \in AmountOrNone
      BY LinesHaveAmounts
    <2>4. QED
      BY <2>2, <2>3, ValueIsNumber DEF Numbers
  <1>2. Figures!PeriodTotal(per) = SumFunctionOnSet(w, L)
    <2>1. Figures!PeriodTotal(per) = Figures!SumFunction(w)
      BY DEF Figures!PeriodTotal
    <2>2. DOMAIN w = L
      OBVIOUS
    <2> HIDE DEF w, L
    <2>3. QED
      BY <2>1, <2>2, FiguresSum
  <1>3. SumFunctionOnSet(w, L) = SumFunctionOnSet(w, L1)
    <2>1. L1 \subseteq L /\ \A i \in L \ L1 : w[i] = 0
      BY DEF Figures!Value
    <2> HIDE DEF w, L, L1
    <2>2. QED
      BY <1>1, <2>1, SumOfSubset
  <1>4. IsFiniteSet(L1) /\ Numbers(w, L1)
    <2>1. L1 \subseteq L
      OBVIOUS
    <2> HIDE DEF w, L, L1
    <2>2. QED
      BY <1>1, <2>1, FS_Subset DEF Numbers
  <1>5. IsFiniteSet(T) /\ Numbers(u, T)
    <2>1. \A v \in T : v.budget \in Int
      <3>1. \A a \in Viewed(per) : VarianceOf(a, per).budget \in Int
        BY BudgetOfLines DEF VarianceOf, Viewed
      <3>2. QED
        BY <3>1, VariancesAre
    <2>2. QED
      BY <2>1, VariancesAre DEF Numbers
  <1>6. ASSUME NEW i \in L1
        PROVE  /\ lines[i].account \in Viewed(per) /\ b[i] \in T
               /\ u[b[i]] = w[i] /\ b[i].account = lines[i].account
    <2>1. lines[i].account \in Item /\ i \in Figures!Kept(lines[i].account, per)
      BY LinesHaveAmounts DEF Figures!Kept
    <2>2. lines[i].account \in Viewed(per)
      BY <2>1 DEF Viewed, Figures!InView
    <2>3. b[i] \in T
      BY <2>2, VariancesAre
    <2>4. \A j \in Figures!Kept(lines[i].account, per) : j = i
      BY DEF Figures!Kept, Figures!OneLineEach
    <2>5. Figures!BudgetOf(lines[i].account, per) = lines[i].amounts[per]
      BY <2>1, <2>4, BudgetOfLines
    <2>6. u[b[i]] = w[i]
      BY <2>3, <2>5 DEF VarianceOf, Figures!Value
    <2>7. QED
      BY <2>2, <2>3, <2>6 DEF VarianceOf
  <1>7. \A i, j \in L1 : b[i] = b[j] => i = j
    <2>1. \A i \in L1 : b[i].account = lines[i].account /\ i \in DOMAIN lines
      BY <1>6
    <2> HIDE DEF b, L1
    <2>2. QED
      BY <2>1 DEF Figures!OneLineEach
  <1>8. ASSUME NEW v \in T, \A i \in L1 : b[i] # v PROVE u[v] = 0
    <2>1. PICK a \in Viewed(per) : v = VarianceOf(a, per)
      BY VariancesAre
    <2>2. a \in Item
      BY DEF Viewed
    <2>3. Figures!Kept(a, per) = {}
      <3>1. \A i \in Figures!Kept(a, per) : i \in L1 /\ b[i] = v
        BY <2>1 DEF Figures!Kept
      <3>2. QED
        BY <1>8, <3>1
    <2>4. QED
      BY <2>1, <2>2, <2>3, BudgetOfLines DEF VarianceOf
  <1>9. b \in [L1 -> T] /\ \A i \in L1 : u[b[i]] = w[i]
    BY <1>6
  <1> HIDE DEF w, u, b, L, L1, T
  <1>10. SumFunctionOnSet(w, L1) = SumFunctionOnSet(u, T)
    BY <1>4, <1>5, <1>7, <1>8, <1>9, SumMoves
  <1>11. QED
    BY <1>2, <1>3, <1>10 DEF u, T

(* And so is its actual, which sums over every account.                    *)
LEMMA ActualsAddUp ==
    ASSUME FiguresInv, NEW per \in Period
    PROVE  Figures!PeriodActual(per) = SumFunctionOnSet([v \in VariancesIn(per) |-> v.actual], VariancesIn(per))
  <1> DEFINE w == [a \in Item |-> Figures!Actual(per, a)]
             S == Viewed(per)
             T == VariancesIn(per)
             u == [v \in T |-> v.actual]
             b == [a \in S |-> VarianceOf(a, per)]
  <1>1. \A a \in Item : /\ Figures!Actual(per, a) \in Int
                        /\ ~Figures!HasActual(per, a) => Figures!Actual(per, a) = 0
    BY ActualIsNumber DEF FiguresInv
  <1>2. Figures!PeriodActual(per) = SumFunctionOnSet(w, Item)
    <2>1. Figures!PeriodActual(per) = Figures!SumFunction(w)
      BY DEF Figures!PeriodActual
    <2>2. DOMAIN w = Item
      OBVIOUS
    <2> HIDE DEF w
    <2>3. QED
      BY <2>1, <2>2, FiguresSum
  <1>3. /\ S \subseteq Item /\ IsFiniteSet(Item) /\ IsFiniteSet(S) /\ Numbers(w, Item) /\ Numbers(w, S)
        /\ \A a \in Item \ S : w[a] = 0
    BY <1>1, FigureConstants, VariancesAre DEF Numbers, Viewed, Figures!InView
  <1>4. /\ IsFiniteSet(T) /\ Numbers(u, T)
    <2>1. \A v \in T : v.actual \in Int
      <3>1. \A a \in Viewed(per) : VarianceOf(a, per).actual \in Int
        BY <1>1 DEF VarianceOf, Viewed
      <3>2. QED
        BY <3>1, VariancesAre
    <2>2. QED
      BY <2>1, VariancesAre DEF Numbers
  <1>5. b \in [S -> T] /\ \A a \in S : b[a].account = a /\ u[b[a]] = w[a]
    <2>1. b \in [S -> T]
      BY VariancesAre
    <2>2. \A a \in S : b[a].account = a /\ b[a].actual = w[a]
      BY <1>3 DEF VarianceOf
    <2>3. QED
      BY <2>1, <2>2
  <1>6. \A v \in T : \E a \in S : b[a] = v
    BY VariancesAre
  <1> HIDE DEF w, u, b, S, T
  <1>7. SumFunctionOnSet(w, Item) = SumFunctionOnSet(w, S)
    BY <1>3, SumOfSubset
  <1>8. SumFunctionOnSet(w, S) = SumFunctionOnSet(u, T)
    <2>1. \A x, y \in S : b[x] = b[y] => x = y
      BY <1>5
    <2>2. QED
      BY <1>3, <1>4, <1>5, <1>6, <2>1, SumMoves
  <1>9. QED
    BY <1>2, <1>7, <1>8 DEF u, T

(* What is not material is within a twentieth of the budget.               *)
LEMMA MaterialIs ==
    ASSUME NEW b \in Int, NEW a \in Int, ~Figures!Material(b, a, 5)
    PROVE  20 * (a - b) <= Figures!Abs(b) /\ 20 * (b - a) <= Figures!Abs(b)
  BY DEF Figures!Material, Figures!Abs

LEMMA AbsIs ==
    ASSUME NEW n \in Int
    PROVE  Figures!Abs(n) \in Nat /\ (Figures!Abs(n) = n \/ Figures!Abs(n) = -n)
  BY DEF Figures!Abs

LEMMA AbsBelow ==
    ASSUME NEW x \in Int, NEW y \in Int, NEW z \in Int, 20 * (x - y) <= z, 20 * (y - x) <= z
    PROVE  ~(20 * Figures!Abs(x - y) > z)
  BY DEF Figures!Abs

(* A period whose totals differ has an account that says so.               *)
LEMMA DifferenceShows ==
    ASSUME FiguresInv, NEW per \in Period, NEW x, NEW y,
           x = SumFunctionOnSet([v \in VariancesIn(per) |-> v.budget], VariancesIn(per)),
           y = SumFunctionOnSet([v \in VariancesIn(per) |-> v.actual], VariancesIn(per)),
           20 * Figures!Abs(y - x) >
               SumFunctionOnSet([v \in VariancesIn(per) |-> Figures!Abs(v.budget)], VariancesIn(per))
    PROVE  \E v \in VariancesIn(per) : v.material
  <1> DEFINE T == VariancesIn(per)
             bs == [v \in T |-> v.budget]
             as == [v \in T |-> v.actual]
             cs == [v \in T |-> Figures!Abs(v.budget)]
  <1> SUFFICES ASSUME \A v \in T : ~v.material PROVE FALSE
    OBVIOUS
  <1>1. IsFiniteSet(T)
    BY VariancesAre
  <1>2. ASSUME NEW v \in T
        PROVE  /\ v.budget \in Int /\ v.actual \in Int
               /\ v.material = Figures!Material(v.budget, v.actual, 5)
    <2>1. PICK a \in Viewed(per) : v = VarianceOf(a, per)
      BY VariancesAre
    <2>2. a \in Item
      BY DEF Viewed
    <2>3. Figures!BudgetOf(a, per) \in Int /\ Figures!Actual(per, a) \in Int
      BY <2>2, BudgetOfLines, ActualIsNumber DEF FiguresInv
    <2>4. QED
      BY <2>1, <2>3 DEF VarianceOf
  <1>3. \A v \in T : 20 * (v.actual - v.budget) <= Figures!Abs(v.budget)
                     /\ 20 * (v.budget - v.actual) <= Figures!Abs(v.budget)
    BY <1>2, MaterialIs
  <1>4. Numbers(bs, T) /\ Numbers(as, T) /\ Numbers(cs, T)
    BY <1>2, AbsIs DEF Numbers
  <1>5. \A v \in T : 20 * (as[v] - bs[v]) <= cs[v] /\ 20 * (bs[v] - as[v]) <= cs[v]
    BY <1>3
  <1>6. x = SumFunctionOnSet(bs, T) /\ y = SumFunctionOnSet(as, T)
        /\ 20 * Figures!Abs(y - x) > SumFunctionOnSet(cs, T)
    OBVIOUS
  <1> HIDE DEF bs, as, cs, T
  <1>7. PICK z : z = SumFunctionOnSet(cs, T)
    OBVIOUS
  <1>8. x \in Int /\ y \in Int /\ z \in Int
    BY <1>1, <1>4, <1>6, <1>7, SumTyped
  <1>9. 20 * (y - x) <= z /\ 20 * (x - y) <= z
    BY <1>1, <1>4, <1>5, <1>6, <1>7, SumsDiffer
  <1>10. QED
    BY <1>6, <1>7, <1>8, <1>9, AbsBelow

(* What is material in the analysis is what the board pack names.          *)
LEMMA SummaryNames ==
    ASSUME NEW v \in Figures!get_budget_variance(5)
    PROVE  /\ v.period \in Period
           /\ v.material <=> <<v.account, v.period>> \in Figures!_fetch_budget_variance_summary
  <1>1. PICK x \in Item \X Period : Figures!InView(x[1], x[2]) /\ v = VarianceOf(x[1], x[2])
    BY DEF VarianceOf, Figures!get_budget_variance
  <1>2. <<v.account, v.period>> = x
    BY <1>1 DEF VarianceOf
  <1>3. x \in Figures!_fetch_budget_variance_summary
          <=> Figures!Material(Figures!BudgetOf(x[1], x[2]), Figures!Actual(x[2], x[1]), 5)
    BY <1>1 DEF Figures!_fetch_budget_variance_summary
  <1>4. v.material = Figures!Material(Figures!BudgetOf(x[1], x[2]), Figures!Actual(x[2], x[1]), 5)
    BY <1>1 DEF VarianceOf
  <1>5. v.period = x[2]
    BY <1>1 DEF VarianceOf
  <1>6. QED
    BY <1>2, <1>3, <1>4, <1>5

(* Nothing is used of a budget without actuals.                            *)
LEMMA AlertNeedsActuals ==
    ASSUME FiguresInv, Figures!utilisation_alert
    PROVE  Figures!periods_with_actuals # {}
  <1> SUFFICES ASSUME Figures!periods_with_actuals = {} PROVE FALSE
    OBVIOUS
  <1> DEFINE w == [per \in Period |-> Figures!PeriodActual(per)]
             u == [per \in Period |-> Figures!PeriodTotal(per)]
  <1>1. \A per \in Period : w[per] = 0
    <2> SUFFICES ASSUME NEW per \in Period PROVE Figures!PeriodActual(per) = 0
      OBVIOUS
    <2> DEFINE x == [a \in Item |-> Figures!Actual(per, a)]
    <2>1. \A a \in Item : x[a] = 0
      BY ActualIsNumber DEF FiguresInv, Figures!periods_with_actuals
    <2>2. Figures!PeriodActual(per) = Figures!SumFunction(x) /\ DOMAIN x = Item
      BY DEF Figures!PeriodActual
    <2> HIDE DEF x
    <2>3. QED
      BY <2>1, <2>2, FiguresSum, FigureConstants, SumOfZeros
  <1>2. PICK used : used = Figures!SumFunction(w)
    OBVIOUS
  <1>3. DOMAIN w = Period /\ DOMAIN u = Period
    OBVIOUS
  <1>4. \/ Figures!total_budget > 0 /\ 100 * used >= 90 * Figures!total_budget
        \/ Figures!total_budget < 0 /\ 100 * used <= 90 * Figures!total_budget
    BY <1>2 DEF Figures!utilisation_alert
  <1>5. Figures!total_budget = Figures!SumFunction(u)
    BY DEF Figures!total_budget
  <1>6. \A per \in Period : u[per] \in Int
    <2> SUFFICES ASSUME NEW per \in Period PROVE Figures!PeriodTotal(per) \in Int
      OBVIOUS
    <2> DEFINE x == [i \in DOMAIN lines |-> Figures!Value(lines[i].amounts[per])]
    <2>1. Numbers(x, DOMAIN lines)
      BY LinesHaveAmounts, ValueIsNumber DEF Numbers
    <2>2. Figures!PeriodTotal(per) = Figures!SumFunction(x) /\ DOMAIN x = DOMAIN lines
      BY DEF Figures!PeriodTotal
    <2>3. IsFiniteSet(DOMAIN lines)
      <3>1. PICK n \in Nat : DOMAIN lines = 1..n
        BY DEF FiguresInv
      <3>2. QED
        BY <3>1, FS_Interval
    <2> HIDE DEF x
    <2>4. QED
      BY <2>1, <2>2, <2>3, FiguresSum, SumTyped
  <1> HIDE DEF w, u
  <1>7. used = 0
    BY <1>1, <1>2, <1>3, FiguresSum, FigureConstants, SumOfZeros
  <1>8. Figures!total_budget \in Int
    BY <1>3, <1>5, <1>6, FiguresSum, FigureConstants, SumTyped DEF Numbers
  <1>9. QED
    BY <1>4, <1>7, <1>8

LEMMA FiguresAgree == FiguresInv => Figures!ViewsAgree
  <1> SUFFICES ASSUME FiguresInv, Figures!OneLineEach
               PROVE  LET of(per) == {v \in Figures!get_budget_variance(5) : v.period = per}
                      IN  /\ \A t \in Figures!variance_trend :
                              /\ t.budget = Figures!SumFunction([v \in of(t.period) |-> v.budget])
                              /\ t.actual = Figures!SumFunction([v \in of(t.period) |-> v.actual])
                              /\ 20 * Figures!Abs(t.actual - t.budget)
                                     > Figures!SumFunction([v \in of(t.period) |-> Figures!Abs(v.budget)]) =>
                                   \E v \in of(t.period) : v.material
                                       /\ <<v.account, t.period>> \in Figures!_fetch_budget_variance_summary
                          /\ \A v \in Figures!get_budget_variance(5) :
                              v.material <=> <<v.account, v.period>> \in Figures!_fetch_budget_variance_summary
                          /\ Figures!utilisation_alert => Figures!periods_with_actuals # {}
    BY DEF Figures!ViewsAgree
  <1>1. ASSUME NEW t \in Figures!variance_trend
        PROVE  /\ t.budget = Figures!SumFunction([v \in VariancesIn(t.period) |-> v.budget])
               /\ t.actual = Figures!SumFunction([v \in VariancesIn(t.period) |-> v.actual])
               /\ 20 * Figures!Abs(t.actual - t.budget)
                      > Figures!SumFunction([v \in VariancesIn(t.period) |-> Figures!Abs(v.budget)]) =>
                    \E v \in VariancesIn(t.period) : v.material
                        /\ <<v.account, t.period>> \in Figures!_fetch_budget_variance_summary
    <2>1. PICK per \in Period :
            t.period = per /\ t.budget = Figures!PeriodTotal(per) /\ t.actual = Figures!PeriodActual(per)
      BY DEF Figures!variance_trend
    <2> DEFINE T == VariancesIn(per)
               bs == [v \in T |-> v.budget]
               as == [v \in T |-> v.actual]
               cs == [v \in T |-> Figures!Abs(v.budget)]
    <2>2. /\ Figures!SumFunction(bs) = SumFunctionOnSet(bs, T)
          /\ Figures!SumFunction(as) = SumFunctionOnSet(as, T)
          /\ Figures!SumFunction(cs) = SumFunctionOnSet(cs, T)
      <3>1. DOMAIN bs = T /\ DOMAIN as = T /\ DOMAIN cs = T
        OBVIOUS
      <3> HIDE DEF bs, as, cs, T
      <3>2. QED
        BY <3>1, FiguresSum
    <2>3. Figures!PeriodTotal(per) = SumFunctionOnSet(bs, T)
          /\ Figures!PeriodActual(per) = SumFunctionOnSet(as, T)
      BY BudgetsAddUp, ActualsAddUp
    <2>4. 20 * Figures!Abs(t.actual - t.budget) > SumFunctionOnSet(cs, T) =>
             \E v \in T : v.material
      BY <2>1, <2>3, DifferenceShows
    <2>5. \A v \in T : v.material => <<v.account, per>> \in Figures!_fetch_budget_variance_summary
      BY SummaryNames DEF VariancesIn
    <2>6. QED
      BY <2>1, <2>2, <2>3, <2>4, <2>5
  <1>2. QED
    BY <1>1, SummaryNames, AlertNeedsActuals DEF VariancesIn

(* As long as no account of a budget has two lines, the variance analysis, *)
(* the dashboard and the board pack agree: the views add up to the same    *)
(* totals, a period whose totals differ has an account that both lists     *)
(* name, and no alert speaks of a budget without actuals (analytics.py     *)
(* and board_packs.py).                                                    *)
THEOREM ViewsAlwaysAgree == AllSpec => []ViewsAgree
  <1>1. AllInit => FiguresInv
    BY FiguresStart DEF AllInit
  <1>2. [AllNext]_allVars => [Figures!Next]_budgetVars
    BY DEF AllNext, allVars
  <1>3. FiguresInv => ViewsAgree
    BY FiguresAgree DEF ViewsAgree
  <1>4. QED
    BY <1>1, <1>2, <1>3, FiguresKeep, PTL DEF AllSpec
-----------------------------------------------------------------------------
(* The investment desk.  A compute holds the cash flows it read: they are  *)
(* the assessment's still, unless an update came between, which overtaken  *)
(* remembers; an assessment that was deleted is never created again.       *)

Holdings == [n_holdings : {Desk!Cardinality(S) : S \in SUBSET Item}, holdings : SUBSET Item]

DeskPoints == {"idle", "computing", "memo", "told", "building", "built", "writing", "read"}
DeskRequest == [pc : DeskPoints, of : Fund \cup Req \cup {None, "empty"}, saw : Desk!Figures,
                todo : SUBSET Item]

DeskTyped ==
    /\ fund \in [Fund -> Desk!Assessment \cup {None}]
    /\ built \in [Req -> Holdings \cup {None}]
    /\ text \in Req \cup {"none", "empty"}
    /\ deskEdits \in Desk!Version
    /\ deskReq \in [Req -> DeskRequest]

Computes(q) ==
    q.pc = "computing" =>
        /\ q.of \in Fund
        /\ fund[q.of] = None => q.of \in gone
        /\ fund[q.of] # None /\ q.of \notin overtaken => q.saw.flows = fund[q.of].flows

(* What a build has inserted and what it has yet to insert are the chosen. *)
Builds(q, run_) ==
    /\ q.pc \in {"building", "built"} /\ run_ # None =>
          run_.n_holdings = Desk!Cardinality(run_.holdings \cup q.todo)
    /\ q.pc = "built" => q.todo = {}

Current(f) ==
    fund[f] # None /\ fund[f].irr_computed_at /\ f \notin overtaken => fund[f].figures.flows = fund[f].flows

DeskInv ==
    /\ DeskTyped
    /\ \A f \in Fund : f \in gone => fund[f] = None
    /\ \A r \in Req : Computes(deskReq[r])
    /\ \A f \in Fund : Current(f)
    /\ \A r \in Req : Builds(deskReq[r], built[r])

LEMMA DeskIdle ==
    /\ Desk!Idle \in DeskRequest /\ Desk!NoFigures \in Desk!Figures
    /\ Desk!Idle.pc = "idle" /\ Desk!Idle.todo = {} /\ Desk!Idle.saw = Desk!NoFigures
  BY DEF Desk!Idle, DeskPoints, DeskRequest, Desk!Figures, Desk!NoFigures

LEMMA DeskStarts == Desk!Init => DeskInv
  <1> SUFFICES ASSUME Desk!Init PROVE DeskInv
    OBVIOUS
  <1>1. /\ fund = [f \in Fund |-> None] /\ gone = {} /\ built = [r \in Req |-> None]
        /\ text = "none" /\ deskEdits = 0 /\ deskReq = [r \in Req |-> Desk!Idle]
    BY DEF Desk!Init
  <1>2. DeskTyped
    BY <1>1, DeskIdle, RecordConstants DEF DeskTyped, Desk!Version
  <1>3. \A r \in Req : Computes(deskReq[r]) /\ Builds(deskReq[r], built[r])
    BY <1>1, DeskIdle DEF Computes, Builds
  <1>4. \A f \in Fund : Current(f)
    BY <1>1 DEF Current
  <1>5. QED
    BY <1>1, <1>2, <1>3, <1>4 DEF DeskInv

(* A request goes on, and assessments and runs stay what they are.         *)
LEMMA DeskStep ==
    ASSUME DeskInv, NEW r \in Req, NEW q \in DeskRequest, Desk!Becomes(r, q),
           UNCHANGED <<fund, gone, overtaken, built>>, deskEdits' \in Desk!Version,
           text' \in Req \cup {"none", "empty"}, Computes(q), Builds(q, built[r])
    PROVE  DeskInv'
  <1>1. /\ deskReq' \in [Req -> DeskRequest] /\ deskReq'[r] = q
        /\ \A o \in Req \ {r} : deskReq'[o] = deskReq[o]
    BY DEF DeskInv, DeskTyped, Desk!Becomes
  <1>2. DeskTyped'
    BY <1>1 DEF DeskInv, DeskTyped
  <1>3. ASSUME NEW o \in Req PROVE Computes(deskReq[o])' /\ Builds(deskReq[o], built[o])'
    <2>1. (deskReq'[o] = q /\ o = r) \/ deskReq'[o] = deskReq[o]
      BY <1>1
    <2>2. Computes(deskReq'[o]) /\ Builds(deskReq'[o], built[o])
      BY <2>1 DEF DeskInv
    <2>3. QED
      BY <2>2 DEF Computes
  <1>4. \A f \in Fund : (f \in gone => fund[f] = None)' /\ Current(f)'
    BY DEF DeskInv, Current
  <1>5. QED
    BY <1>2, <1>3, <1>4 DEF DeskInv

Answers(r, q) ==
    /\ q.pc \notin {"computing", "building"}
    /\ q.pc = "built" => deskReq[r].pc = "building" /\ deskReq[r].todo = {} /\ q.todo = {}

LEMMA DeskAnswers ==
    ASSUME DeskInv, NEW r \in Req,
           \/ Desk!TellMemo(r) \/ Desk!AnswerBuild(r) \/ Desk!WriteCommentary(r)
           \/ Desk!get_backtest_commentary(r) \/ Desk!Fail(r) \/ Desk!Leave(r)
           \/ \E f \in Fund : Desk!generate_pe_memo(r, f)
    PROVE  DeskInv'
  <1>1. UNCHANGED <<fund, gone, overtaken, built, deskEdits>> /\ deskReq[r] \in DeskRequest
        /\ deskEdits' \in Desk!Version /\ text \in Req \cup {"none", "empty"}
        /\ fund \in [Fund -> Desk!Assessment \cup {None}]
    BY DEF Desk!TellMemo, Desk!AnswerBuild, Desk!WriteCommentary, Desk!get_backtest_commentary,
           Desk!Fail, Desk!Leave, Desk!generate_pe_memo, DeskInv, DeskTyped
  <1>2. Builds(deskReq[r], built[r])
    BY DEF DeskInv
  <1>3. \E q \in DeskRequest : Desk!Becomes(r, q) /\ Answers(r, q)
    <2>1. CASE Desk!TellMemo(r)
      <3> DEFINE q == [deskReq[r] EXCEPT !.pc = "told"]
      <3>1. q \in DeskRequest /\ q.pc = "told"
        BY <1>1, <2>1, DeskIdle DEF Desk!Idle, DeskPoints, DeskRequest
      <3>2. Desk!Becomes(r, q)
        BY <2>1 DEF Desk!TellMemo
      <3> HIDE DEF q
      <3>3. QED
        BY <3>1, <3>2 DEF Answers
    <2>2. CASE Desk!AnswerBuild(r)
      <3> DEFINE q == [deskReq[r] EXCEPT !.pc = "built", !.todo = {}]
      <3>1. q \in DeskRequest /\ q.todo = {} /\ deskReq[r].pc = "building" /\ deskReq[r].todo = {} /\ q.pc = "built"
        BY <1>1, <2>2, DeskIdle DEF Desk!Idle, DeskPoints, DeskRequest, Desk!AnswerBuild, Desk!Unsaved
      <3>2. Desk!Becomes(r, q)
        BY <2>2 DEF Desk!AnswerBuild
      <3> HIDE DEF q
      <3>3. QED
        BY <3>1, <3>2 DEF Answers
    <2>3. CASE Desk!WriteCommentary(r)
      <3> DEFINE q == [Desk!Idle EXCEPT !.pc = "read", !.of = text']
      <3>1. q \in DeskRequest /\ q.pc = "read"
        BY <1>1, <2>3, DeskIdle DEF Desk!Idle, DeskPoints, DeskRequest, Desk!WriteCommentary
      <3>2. Desk!Becomes(r, q)
        BY <2>3 DEF Desk!WriteCommentary
      <3> HIDE DEF q
      <3>3. QED
        BY <3>1, <3>2 DEF Answers
    <2>4. CASE Desk!get_backtest_commentary(r) /\ Desk!Stored
      <3> DEFINE q == [Desk!Idle EXCEPT !.pc = "read", !.of = text]
      <3>1. q \in DeskRequest /\ q.pc = "read"
        BY <1>1, <2>4, DeskIdle DEF Desk!Idle, DeskPoints, DeskRequest, Desk!Stored
      <3>2. Desk!Becomes(r, q)
        BY <2>4 DEF Desk!get_backtest_commentary
      <3> HIDE DEF q
      <3>3. QED
        BY <3>1, <3>2 DEF Answers
    <2>5. CASE Desk!get_backtest_commentary(r) /\ ~Desk!Stored
      <3> DEFINE q == [Desk!Idle EXCEPT !.pc = "writing"]
      <3>1. q \in DeskRequest /\ q.pc = "writing"
        BY <1>1, <2>5, DeskIdle DEF Desk!Idle, DeskPoints, DeskRequest
      <3>2. Desk!Becomes(r, q)
        BY <2>5 DEF Desk!get_backtest_commentary
      <3> HIDE DEF q
      <3>3. QED
        BY <3>1, <3>2 DEF Answers
    <2>6. CASE Desk!Fail(r) \/ Desk!Leave(r)
      BY <2>6, DeskIdle DEF Desk!Fail, Desk!Leave, Answers
    <2>7. ASSUME NEW f \in Fund, Desk!generate_pe_memo(r, f)
          PROVE  \E q \in DeskRequest : Desk!Becomes(r, q) /\ Answers(r, q)
      <3> DEFINE q == [Desk!Idle EXCEPT !.pc = "memo", !.of = f, !.saw = fund[f].figures]
      <3>1. fund[f] \in Desk!Assessment
        BY <1>1, <2>7 DEF Desk!generate_pe_memo
      <3>2. q \in DeskRequest /\ q.pc = "memo"
        BY <3>1, DeskIdle DEF Desk!Idle, DeskPoints, DeskRequest, Desk!Assessment
      <3>3. Desk!Becomes(r, q)
        BY <2>7 DEF Desk!generate_pe_memo
      <3> HIDE DEF q
      <3>4. QED
        BY <3>2, <3>3 DEF Answers
    <2>8. QED
      BY <2>1, <2>2, <2>3, <2>4, <2>5, <2>6, <2>7
  <1>4. text' \in Req \cup {"none", "empty"}
    BY <1>1 DEF Desk!TellMemo, Desk!AnswerBuild, Desk!WriteCommentary, Desk!get_backtest_commentary,
           Desk!Fail, Desk!Leave, Desk!generate_pe_memo
  <1>5. PICK q \in DeskRequest : Desk!Becomes(r, q) /\ Answers(r, q)
    BY <1>3
  <1>6. Computes(q) /\ Builds(q, built[r])
    BY <1>2, <1>5 DEF Answers, Computes, Builds
  <1>7. QED
    BY <1>1, <1>4, <1>5, <1>6, DeskStep

(* An assessment changes, and what computes have read of it may be old.    *)
LEMMA FundStep ==
    ASSUME DeskInv, NEW f \in Fund, NEW new \in Desk!Assessment \cup {None}, UNCHANGED <<built, text, deskReq>>,
           fund' = [fund EXCEPT ![f] = new], deskEdits' \in Desk!Version,
           gone' = gone \/ (new = None /\ gone' = gone \cup {f}), f \in gone' => new = None,
           fund[f] # None /\ new = None => f \in gone',
           overtaken \subseteq overtaken',
           new # None => \A r \in Req : deskReq[r].pc = "computing" /\ deskReq[r].of = f =>
                            f \in overtaken' \/ deskReq[r].saw.flows = new.flows,
           new # None /\ new.irr_computed_at /\ f \notin overtaken' => new.figures.flows = new.flows
    PROVE  DeskInv'
  <1>1. /\ fund'[f] = new /\ \A g \in Fund \ {f} : fund'[g] = fund[g]
        /\ fund' \in [Fund -> Desk!Assessment \cup {None}]
    BY DEF DeskInv, DeskTyped
  <1>2. DeskTyped'
    BY <1>1 DEF DeskInv, DeskTyped
  <1>3. \A g \in Fund : (g \in gone => fund[g] = None)'
    BY <1>1 DEF DeskInv
  <1>4. ASSUME NEW r \in Req PROVE Computes(deskReq[r])'
    <2>1. Computes(deskReq[r])
      BY DEF DeskInv
    <2>2. CASE deskReq[r].of = f
      BY <1>1, <2>1, <2>2 DEF Computes
    <2>3. CASE deskReq[r].of # f
      BY <1>1, <2>1, <2>3 DEF Computes
    <2>4. QED
      BY <2>2, <2>3
  <1>5. ASSUME NEW g \in Fund PROVE Current(g)'
    <2>1. Current(g)
      BY DEF DeskInv
    <2>2. QED
      BY <1>1, <2>1 DEF Current
  <1>6. \A r \in Req : Builds(deskReq[r], built[r])'
    BY DEF DeskInv, Builds
  <1>7. QED
    BY <1>2, <1>3, <1>4, <1>5, <1>6 DEF DeskInv

LEMMA KeepsEdits ==
    ASSUME DeskInv, NEW f \in Fund,
           Desk!create_pe_assessment(f) \/ Desk!update_pe_assessment(f) \/ Desk!delete_pe_assessment(f)
    PROVE  DeskInv'
  <1>1. /\ deskEdits' \in Desk!Version /\ 0 \in Desk!Version /\ UNCHANGED <<built, text, deskReq>>
        /\ fund \in [Fund -> Desk!Assessment \cup {None}]
    BY RecordConstants
       DEF DeskInv, DeskTyped, Desk!Version, Desk!Edit, Desk!create_pe_assessment,
           Desk!update_pe_assessment, Desk!delete_pe_assessment
  <1>2. /\ \A r \in Req : Computes(deskReq[r])
        /\ \A g \in Fund : Current(g) /\ (g \in gone => fund[g] = None)
    BY DEF DeskInv
  <1>3. CASE Desk!create_pe_assessment(f)
    <2>1. PICK flows \in Desk!Version, nav \in Desk!Version :
              fund' = [fund EXCEPT ![f] = [flows |-> flows, nav |-> nav, figures |-> Desk!NoFigures,
                                           irr_computed_at |-> FALSE]]
      BY <1>1, <1>3 DEF Desk!create_pe_assessment
    <2> DEFINE new == [flows |-> flows, nav |-> nav, figures |-> Desk!NoFigures, irr_computed_at |-> FALSE]
    <2>2. new \in Desk!Assessment /\ ~new.irr_computed_at /\ new # None
      <3>1. new \in Desk!Assessment /\ new.irr_computed_at = FALSE
        BY DeskIdle DEF Desk!Assessment
      <3>2. QED
        BY <3>1, NoneIsNoRow
    <2>3. fund' = [fund EXCEPT ![f] = new]
      BY <2>1
    <2> HIDE DEF new
    <2>4. /\ fund[f] = None /\ f \notin gone /\ UNCHANGED <<gone, overtaken>>
      BY <1>3 DEF Desk!create_pe_assessment
    <2>5. \A r \in Req : ~(deskReq[r].pc = "computing" /\ deskReq[r].of = f)
      BY <1>2, <2>4 DEF Computes
    <2>6. QED
      BY <1>1, <2>2, <2>3, <2>4, <2>5, FundStep
  <1>4. ASSUME Desk!update_pe_assessment(f), fund' # [fund EXCEPT ![f].nav = deskEdits']
        PROVE  DeskInv'
    <2>1. PICK flows \in Desk!Version :
              fund' = [fund EXCEPT ![f] = [Desk!Invalidated(fund[f]) EXCEPT !.flows = flows]]
      BY <1>1, <1>4, Zenon DEF Desk!update_pe_assessment
    <2>2. /\ fund[f] # None /\ fund[f] \in Desk!Assessment /\ UNCHANGED gone
          /\ overtaken' = IF \E r \in Req : deskReq[r].pc = "computing" /\ deskReq[r].of = f
                             THEN overtaken \cup {f}
                             ELSE overtaken
      BY <1>1, <1>4 DEF Desk!update_pe_assessment
    <2> DEFINE new == [Desk!Invalidated(fund[f]) EXCEPT !.flows = flows]
    <2>3. new \in Desk!Assessment /\ ~new.irr_computed_at
      BY <2>2 DEF Desk!Assessment, Desk!Invalidated
    <2>4. fund' = [fund EXCEPT ![f] = new]
      BY <2>1
    <2> HIDE DEF new
    <2>5. new # None /\ f \notin gone
      BY <1>2, <2>2, <2>3, NoneIsNoRow
    <2>6. overtaken \subseteq overtaken'
          /\ \A r \in Req : deskReq[r].pc = "computing" /\ deskReq[r].of = f => f \in overtaken'
      BY <2>2
    <2>7. QED
      BY <1>1, <2>2, <2>3, <2>4, <2>5, <2>6, FundStep
  <1>5. CASE Desk!update_pe_assessment(f) /\ fund' = [fund EXCEPT ![f].nav = deskEdits']
    <2>1. /\ fund[f] # None /\ fund[f] \in Desk!Assessment /\ UNCHANGED gone
          /\ overtaken \subseteq overtaken'
      BY <1>1, <1>5 DEF Desk!update_pe_assessment
    <2> DEFINE new == [fund[f] EXCEPT !.nav = deskEdits']
    <2>2. new \in Desk!Assessment /\ new.irr_computed_at = fund[f].irr_computed_at
          /\ new.flows = fund[f].flows /\ new.figures = fund[f].figures
      BY <1>1, <2>1 DEF Desk!Assessment
    <2>3. fund' = [fund EXCEPT ![f] = new]
      BY <1>5, Zenon
    <2> HIDE DEF new
    <2>4. new # None /\ f \notin gone
      BY <1>2, <2>1, <2>2, NoneIsNoRow
    <2>5. \A r \in Req : deskReq[r].pc = "computing" /\ deskReq[r].of = f =>
                          f \in overtaken' \/ deskReq[r].saw.flows = new.flows
      BY <1>2, <2>1, <2>2 DEF Computes
    <2>6. new.irr_computed_at /\ f \notin overtaken' => new.figures.flows = new.flows
      BY <1>2, <2>1, <2>2 DEF Current
    <2>7. QED
      BY <1>1, <2>1, <2>2, <2>3, <2>4, <2>5, <2>6, FundStep
  <1>6. CASE Desk!delete_pe_assessment(f)
    <2>1. /\ fund' = [fund EXCEPT ![f] = None] /\ gone' = gone \cup {f} /\ UNCHANGED overtaken
      BY <1>6 DEF Desk!delete_pe_assessment
    <2>2. QED
      BY <1>1, <2>1, FundStep
  <1>7. QED
    BY <1>3, <1>4, <1>5, <1>6

LEMMA KeepsReadInputs ==
    ASSUME DeskInv, NEW r \in Req, NEW f \in Fund, Desk!ReadInputs(r, f)
    PROVE  DeskInv'
  <1>1. /\ fund[f] # None /\ fund[f] \in Desk!Assessment /\ text \in Req \cup {"none", "empty"}
        /\ deskEdits' \in Desk!Version /\ UNCHANGED <<fund, gone, built, text, deskEdits, overtaken>>
    BY DEF Desk!ReadInputs, DeskInv, DeskTyped
  <1> DEFINE saw == [flows |-> fund[f].flows, nav |-> fund[f].nav]
             q == [Desk!Idle EXCEPT !.pc = "computing", !.of = f, !.saw = saw]
  <1>2. saw \in Desk!Figures /\ saw.flows = fund[f].flows
    BY <1>1 DEF Desk!Figures, Desk!Assessment
  <1>3. Desk!Becomes(r, q)
    BY DEF Desk!ReadInputs
  <1> HIDE DEF saw
  <1>4. q \in DeskRequest /\ q.pc = "computing" /\ q.of = f /\ q.saw = saw
    BY <1>2, DeskIdle DEF Desk!Idle, DeskPoints, DeskRequest
  <1> HIDE DEF q
  <1>5. Computes(q) /\ Builds(q, built[r])
    BY <1>1, <1>2, <1>4 DEF Computes, Builds
  <1>6. QED
    BY <1>1, <1>3, <1>4, <1>5, DeskStep

(* The figures are written over what the assessment is by then.            *)
LEMMA KeepsCompute ==
    ASSUME DeskInv, NEW r \in Req, Desk!compute_pe_assessment(r)
    PROVE  DeskInv'
  <1>1. PICK f : f = deskReq[r].of
    OBVIOUS
  <1>2. PICK saw : saw = deskReq[r].saw
    OBVIOUS
  <1>3. /\ f \in Fund /\ saw \in Desk!Figures /\ deskReq \in [Req -> DeskRequest]
        /\ fund \in [Fund -> Desk!Assessment \cup {None}]
        /\ fund[f] # None /\ f \notin overtaken => saw.flows = fund[f].flows
        /\ UNCHANGED <<gone, built, text, deskEdits, overtaken>>
        /\ deskReq' = [deskReq EXCEPT ![r] = Desk!Idle]
    BY <1>1, <1>2 DEF Desk!compute_pe_assessment, DeskInv, DeskTyped, DeskRequest, Computes, Desk!Becomes
  <1>4. fund' = IF fund[f] = None THEN fund
                ELSE [fund EXCEPT ![f].figures = saw, ![f].irr_computed_at = TRUE]
    BY <1>1, <1>2 DEF Desk!compute_pe_assessment
  <1> DEFINE new == [[fund[f] EXCEPT !.figures = saw] EXCEPT !.irr_computed_at = TRUE]
  <1>5. fund[f] # None => /\ new \in Desk!Assessment /\ new.figures = saw /\ new.flows = fund[f].flows
                          /\ new # None
    BY <1>3, NoneIsNoRow DEF Desk!Assessment
  <1>6. fund' = IF fund[f] = None THEN fund ELSE [fund EXCEPT ![f] = new]
    BY <1>4, Zenon
  <1> HIDE DEF new
  <1>7. /\ fund' \in [Fund -> Desk!Assessment \cup {None}]
        /\ \A g \in Fund : /\ fund'[g] = None <=> fund[g] = None
                           /\ fund[g] # None => fund'[g].flows = fund[g].flows
                           /\ g # f => fund'[g] = fund[g]
        /\ fund'[f] # None => fund'[f].figures = saw
    BY <1>3, <1>5, <1>6
  <1>8. /\ deskReq' \in [Req -> DeskRequest] /\ deskReq'[r] = Desk!Idle
        /\ \A o \in Req \ {r} : deskReq'[o] = deskReq[o]
    BY <1>3, DeskIdle
  <1>9. DeskTyped'
    BY <1>3, <1>7, <1>8 DEF DeskInv, DeskTyped
  <1>10. \A g \in Fund : (g \in gone => fund[g] = None)'
    BY <1>3, <1>7 DEF DeskInv
  <1>11. ASSUME NEW o \in Req PROVE Computes(deskReq[o])' /\ Builds(deskReq[o], built[o])'
    <2>1. CASE o = r
      BY <1>8, <2>1, DeskIdle DEF Computes, Builds
    <2>2. CASE o # r
      <3>1. Computes(deskReq[o]) /\ Builds(deskReq[o], built[o])
        BY DEF DeskInv
      <3>2. QED
        BY <1>3, <1>7, <1>8, <2>2, <3>1 DEF Computes, Builds
    <2>3. QED
      BY <2>1, <2>2
  <1>12. ASSUME NEW g \in Fund PROVE Current(g)'
    <2>1. Current(g)
      BY DEF DeskInv
    <2>2. QED
      BY <1>3, <1>7, <2>1 DEF Current
  <1>13. QED
    BY <1>9, <1>10, <1>11, <1>12 DEF DeskInv

(* A run changes, with the request that builds it.                         *)
LEMMA RunStep ==
    ASSUME DeskInv, NEW r \in Req, NEW q \in DeskRequest, NEW made \in Holdings \cup {None},
           Desk!Becomes(r, q), built' = [built EXCEPT ![r] = made],
           UNCHANGED <<fund, gone, overtaken, text>>, deskEdits' \in Desk!Version,
           Computes(q), Builds(q, made)
    PROVE  DeskInv'
  <1>1. /\ deskReq' \in [Req -> DeskRequest] /\ deskReq'[r] = q
        /\ \A o \in Req \ {r} : deskReq'[o] = deskReq[o]
        /\ built' \in [Req -> Holdings \cup {None}] /\ built'[r] = made
        /\ \A o \in Req \ {r} : built'[o] = built[o]
    BY DEF DeskInv, DeskTyped, Desk!Becomes
  <1>2. DeskTyped'
    BY <1>1 DEF DeskInv, DeskTyped
  <1>3. ASSUME NEW o \in Req PROVE Computes(deskReq[o])' /\ Builds(deskReq[o], built[o])'
    <2>1. Computes(deskReq'[o]) /\ Builds(deskReq'[o], built'[o])
      <3>1. CASE o = r
        BY <1>1, <3>1
      <3>2. CASE o # r
        BY <1>1, <3>2 DEF DeskInv
      <3>3. QED
        BY <3>1, <3>2
    <2>2. QED
      BY <2>1 DEF Computes
  <1>4. \A f \in Fund : (f \in gone => fund[f] = None)' /\ Current(f)'
    BY DEF DeskInv, Current
  <1>5. QED
    BY <1>2, <1>3, <1>4 DEF DeskInv

LEMMA KeepsBuild ==
    ASSUME DeskInv, NEW r \in Req, Desk!build_portfolio_endpoint(r)
    PROVE  DeskInv'
  <1>1. PICK chosen \in SUBSET Item :
            /\ built' = [built EXCEPT ![r] = [n_holdings |-> Desk!Cardinality(chosen), holdings |-> {}]]
            /\ Desk!Becomes(r, [Desk!Idle EXCEPT !.pc = "building", !.of = r, !.todo = chosen])
    BY DEF Desk!build_portfolio_endpoint
  <1>2. deskEdits' \in Desk!Version /\ UNCHANGED <<fund, gone, overtaken, text>>
    BY RecordConstants DEF Desk!build_portfolio_endpoint, DeskInv, DeskTyped, Desk!Edit, Desk!Version
  <1> DEFINE made == [n_holdings |-> Desk!Cardinality(chosen), holdings |-> {}]
             q == [Desk!Idle EXCEPT !.pc = "building", !.of = r, !.todo = chosen]
  <1>3. made \in Holdings /\ made.n_holdings = Desk!Cardinality(chosen) /\ made.holdings = {}
    BY DEF Holdings
  <1>4. q \in DeskRequest /\ q.pc = "building" /\ q.todo = chosen
    BY DeskIdle DEF Desk!Idle, DeskPoints, DeskRequest
  <1>5. built' = [built EXCEPT ![r] = made] /\ Desk!Becomes(r, q)
    BY <1>1
  <1> HIDE DEF made, q
  <1>6. made.holdings \cup q.todo = chosen
    BY <1>3, <1>4
  <1>7. Computes(q) /\ Builds(q, made)
    BY <1>3, <1>4, <1>6 DEF Computes, Builds
  <1>8. QED
    BY <1>2, <1>3, <1>4, <1>5, <1>7, RunStep

LEMMA KeepsHolding ==
    ASSUME DeskInv, NEW r \in Req, NEW c \in Item, Desk!persist_holding(r, c)
    PROVE  DeskInv'
  <1>1. /\ UNCHANGED <<fund, gone, overtaken, text, deskEdits>> /\ deskEdits' \in Desk!Version
        /\ built \in [Req -> Holdings \cup {None}] /\ deskReq[r] \in DeskRequest
        /\ text' \in Req \cup {"none", "empty"}
        /\ deskReq[r].pc = "building" /\ c \in deskReq[r].todo /\ Builds(deskReq[r], built[r])
    BY DEF Desk!persist_holding, DeskInv, DeskTyped
  <1>2. CASE built[r] = None
    <2>1. Desk!Becomes(r, Desk!Idle) /\ UNCHANGED built
      BY <1>2 DEF Desk!persist_holding
    <2>2. Computes(Desk!Idle) /\ Builds(Desk!Idle, built[r])
      BY DeskIdle DEF Computes, Builds
    <2>3. QED
      BY <1>1, <2>1, <2>2, DeskIdle, DeskStep
  <1>3. CASE built[r] # None
    <2> DEFINE made == [built[r] EXCEPT !.holdings = built[r].holdings \cup {c}]
               q == [deskReq[r] EXCEPT !.todo = deskReq[r].todo \ {c}]
    <2>1. built[r] \in Holdings
      BY <1>1, <1>3
    <2>2. made \in Holdings /\ made.n_holdings = built[r].n_holdings
          /\ made.holdings = built[r].holdings \cup {c}
      BY <2>1 DEF Holdings
    <2>3. q \in DeskRequest /\ q.pc = "building" /\ q.todo = deskReq[r].todo \ {c}
      BY <1>1 DEF DeskRequest
    <2>4. built' = [built EXCEPT ![r] = made] /\ Desk!Becomes(r, q)
      BY <1>3, Zenon DEF Desk!persist_holding
    <2> HIDE DEF made, q
    <2>5. made.holdings \cup q.todo = built[r].holdings \cup deskReq[r].todo
      BY <1>1, <2>2, <2>3
    <2>6. Computes(q) /\ Builds(q, made)
      BY <1>1, <1>3, <2>2, <2>3, <2>5 DEF Computes, Builds
    <2>7. QED
      BY <1>1, <2>2, <2>3, <2>4, <2>6, RunStep
  <1>4. QED
    BY <1>2, <1>3

LEMMA KeepsRunDeleted ==
    ASSUME DeskInv, NEW r \in Req, Desk!delete_portfolio_run(r)
    PROVE  DeskInv'
  <1>1. /\ built' = [built EXCEPT ![r] = None] /\ UNCHANGED <<fund, gone, overtaken, text, deskReq>>
        /\ deskEdits' \in Desk!Version
    BY RecordConstants DEF Desk!delete_portfolio_run, DeskInv, DeskTyped, Desk!Edit, Desk!Version
  <1>2. deskReq \in [Req -> DeskRequest] /\ Computes(deskReq[r]) /\ Builds(deskReq[r], built[r])
    BY DEF DeskInv, DeskTyped
  <1>3. Desk!Becomes(r, deskReq[r])
    BY <1>1, <1>2 DEF Desk!Becomes
  <1>4. Builds(deskReq[r], None)
    BY <1>2 DEF Builds
  <1>5. QED
    BY <1>1, <1>2, <1>3, <1>4, RunStep

LEMMA DeskKeeps == DeskInv /\ [Desk!Next]_deskVars => DeskInv'
  <1> SUFFICES ASSUME DeskInv, [Desk!Next]_deskVars PROVE DeskInv'
    OBVIOUS
  <1>1. CASE UNCHANGED deskVars
    BY <1>1 DEF deskVars, DeskInv, DeskTyped, Computes, Current, Builds
  <1>2. CASE Desk!Next
    BY <1>2, DeskAnswers, KeepsEdits, KeepsReadInputs, KeepsCompute, KeepsBuild, KeepsHolding,
       KeepsRunDeleted
       DEF Desk!Next
  <1>3. QED
    BY <1>1, <1>2

LEMMA DeskInvSuffices == DeskInv => Desk!StampedFiguresAreCurrent /\ Desk!AnsweredRunsAreWhole
  <1> SUFFICES ASSUME DeskInv PROVE Desk!StampedFiguresAreCurrent /\ Desk!AnsweredRunsAreWhole
    OBVIOUS
  <1>1. Desk!StampedFiguresAreCurrent
    BY DEF DeskInv, Current, Desk!StampedFiguresAreCurrent
  <1>2. ASSUME NEW r \in Req, deskReq[r].pc = "built", built[r] # None
        PROVE  Desk!Cardinality(built[r].holdings) = built[r].n_holdings
    <2>1. deskReq[r].todo = {} /\ built[r].n_holdings = Desk!Cardinality(built[r].holdings \cup deskReq[r].todo)
      BY <1>2 DEF DeskInv, Builds
    <2>2. built[r].holdings \cup deskReq[r].todo = built[r].holdings
      BY <2>1
    <2>3. QED
      BY <2>1, <2>2
  <1>3. QED
    BY <1>1, <1>2 DEF Desk!AnsweredRunsAreWhole

(* Whatever overlaps and wherever a request stops, a stamped assessment    *)
(* shows the figures of its cash flows unless they changed under a         *)
(* compute, and an answered portfolio run holds as many companies as it    *)
(* says (routers/pim_pe.py, routers/pim_portfolio.py).                     *)
THEOREM DeskAlwaysHolds == AllSpec => []DeskHolds
  <1>1. AllInit => DeskInv
    BY DeskStarts DEF AllInit
  <1>2. [AllNext]_allVars => [Desk!Next]_deskVars
    BY DEF AllNext, allVars
  <1>3. DeskInv /\ [Desk!Next]_deskVars => DeskInv'
    BY DeskKeeps
  <1>4. DeskInv => DeskHolds
    BY DeskInvSuffices DEF DeskHolds
  <1>5. QED
    BY <1>1, <1>2, <1>3, <1>4, PTL DEF AllSpec
-----------------------------------------------------------------------------
(* An engagement.  Numbers are only compared, so that any set that holds   *)
(* those in use will do for their type.                                    *)

AfsPoints == {"idle", "draft", "insert", "edit", "history", "submit", "decide", "engagement", "roll"}
AfsSeen == {"none", "approved", "rejected", "review"} \cup AFS!Stage
AfsSection(N) == [number : N, status : {"none", "draft", "locked"}, version : N, text : Nat,
                  needs_review : BOOLEAN]
AfsRequest(N) == [pc : AfsPoints, section : Item \cup {None}, review : AfsReview \cup {None},
                  seen : AfsSeen, number : N, text : Nat]

AfsTyped(N) ==
    /\ 0 \in N /\ 1 \in N
    /\ sections \in [Item -> AfsSection(N)]
    /\ reviews \in [AfsReview -> [stage : AfsSeen, status : AfsSeen \cup {"pending"}]]
    /\ afsReq \in [Req -> AfsRequest(N)]
    /\ texts \in Nat

(* Of the edits that are about to record a text, one has the section's.    *)
Writes(q, s, sec) == q.pc = "history" /\ q.section = s /\ q.number = sec.version /\ q.text = sec.text
Entry(s, sec) == [section |-> s, version |-> sec.version, text |-> sec.text]
Whole(s) ==
    \/ sections[s].text = 0
    \/ \E r \in Req : Writes(afsReq[r], s, sections[s])
    \/ Entry(s, sections[s]) \in history

AfsInv == (\E N : AfsTyped(N)) /\ \A s \in Item : s \notin unrecorded => Whole(s)

LEMMA AfsIdle == \A N : 0 \in N => AFS!Idle \in AfsRequest(N) /\ AFS!Idle.pc = "idle"
  BY DEF AFS!Idle, AfsRequest, AfsPoints, AfsSeen

LEMMA AfsStarts == AFS!Init => AfsInv
  <1> SUFFICES ASSUME AFS!Init PROVE AfsInv
    OBVIOUS
  <1>1. /\ sections = [s \in Item |-> AFS!NoSection] /\ reviews = [v \in AfsReview |-> AFS!NoReview]
        /\ afsReq = [r \in Req |-> AFS!Idle] /\ texts = 0
    BY DEF AFS!Init
  <1>2. /\ AFS!NoSection \in AfsSection({0, 1}) /\ AFS!NoSection.text = 0
        /\ AFS!NoReview \in [stage : AfsSeen, status : AfsSeen \cup {"pending"}]
    BY DEF AFS!NoSection, AFS!NoReview, AfsSection, AfsSeen, AFS!Stage
  <1>3. AfsTyped({0, 1})
    BY <1>1, <1>2, AfsIdle DEF AfsTyped
  <1>4. \A s \in Item : Whole(s)
    BY <1>1, <1>2 DEF Whole
  <1>5. QED
    BY <1>3, <1>4, Zenon DEF AfsInv

LEMMA AfsWider ==
    ASSUME NEW N, NEW M, N \subseteq M
    PROVE  AfsSection(N) \subseteq AfsSection(M) /\ AfsRequest(N) \subseteq AfsRequest(M)
  BY DEF AfsSection, AfsRequest

(* A request goes on; what it was to record is recorded or given up.       *)
LEMMA AfsStep ==
    ASSUME NEW N, AfsTyped(N), AfsInv, NEW M, N \subseteq M, NEW r \in Req, NEW q \in AfsRequest(M),
           afsReq' = [afsReq EXCEPT ![r] = q],
           sections' \in [Item -> AfsSection(M)],
           reviews' \in [AfsReview -> [stage : AfsSeen, status : AfsSeen \cup {"pending"}]],
           texts' \in Nat, history \subseteq history', unrecorded \subseteq unrecorded',
           \A s \in Item : \/ s \in unrecorded'
                           \/ sections'[s].text = 0
                           \/ Writes(q, s, sections'[s])
                           \/ Entry(s, sections'[s]) \in history'
                           \/ /\ sections'[s].version = sections[s].version
                              /\ sections'[s].text = sections[s].text
                              /\ ~Writes(afsReq[r], s, sections[s])
    PROVE  AfsInv'
  <1>1. /\ afsReq' \in [Req -> AfsRequest(M)] /\ afsReq'[r] = q
        /\ \A o \in Req \ {r} : afsReq'[o] = afsReq[o]
    BY AfsWider DEF AfsTyped
  <1>2. AfsTyped(M)'
    BY <1>1 DEF AfsTyped
  <1>3. ASSUME NEW s \in Item, s \notin unrecorded' PROVE Whole(s)'
    <2>1. CASE sections'[s].text = 0 \/ Entry(s, sections'[s]) \in history'
      BY <2>1 DEF Whole, Entry
    <2>2. CASE Writes(q, s, sections'[s])
      BY <1>1, <2>2 DEF Whole, Writes
    <2>3. CASE /\ sections'[s].version = sections[s].version /\ sections'[s].text = sections[s].text
               /\ ~Writes(afsReq[r], s, sections[s])
      <3>1. Whole(s)
        BY <1>3 DEF AfsInv
      <3>2. Entry(s, sections'[s]) = Entry(s, sections[s])
        BY <2>3 DEF Entry
      <3>3. CASE sections[s].text = 0 \/ Entry(s, sections[s]) \in history
        BY <2>3, <3>2, <3>3 DEF Whole, Entry
      <3>4. CASE \E o \in Req : Writes(afsReq[o], s, sections[s])
        <4>1. PICK o \in Req : Writes(afsReq[o], s, sections[s])
          BY <3>4
        <4>2. o # r /\ afsReq'[o] = afsReq[o]
          BY <1>1, <2>3, <4>1
        <4>3. QED
          BY <2>3, <4>1, <4>2 DEF Whole, Writes
      <3>5. QED
        BY <3>1, <3>3, <3>4 DEF Whole
    <2>4. QED
      BY <1>3, <2>1, <2>2, <2>3
  <1>4. QED
    BY <1>2, <1>3, Zenon DEF AfsInv

LEMMA AfsGoesOn ==
    ASSUME NEW N, AfsTyped(N), AfsInv, NEW M, N \subseteq M, NEW r \in Req, NEW q \in AfsRequest(M),
           afsReq' = [afsReq EXCEPT ![r] = q], afsReq[r].pc # "history",
           UNCHANGED <<sections, history, unrecorded>>, texts' \in Nat,
           reviews' \in [AfsReview -> [stage : AfsSeen, status : AfsSeen \cup {"pending"}]]
    PROVE  AfsInv'
  <1>1. sections' \in [Item -> AfsSection(M)]
    BY AfsWider DEF AfsTyped
  <1>2. \A s \in Item : /\ sections'[s].version = sections[s].version
                        /\ sections'[s].text = sections[s].text
                        /\ ~Writes(afsReq[r], s, sections[s])
    BY DEF Writes
  <1>3. history \subseteq history' /\ unrecorded \subseteq unrecorded'
    OBVIOUS
  <1>4. QED
    BY <1>1, <1>2, <1>3, AfsStep

(* Requests start.                                                         *)
LEMMA AfsRequestsStart ==
    ASSUME AfsInv, NEW r \in Req,
           \/ AFS!draft_new_section(r) \/ AFS!rollforward_engagement(r)
           \/ \E s \in Item : AFS!update_section(r, s)
           \/ \E v \in AfsReview, stage \in AFS!Stage : AFS!submit_review(r, v, stage)
           \/ \E v \in AfsReview, d \in {"approved", "rejected"} : AFS!decide_review(r, v, d)
    PROVE  AfsInv'
  <1>1. PICK N : AfsTyped(N)
    BY DEF AfsInv
  <1>2. /\ afsReq[r].pc # "history" /\ UNCHANGED <<sections, history, unrecorded>>
        /\ texts' \in Nat /\ reviews' = reviews
        /\ reviews' \in [AfsReview -> [stage : AfsSeen, status : AfsSeen \cup {"pending"}]]
        /\ 0 \in N /\ 1 \in N /\ texts + 1 \in Nat
    <2>1. /\ afsReq[r].pc # "history" /\ UNCHANGED <<sections, history, unrecorded, reviews>>
          /\ texts' \in {texts, texts + 1}
      BY DEF AFS!draft_new_section, AFS!rollforward_engagement, AFS!update_section, AFS!submit_review,
             AFS!decide_review
    <2>2. /\ texts \in Nat /\ 0 \in N /\ 1 \in N
          /\ reviews \in [AfsReview -> [stage : AfsSeen, status : AfsSeen \cup {"pending"}]]
      BY <1>1 DEF AfsTyped
    <2>3. QED
      BY <2>1, <2>2
  <1>3. CASE AFS!draft_new_section(r)
    <2> DEFINE q == [AFS!Idle EXCEPT !.pc = "draft", !.text = texts + 1]
    <2>1. q \in AfsRequest(N)
      BY <1>2, AfsIdle DEF AFS!Idle, AfsRequest, AfsPoints, AfsSeen
    <2>2. afsReq' = [afsReq EXCEPT ![r] = q]
      BY <1>3 DEF AFS!draft_new_section
    <2> HIDE DEF q
    <2>3. QED
      BY <1>1, <1>2, <2>1, <2>2, AfsGoesOn
  <1>4. CASE AFS!rollforward_engagement(r)
    <2> DEFINE q == [AFS!Idle EXCEPT !.pc = "roll", !.number = 1]
    <2>1. q \in AfsRequest(N)
      BY <1>2, AfsIdle DEF AFS!Idle, AfsRequest, AfsPoints, AfsSeen
    <2>2. afsReq' = [afsReq EXCEPT ![r] = q]
      BY <1>4 DEF AFS!rollforward_engagement
    <2> HIDE DEF q
    <2>3. QED
      BY <1>1, <1>2, <2>1, <2>2, AfsGoesOn
  <1>5. ASSUME NEW s \in Item, AFS!update_section(r, s) PROVE AfsInv'
    <2>1. PICK M : M = N \cup {sections[s].version + 1}
      OBVIOUS
    <2> DEFINE q == [AFS!Idle EXCEPT !.pc = "edit", !.section = s, !.text = texts + 1,
                                     !.number = sections[s].version + 1]
    <2>2. q \in AfsRequest(M) /\ N \subseteq M
      BY <1>2, <2>1, AfsIdle DEF AFS!Idle, AfsRequest, AfsPoints, AfsSeen
    <2>3. afsReq' = [afsReq EXCEPT ![r] = q]
      BY <1>5 DEF AFS!update_section
    <2> HIDE DEF q
    <2>4. QED
      BY <1>1, <1>2, <2>2, <2>3, AfsGoesOn
  <1>6. ASSUME NEW v \in AfsReview, NEW stage \in AFS!Stage, AFS!submit_review(r, v, stage) PROVE AfsInv'
    <2> DEFINE q == [AFS!Idle EXCEPT !.pc = "submit", !.review = v, !.seen = stage]
    <2>1. q \in AfsRequest(N)
      BY <1>2, AfsIdle DEF AFS!Idle, AfsRequest, AfsPoints, AfsSeen
    <2>2. afsReq' = [afsReq EXCEPT ![r] = q]
      BY <1>6 DEF AFS!submit_review
    <2> HIDE DEF q
    <2>3. QED
      BY <1>1, <1>2, <2>1, <2>2, AfsGoesOn
  <1>7. ASSUME NEW v \in AfsReview, NEW d \in {"approved", "rejected"}, AFS!decide_review(r, v, d)
        PROVE  AfsInv'
    <2> DEFINE q == [AFS!Idle EXCEPT !.pc = "decide", !.review = v, !.seen = d]
    <2>1. q \in AfsRequest(N)
      BY <1>2, AfsIdle DEF AFS!Idle, AfsRequest, AfsPoints, AfsSeen
    <2>2. afsReq' = [afsReq EXCEPT ![r] = q]
      BY <1>7 DEF AFS!decide_review
    <2> HIDE DEF q
    <2>3. QED
      BY <1>1, <1>2, <2>1, <2>2, AfsGoesOn
  <1>8. QED
    BY <1>3, <1>4, <1>5, <1>6, <1>7

(* They write reviews, or end with nothing left to record.                 *)
LEMMA AfsRequestsGoOn ==
    ASSUME AfsInv, NEW r \in Req,
           \/ AFS!NextNumber(r) \/ AFS!rollforward_comparatives(r) \/ AFS!InsertReview(r)
           \/ AFS!Decide(r) \/ AFS!SetEngagement(r)
    PROVE  AfsInv'
  <1>1. PICK N : AfsTyped(N)
    BY DEF AfsInv
  <1>2. /\ afsReq[r].pc # "history" /\ UNCHANGED <<sections, history, unrecorded, texts>>
        /\ texts' \in Nat /\ 0 \in N /\ 1 \in N /\ afsReq[r] \in AfsRequest(N)
        /\ reviews \in [AfsReview -> [stage : AfsSeen, status : AfsSeen \cup {"pending"}]]
        /\ AFS!Idle \in AfsRequest(N)
    BY <1>1, AfsIdle DEF AFS!NextNumber, AFS!rollforward_comparatives, AFS!InsertReview, AFS!Decide,
                AFS!SetEngagement, AfsTyped
  <1>3. CASE AFS!NextNumber(r)
    <2>1. PICK n : afsReq' = [afsReq EXCEPT ![r].pc = "insert", ![r].number = n]
      BY <1>3 DEF AFS!NextNumber
    <2>2. PICK M : M = N \cup {n}
      OBVIOUS
    <2> DEFINE q == [[afsReq[r] EXCEPT !.pc = "insert"] EXCEPT !.number = n]
    <2>3. afsReq[r] \in AfsRequest(M) /\ N \subseteq M
      BY <1>2, <2>2, AfsWider
    <2>4. q \in AfsRequest(M)
      BY <2>2, <2>3 DEF AfsRequest, AfsPoints
    <2>5. afsReq' = [afsReq EXCEPT ![r] = q]
      BY <2>1, Zenon
    <2> HIDE DEF q
    <2>6. reviews' = reviews
      BY <1>3 DEF AFS!NextNumber
    <2>7. QED
      BY <1>1, <1>2, <2>3, <2>4, <2>5, <2>6, AfsGoesOn
  <1>4. CASE AFS!rollforward_comparatives(r) \/ AFS!SetEngagement(r)
    <2>1. afsReq' = [afsReq EXCEPT ![r] = AFS!Idle] /\ reviews' = reviews
      BY <1>4 DEF AFS!rollforward_comparatives, AFS!SetEngagement
    <2>2. QED
      BY <1>1, <1>2, <2>1, AfsGoesOn
  <1>5. CASE AFS!InsertReview(r)
    <2> DEFINE q == [[afsReq[r] EXCEPT !.pc = "engagement"] EXCEPT !.seen = "review"]
    <2>1. q \in AfsRequest(N)
      BY <1>2 DEF AfsRequest, AfsPoints, AfsSeen
    <2>2. afsReq' = [afsReq EXCEPT ![r] = q]
      BY <1>5, Zenon DEF AFS!InsertReview
    <2> HIDE DEF q
    <2>3. afsReq[r].seen \in AfsSeen
      BY <1>2 DEF AfsRequest
    <2>4. [stage |-> afsReq[r].seen, status |-> "pending"] \in
             [stage : AfsSeen, status : AfsSeen \cup {"pending"}]
      BY <2>3
    <2>5. reviews' \in [AfsReview -> [stage : AfsSeen, status : AfsSeen \cup {"pending"}]]
      BY <1>2, <1>5, <2>4 DEF AFS!InsertReview
    <2>6. QED
      BY <1>1, <1>2, <2>1, <2>2, <2>5, AfsGoesOn
  <1>6. CASE AFS!Decide(r)
    <2>1. PICK v : v = afsReq[r].review
      OBVIOUS
    <2>2. PICK d : d = afsReq[r].seen
      OBVIOUS
    <2>3. d \in AfsSeen
      BY <1>2, <2>2 DEF AfsRequest
    <2>4. reviews' = [reviews EXCEPT ![v].status = d]
      BY <1>6, <2>1, <2>2 DEF AFS!Decide
    <2>5. ASSUME v \in AfsReview
          PROVE  [reviews[v] EXCEPT !.status = d] \in [stage : AfsSeen, status : AfsSeen \cup {"pending"}]
      BY <1>2, <2>3, <2>5
    <2>6. reviews' = [reviews EXCEPT ![v] = [reviews[v] EXCEPT !.status = d]]
      BY <2>4, Zenon
    <2>7. reviews' \in [AfsReview -> [stage : AfsSeen, status : AfsSeen \cup {"pending"}]]
      BY <1>2, <2>5, <2>6
    <2>8. PICK q \in AfsRequest(N) : afsReq' = [afsReq EXCEPT ![r] = q]
      <3>1. [afsReq[r] EXCEPT !.pc = "engagement"] \in AfsRequest(N)
        BY <1>2 DEF AfsRequest, AfsPoints
      <3>2. \/ afsReq' = [afsReq EXCEPT ![r] = [afsReq[r] EXCEPT !.pc = "engagement"]]
            \/ afsReq' = [afsReq EXCEPT ![r] = AFS!Idle]
        BY <1>6, Zenon DEF AFS!Decide
      <3>3. QED
        BY <1>2, <3>1, <3>2, Zenon
    <2>9. QED
      BY <1>1, <1>2, <2>7, <2>8, AfsGoesOn
  <1>7. QED
    BY <1>3, <1>4, <1>5, <1>6

(* They write sections and their history.                                  *)
LEMMA KeepsInsertSection ==
    ASSUME AfsInv, NEW r \in Req, AFS!InsertSection(r)
    PROVE  AfsInv'
  <1>1. PICK N : AfsTyped(N)
    BY DEF AfsInv
  <1>2. /\ afsReq[r].pc # "history" /\ UNCHANGED <<history, unrecorded, texts, reviews>>
        /\ texts' \in Nat /\ 0 \in N /\ 1 \in N /\ afsReq[r] \in AfsRequest(N)
        /\ reviews' \in [AfsReview -> [stage : AfsSeen, status : AfsSeen \cup {"pending"}]]
        /\ AFS!Idle \in AfsRequest(N) /\ sections \in [Item -> AfsSection(N)]
    BY <1>1, AfsIdle DEF AFS!InsertSection, AfsTyped
  <1>3. CASE afsReq[r].number \in AFS!Numbers
    <2>1. afsReq' = [afsReq EXCEPT ![r] = AFS!Idle] /\ UNCHANGED sections
      BY <1>3 DEF AFS!InsertSection
    <2>2. QED
      BY <1>1, <1>2, <2>1, AfsGoesOn
  <1>4. CASE afsReq[r].number \notin AFS!Numbers
    <2>1. PICK s \in Item :
            /\ sections' = [sections EXCEPT ![s] = [number |-> afsReq[r].number, status |-> "draft", version |-> 1,
                                                    text |-> afsReq[r].text, needs_review |-> FALSE]]
            /\ afsReq' = [afsReq EXCEPT ![r] = [@ EXCEPT !.pc = "history", !.section = s, !.number = 1]]
      BY <1>4 DEF AFS!InsertSection
    <2> DEFINE q == [[[afsReq[r] EXCEPT !.pc = "history"] EXCEPT !.section = s] EXCEPT !.number = 1]
               sec == [number |-> afsReq[r].number, status |-> "draft", version |-> 1,
                       text |-> afsReq[r].text, needs_review |-> FALSE]
    <2>2. q \in AfsRequest(N) /\ q.pc = "history" /\ q.section = s /\ q.number = 1 /\ q.text = afsReq[r].text
      BY <1>2 DEF AfsRequest, AfsPoints
    <2>3. sec \in AfsSection(N) /\ sec.version = 1 /\ sec.text = afsReq[r].text
      BY <1>2 DEF AfsSection, AfsRequest
    <2>4. afsReq' = [afsReq EXCEPT ![r] = q] /\ sections' = [sections EXCEPT ![s] = sec]
      BY <2>1, Zenon
    <2> HIDE DEF q, sec
    <2>5. /\ sections' \in [Item -> AfsSection(N)] /\ sections'[s] = sec
          /\ \A t \in Item \ {s} : sections'[t] = sections[t]
      BY <1>2, <2>3, <2>4
    <2>6. Writes(q, s, sections'[s])
      BY <2>2, <2>3, <2>5 DEF Writes
    <2>7. \A t \in Item \ {s} : /\ sections'[t].version = sections[t].version
                                /\ sections'[t].text = sections[t].text
                                /\ ~Writes(afsReq[r], t, sections[t])
      BY <1>2, <2>5 DEF Writes
    <2>8. N \subseteq N /\ history \subseteq history' /\ unrecorded \subseteq unrecorded'
      BY <1>2
    <2>9. \A t \in Item : \/ t \in unrecorded'
                          \/ sections'[t].text = 0
                          \/ Writes(q, t, sections'[t])
                          \/ Entry(t, sections'[t]) \in history'
                          \/ /\ sections'[t].version = sections[t].version
                             /\ sections'[t].text = sections[t].text
                             /\ ~Writes(afsReq[r], t, sections[t])
      BY <2>6, <2>7
    <2>10. QED
      BY <1>1, <1>2, <2>2, <2>4, <2>5, <2>8, <2>9, AfsStep, ZenonT(30)
  <1>5. QED
    BY <1>3, <1>4

LEMMA KeepsWriteSection ==
    ASSUME AfsInv, NEW r \in Req, AFS!WriteSection(r)
    PROVE  AfsInv'
  <1>1. PICK N : AfsTyped(N)
    BY DEF AfsInv
  <1>2. /\ afsReq[r].pc = "edit" /\ UNCHANGED <<history, unrecorded, texts, reviews>>
        /\ texts' \in Nat /\ afsReq[r] \in AfsRequest(N)
        /\ reviews' \in [AfsReview -> [stage : AfsSeen, status : AfsSeen \cup {"pending"}]]
        /\ sections \in [Item -> AfsSection(N)]
    BY <1>1 DEF AFS!WriteSection, AfsTyped
  <1>3. PICK s : s = afsReq[r].section
    OBVIOUS
  <1> DEFINE q == [afsReq[r] EXCEPT !.pc = "history"]
             sec == [[sections[s] EXCEPT !.version = afsReq[r].number] EXCEPT !.text = afsReq[r].text]
  <1>4. /\ q \in AfsRequest(N) /\ q.pc = "history" /\ q.section = s
        /\ q.number = afsReq[r].number /\ q.text = afsReq[r].text
    BY <1>2, <1>3 DEF AfsRequest, AfsPoints
  <1>5. s \in Item => sec \in AfsSection(N) /\ sec.version = afsReq[r].number /\ sec.text = afsReq[r].text
    BY <1>2, ZenonT(30) DEF AfsSection, AfsRequest
  <1>6. afsReq' = [afsReq EXCEPT ![r] = q]
    BY Zenon DEF AFS!WriteSection
  <1>7. sections' = [sections EXCEPT ![s] = sec]
    BY <1>3, Zenon DEF AFS!WriteSection
  <1> HIDE DEF q, sec
  <1>8. /\ sections' \in [Item -> AfsSection(N)]
        /\ s \in Item => sections'[s] = sec
        /\ \A t \in Item \ {s} : sections'[t] = sections[t]
    BY <1>2, <1>5, <1>7
  <1>9. s \in Item => Writes(q, s, sections'[s])
    BY <1>4, <1>5, <1>8 DEF Writes
  <1>10. \A t \in Item \ {s} : /\ sections'[t].version = sections[t].version
                               /\ sections'[t].text = sections[t].text
                               /\ ~Writes(afsReq[r], t, sections[t])
    BY <1>2, <1>8 DEF Writes
  <1>11. N \subseteq N /\ history \subseteq history' /\ unrecorded \subseteq unrecorded'
    BY <1>2
  <1>12. \A t \in Item : \/ t \in unrecorded'
                         \/ sections'[t].text = 0
                         \/ Writes(q, t, sections'[t])
                         \/ Entry(t, sections'[t]) \in history'
                         \/ /\ sections'[t].version = sections[t].version
                            /\ sections'[t].text = sections[t].text
                            /\ ~Writes(afsReq[r], t, sections[t])
    BY <1>9, <1>10
  <1>13. QED
    BY <1>1, <1>2, <1>4, <1>6, <1>8, <1>11, <1>12, AfsStep

LEMMA KeepsRecorded ==
    ASSUME AfsInv, NEW r \in Req, AFS!RecordHistory(r) \/ AFS!Fail(r)
    PROVE  AfsInv'
  <1>1. PICK N : AfsTyped(N)
    BY DEF AfsInv
  <1>2. /\ UNCHANGED <<sections, texts, reviews>> /\ afsReq' = [afsReq EXCEPT ![r] = AFS!Idle]
        /\ texts' \in Nat /\ AFS!Idle \in AfsRequest(N)
        /\ reviews' \in [AfsReview -> [stage : AfsSeen, status : AfsSeen \cup {"pending"}]]
        /\ sections' \in [Item -> AfsSection(N)]
    BY <1>1, AfsIdle DEF AFS!RecordHistory, AFS!Fail, AfsTyped
  <1>3. N \subseteq N /\ history \subseteq history' /\ unrecorded \subseteq unrecorded'
    BY DEF AFS!RecordHistory, AFS!Fail
  <1>4. ASSUME NEW s \in Item, Writes(afsReq[r], s, sections[s])
        PROVE  s \in unrecorded' \/ Entry(s, sections[s]) \in history'
    BY <1>4 DEF AFS!RecordHistory, AFS!Fail, AFS!Recorded, Writes, Entry
  <1>5. \A s \in Item : \/ s \in unrecorded'
                        \/ sections'[s].text = 0
                        \/ Writes(AFS!Idle, s, sections'[s])
                        \/ Entry(s, sections'[s]) \in history'
                        \/ /\ sections'[s].version = sections[s].version
                           /\ sections'[s].text = sections[s].text
                           /\ ~Writes(afsReq[r], s, sections[s])
    BY <1>2, <1>4 DEF Entry
  <1>6. QED
    BY <1>1, <1>2, <1>3, <1>5, AfsStep

LEMMA KeepsRollforward ==
    ASSUME AfsInv, NEW r \in Req, AFS!rollforward_sections(r)
    PROVE  AfsInv'
  <1>1. PICK N : AfsTyped(N)
    BY DEF AfsInv
  <1>2. /\ afsReq[r].pc = "roll" /\ UNCHANGED <<history, unrecorded, texts, reviews>>
        /\ texts' \in Nat /\ 0 \in N /\ 1 \in N /\ afsReq[r] \in AfsRequest(N)
        /\ reviews' \in [AfsReview -> [stage : AfsSeen, status : AfsSeen \cup {"pending"}]]
        /\ sections \in [Item -> AfsSection(N)]
    BY <1>1 DEF AFS!rollforward_sections, AfsTyped
  <1>3. PICK n : n = afsReq[r].number
    OBVIOUS
  <1>4. PICK M : M = N \cup {n + 1}
    OBVIOUS
  <1>5. n \in N /\ N \subseteq M /\ sections \in [Item -> AfsSection(M)] /\ afsReq[r] \in AfsRequest(M)
    BY <1>2, <1>3, <1>4, AfsWider DEF AfsRequest
  <1> DEFINE q == [afsReq[r] EXCEPT !.number = n + 1]
             sec == [number |-> n, status |-> "draft", version |-> 1, text |-> 0, needs_review |-> TRUE]
  <1>6. q \in AfsRequest(M)
    BY <1>4, <1>5 DEF AfsRequest
  <1>7. sec \in AfsSection(M) /\ sec.text = 0
    BY <1>2, <1>5 DEF AfsSection
  <1>8. afsReq' = [afsReq EXCEPT ![r] = q]
    BY <1>3, Zenon DEF AFS!rollforward_sections
  <1>9. sections' = sections \/ \E s \in Item : sections' = [sections EXCEPT ![s] = sec]
    BY <1>3, Zenon DEF AFS!rollforward_sections
  <1> HIDE DEF q, sec
  <1>10. /\ sections' \in [Item -> AfsSection(M)]
         /\ \A t \in Item : sections'[t] = sections[t] \/ sections'[t].text = 0
    BY <1>5, <1>7, <1>9
  <1>11. history \subseteq history' /\ unrecorded \subseteq unrecorded'
    BY <1>2
  <1>12. \A t \in Item : \/ t \in unrecorded'
                         \/ sections'[t].text = 0
                         \/ Writes(q, t, sections'[t])
                         \/ Entry(t, sections'[t]) \in history'
                         \/ /\ sections'[t].version = sections[t].version
                            /\ sections'[t].text = sections[t].text
                            /\ ~Writes(afsReq[r], t, sections[t])
    BY <1>2, <1>10 DEF Writes
  <1>13. QED
    BY <1>1, <1>2, <1>5, <1>6, <1>8, <1>10, <1>11, <1>12, AfsStep

(* A lock changes neither a text nor its version; the rest writes neither. *)
LEMMA KeepsOthers ==
    ASSUME AfsInv,
           \/ \E st \in AFS!EngagementStatus : AFS!update_engagement(st)
           \/ AFS!upload_trial_balance \/ AFS!generate_output \/ UNCHANGED afsVars
           \/ \E s \in Item, st \in {"draft", "locked"} : AFS!lock_section(s, st)
    PROVE  AfsInv'
  <1>1. PICK N : AfsTyped(N)
    BY DEF AfsInv
  <1>2. UNCHANGED <<afsReq, reviews, texts, history, unrecorded>>
    BY DEF AFS!update_engagement, AFS!upload_trial_balance, AFS!generate_output, afsVars, AFS!lock_section
  <1>3. sections \in [Item -> AfsSection(N)]
    BY <1>1 DEF AfsTyped
  <1>4. /\ sections' \in [Item -> AfsSection(N)]
        /\ \A s \in Item : /\ sections'[s].version = sections[s].version
                           /\ sections'[s].text = sections[s].text
    <2>1. CASE UNCHANGED sections
      BY <1>3, <2>1
    <2>2. ASSUME NEW s \in Item, NEW st \in {"draft", "locked"}, AFS!lock_section(s, st)
          PROVE  <1>4!:
      <3> DEFINE sec == [sections[s] EXCEPT !.status = st]
      <3>1. sec \in AfsSection(N) /\ sec.version = sections[s].version /\ sec.text = sections[s].text
        BY <1>3 DEF AfsSection
      <3>2. sections' = [sections EXCEPT ![s] = sec]
        BY <2>2, Zenon DEF AFS!lock_section
      <3> HIDE DEF sec
      <3>3. QED
        BY <1>3, <3>1, <3>2
    <2>3. QED
      BY <2>1, <2>2
         DEF AFS!update_engagement, AFS!upload_trial_balance, AFS!generate_output, afsVars
  <1>5. AfsTyped(N)'
    BY <1>1, <1>2, <1>4 DEF AfsTyped
  <1>6. ASSUME NEW s \in Item, s \notin unrecorded' PROVE Whole(s)'
    <2>1. Whole(s)
      BY <1>2, <1>6 DEF AfsInv
    <2>2. QED
      BY <1>2, <1>4, <2>1 DEF Whole, Writes, Entry
  <1>7. QED
    BY <1>5, <1>6, Zenon DEF AfsInv

LEMMA AfsKeeps == AfsInv /\ [AFS!Next]_afsVars => AfsInv'
  <1> SUFFICES ASSUME AfsInv, [AFS!Next]_afsVars PROVE AfsInv'
    OBVIOUS
  <1>1. CASE UNCHANGED afsVars
    BY <1>1, KeepsOthers
  <1>2. CASE AFS!Next
    BY <1>2, KeepsOthers, AfsRequestsStart, AfsRequestsGoOn, KeepsInsertSection, KeepsWriteSection,
       KeepsRecorded, KeepsRollforward
       DEF AFS!Next
  <1>3. QED
    BY <1>1, <1>2

LEMMA AfsInvSuffices == AfsInv => AFS!HistoryIsWhole
  BY DEF AfsInv, AFS!HistoryIsWhole, Whole, Writes, Entry

(* A decision is written only where a review was read pending, and a       *)
(* review inserted only where there was none.                              *)
LEMMA AfsFinal ==
    ASSUME AfsInv, AFS!Next, NEW v \in AfsReview, AFS!Final(v)
    PROVE  AFS!Final(v)' /\ reviews'[v] = reviews[v]
  <1>1. PICK N : AfsTyped(N)
    BY DEF AfsInv
  <1>2. /\ reviews \in [AfsReview -> [stage : AfsSeen, status : AfsSeen \cup {"pending"}]]
        /\ afsReq \in [Req -> AfsRequest(N)]
    BY <1>1 DEF AfsTyped
  <1>3. reviews[v].status \in {"approved", "rejected"}
        /\ \A r \in Req : afsReq[r].pc = "decide" => afsReq[r].review # v
    BY DEF AFS!Final
  <1>4. reviews'[v] = reviews[v]
    <2>1. ASSUME NEW r \in Req, AFS!InsertReview(r) PROVE reviews'[v] = reviews[v]
      BY <1>2, <1>3, <2>1 DEF AFS!InsertReview
    <2>2. ASSUME NEW r \in Req, AFS!Decide(r) PROVE reviews'[v] = reviews[v]
      BY <1>2, <1>3, <2>2 DEF AFS!Decide
    <2>3. QED
      BY <2>1, <2>2
         DEF AFS!Next, AFS!update_engagement, AFS!upload_trial_balance, AFS!draft_new_section, AFS!NextNumber,
             AFS!InsertSection, AFS!update_section, AFS!WriteSection, AFS!RecordHistory, AFS!lock_section,
             AFS!rollforward_engagement, AFS!rollforward_sections, AFS!rollforward_comparatives,
             AFS!submit_review, AFS!decide_review, AFS!SetEngagement, AFS!generate_output, AFS!Fail
  <1>5. ASSUME NEW o \in Req, afsReq'[o].pc = "decide"
        PROVE  afsReq'[o].review # v
    <2>1. CASE afsReq'[o] = afsReq[o]
      BY <1>3, <1>5, <2>1
    <2>2. CASE afsReq'[o] # afsReq[o]
      <3>1. ASSUME NEW r \in Req, NEW w \in AfsReview, NEW d \in {"approved", "rejected"},
                   AFS!decide_review(r, w, d)
            PROVE  afsReq'[o].review # v
        <4>1. o = r /\ afsReq'[o] = [AFS!Idle EXCEPT !.pc = "decide", !.review = w, !.seen = d]
          BY <1>2, <2>2, <3>1 DEF AFS!decide_review
        <4>2. afsReq'[o].review = w
          BY <4>1 DEF AFS!Idle
        <4>3. reviews[w].status = "pending"
          BY <3>1 DEF AFS!decide_review, AFS!Pending
        <4>4. QED
          BY <1>3, <4>2, <4>3
      <3>2. ASSUME NEW r \in Req, NEW q, afsReq' = [afsReq EXCEPT ![r] = q], q.pc # "decide" PROVE FALSE
        <4>1. o = r
          BY <1>2, <2>2, <3>2
        <4>2. afsReq'[o] = q
          BY <1>2, <3>2, <4>1
        <4>3. QED
          BY <1>5, <3>2, <4>2
      <3>3. ASSUME NEW r \in Req, AFS!RecordHistory(r) \/ AFS!rollforward_comparatives(r)
                                  \/ AFS!SetEngagement(r) \/ AFS!Fail(r)
            PROVE  FALSE
        <4>1. AFS!Idle.pc # "decide"
          BY DEF AFS!Idle
        <4>2. afsReq' = [afsReq EXCEPT ![r] = AFS!Idle]
          BY <3>3 DEF AFS!RecordHistory, AFS!rollforward_comparatives, AFS!SetEngagement, AFS!Fail
        <4>3. QED
          BY <3>2, <4>1, <4>2
      <3>4. ASSUME NEW r \in Req,
                   \/ AFS!draft_new_section(r) \/ AFS!rollforward_engagement(r)
                   \/ \E s \in Item : AFS!update_section(r, s)
                   \/ \E w \in AfsReview, stage \in AFS!Stage : AFS!submit_review(r, w, stage)
            PROVE  FALSE
        <4>1. CASE AFS!draft_new_section(r)
          <5> DEFINE q == [AFS!Idle EXCEPT !.pc = "draft", !.text = texts + 1]
          <5>1. q.pc = "draft"
            BY DEF AFS!Idle
          <5>2. afsReq' = [afsReq EXCEPT ![r] = q]
            BY <4>1, Zenon DEF AFS!draft_new_section
          <5> HIDE DEF q
          <5>3. QED
            BY <3>2, <5>1, <5>2
        <4>2. CASE AFS!rollforward_engagement(r)
          <5> DEFINE q == [AFS!Idle EXCEPT !.pc = "roll", !.number = 1]
          <5>1. q.pc = "roll"
            BY DEF AFS!Idle
          <5>2. afsReq' = [afsReq EXCEPT ![r] = q]
            BY <4>2, Zenon DEF AFS!rollforward_engagement
          <5> HIDE DEF q
          <5>3. QED
            BY <3>2, <5>1, <5>2
        <4>3. ASSUME NEW s \in Item, AFS!update_section(r, s) PROVE FALSE
          <5> DEFINE q == [AFS!Idle EXCEPT !.pc = "edit", !.section = s, !.text = texts + 1,
                                         !.number = sections[s].version + 1]
          <5>1. q.pc = "edit"
            BY DEF AFS!Idle
          <5>2. afsReq' = [afsReq EXCEPT ![r] = q]
            BY <4>3, Zenon DEF AFS!update_section
          <5> HIDE DEF q
          <5>3. QED
            BY <3>2, <5>1, <5>2
        <4>4. ASSUME NEW w \in AfsReview, NEW stage \in AFS!Stage, AFS!submit_review(r, w, stage) PROVE FALSE
          <5> DEFINE q == [AFS!Idle EXCEPT !.pc = "submit", !.review = w, !.seen = stage]
          <5>1. q.pc = "submit"
            BY DEF AFS!Idle
          <5>2. afsReq' = [afsReq EXCEPT ![r] = q]
            BY <4>4, Zenon DEF AFS!submit_review
          <5> HIDE DEF q
          <5>3. QED
            BY <3>2, <5>1, <5>2
        <4>5. QED
          BY <3>4, <4>1, <4>2, <4>3, <4>4
      <3>5. ASSUME NEW r \in Req,
                   \/ AFS!NextNumber(r) \/ AFS!InsertSection(r) \/ AFS!WriteSection(r) \/ AFS!InsertReview(r)
                   \/ AFS!Decide(r) \/ AFS!rollforward_sections(r)
            PROVE  FALSE
        <4>1. afsReq[r] \in AfsRequest(N)
          BY <1>2
        <4>2. CASE AFS!NextNumber(r)
          <5>1. PICK n : afsReq' = [afsReq EXCEPT ![r].pc = "insert", ![r].number = n]
            BY <4>2 DEF AFS!NextNumber
          <5> DEFINE q == [[afsReq[r] EXCEPT !.pc = "insert"] EXCEPT !.number = n]
          <5>2. q.pc = "insert"
            BY <4>1 DEF AfsRequest
          <5>3. afsReq' = [afsReq EXCEPT ![r] = q]
            BY <5>1, Zenon
          <5> HIDE DEF q
          <5>4. QED
            BY <3>2, <5>2, <5>3
        <4>3. CASE AFS!InsertSection(r)
          <5>1. CASE afsReq' = [afsReq EXCEPT ![r] = AFS!Idle]
            <6>1. AFS!Idle.pc # "decide"
              BY DEF AFS!Idle
            <6>2. QED
              BY <3>2, <5>1, <6>1
          <5>2. ASSUME NEW s \in Item,
                       afsReq' = [afsReq EXCEPT ![r] = [@ EXCEPT !.pc = "history", !.section = s, !.number = 1]]
                PROVE  FALSE
            <6> DEFINE q == [afsReq[r] EXCEPT !.pc = "history", !.section = s, !.number = 1]
            <6>1. q.pc # "decide"
              BY <4>1 DEF AfsRequest
            <6>2. afsReq' = [afsReq EXCEPT ![r] = q]
              BY <5>2, Zenon
            <6> HIDE DEF q
            <6>3. QED
              BY <3>2, <6>1, <6>2
          <5>3. QED
            BY <4>3, <5>1, <5>2, Zenon DEF AFS!InsertSection
        <4>4. CASE AFS!WriteSection(r)
          <5> DEFINE q == [afsReq[r] EXCEPT !.pc = "history"]
          <5>1. q.pc = "history"
            BY <4>1 DEF AfsRequest
          <5>2. afsReq' = [afsReq EXCEPT ![r] = q]
            BY <4>4, Zenon DEF AFS!WriteSection
          <5> HIDE DEF q
          <5>3. QED
            BY <3>2, <5>1, <5>2
        <4>5. CASE AFS!InsertReview(r)
          <5> DEFINE q == [[afsReq[r] EXCEPT !.pc = "engagement"] EXCEPT !.seen = "review"]
          <5>1. q.pc = "engagement"
            BY <4>1 DEF AfsRequest
          <5>2. afsReq' = [afsReq EXCEPT ![r] = q]
            BY <4>5, Zenon DEF AFS!InsertReview
          <5> HIDE DEF q
          <5>3. QED
            BY <3>2, <5>1, <5>2
        <4>6. CASE AFS!Decide(r)
          <5> DEFINE q == [afsReq[r] EXCEPT !.pc = "engagement"]
          <5>1. q.pc = "engagement" /\ AFS!Idle.pc = "idle"
            BY <4>1 DEF AfsRequest, AFS!Idle
          <5>2. afsReq' = [afsReq EXCEPT ![r] = q] \/ afsReq' = [afsReq EXCEPT ![r] = AFS!Idle]
            BY <4>6, Zenon DEF AFS!Decide
          <5> HIDE DEF q
          <5>3. QED
            BY <3>2, <5>1, <5>2
        <4>7. CASE AFS!rollforward_sections(r)
          <5> DEFINE q == [afsReq[r] EXCEPT !.number = afsReq[r].number + 1]
          <5>1. afsReq[r].pc = "roll"
            BY <4>7 DEF AFS!rollforward_sections
          <5>2. q.pc = "roll"
            BY <4>1, <5>1 DEF AfsRequest
          <5>3. afsReq' = [afsReq EXCEPT ![r] = q]
            BY <4>7, Zenon DEF AFS!rollforward_sections
          <5> HIDE DEF q
          <5>4. QED
            BY <3>2, <5>2, <5>3
        <4>8. QED
          BY <3>5, <4>2, <4>3, <4>4, <4>5, <4>6, <4>7
      <3>6. QED
        BY <2>2, <3>1, <3>3, <3>4, <3>5
           DEF AFS!Next, AFS!update_engagement, AFS!upload_trial_balance, AFS!lock_section, AFS!generate_output
    <2>3. QED
      BY <2>1, <2>2
  <1>6. QED
    BY <1>3, <1>4, <1>5 DEF AFS!Final

LEMMA AfsFinalStep ==
    AfsInv /\ [AFS!Next]_afsVars
      => [\A v \in AfsReview : AFS!Final(v) => AFS!Final(v)' /\ reviews'[v] = reviews[v]]_(AFS!vars)
  <1> SUFFICES ASSUME AfsInv, [AFS!Next]_afsVars
               PROVE  [\A v \in AfsReview : AFS!Final(v) => AFS!Final(v)' /\ reviews'[v] = reviews[v]]_(AFS!vars)
    OBVIOUS
  <1>1. CASE AFS!Next
    BY <1>1, AfsFinal
  <1>2. CASE UNCHANGED afsVars
    BY <1>2 DEF afsVars, AFS!vars
  <1>3. QED
    BY <1>1, <1>2

(* Whatever overlaps and wherever a request stops, the history holds the   *)
(* text of each section whose recording did not fail, or a request is      *)
(* about to add to it; and a decided review stays as it was decided once   *)
(* no other decision is under way that read it pending (routers/afs.py).   *)
THEOREM DisclosuresAlwaysHold == AllSpec => DisclosuresHold
  <1>1. AllInit => AfsInv
    BY AfsStarts DEF AllInit
  <1>2. [AllNext]_allVars => [AFS!Next]_afsVars
    BY DEF AllNext, allVars
  <1>3. AfsInv /\ [AFS!Next]_afsVars => AfsInv'
    BY AfsKeeps
  <1>4. AfsInv => (part = "afs" => AFS!HistoryIsWhole)
    BY AfsInvSuffices
  <1>5. QED
    BY <1>1, <1>2, <1>3, <1>4, AfsFinalStep, PTL DEF AllSpec, DisclosuresHold, AFS!DecisionsAreFinal
-----------------------------------------------------------------------------
(* Subscriptions.  A call goes on to create a row when it has read none    *)
(* that is live; so the live rows that no webhook revived and the calls    *)
(* about to create one are together no more than the calls at once.        *)

SubsRow == [plan : KnownPlan, status : Subs!Status]

SubsTyped ==
    /\ subs \in Seq(SubsRow)
    /\ DOMAIN subsReq = Req
    /\ \A r \in Req : /\ subsReq[r].at = "update" => subsReq[r].plan \in KnownPlan
                      /\ subsReq[r].at = "webhook" => subsReq[r].status \in Subs!Status

Unrevived == Subs!LiveRows \ revived
Creating == {r \in Req : subsReq[r].at = "create"}

SubsInv == SubsTyped /\ Cardinality(Unrevived) + Cardinality(Creating) <= Cardinality(Req)

LEMMA SubsCardinality == \A S : Subs!Cardinality(S) = Cardinality(S)
  BY DEF Subs!Cardinality, Cardinality

LEMMA SubsStart == Subs!Init => SubsInv
  <1> SUFFICES ASSUME Subs!Init PROVE SubsInv
    OBVIOUS
  <1>1. SubsTyped
    BY DEF Subs!Init, SubsTyped, Subs!Idle
  <1>2. Unrevived = {} /\ Creating = {}
    BY DEF Subs!Init, Unrevived, Creating, Subs!LiveRows, Subs!Idle
  <1>3. Cardinality({}) = 0 /\ Cardinality(Req) \in Nat
    BY RecordConstants, FS_EmptySet, FS_CardinalityType
  <1>4. QED
    BY <1>1, <1>2, <1>3 DEF SubsInv

LEMMA SubsFinite ==
    ASSUME subs \in Seq(SubsRow)
    PROVE  Subs!LiveRows \subseteq 1..Len(subs) /\ Len(subs) \in Nat /\ IsFiniteSet(Subs!LiveRows)
  <1>1. Subs!LiveRows \subseteq 1..Len(subs) /\ Len(subs) \in Nat
    BY LenProperties DEF Subs!LiveRows
  <1>2. IsFiniteSet(1..Len(subs))
    BY <1>1, FS_Interval
  <1>3. IsFiniteSet(Subs!LiveRows)
    BY <1>1, <1>2, FS_Subset
  <1>4. QED
    BY <1>1, <1>3

(* The newest live row is found whenever there is one.                     *)
LEMMA NoneIsNone ==
    ASSUME subs \in Seq(SubsRow), Subs!get_subscription = None
    PROVE  Subs!LiveRows = {}
  <1> SUFFICES ASSUME Subs!LiveRows # {} PROVE FALSE
    OBVIOUS
  <1>1. \E m \in Subs!LiveRows : \A k \in Subs!LiveRows : k <= m
    BY SubsFinite, GreatestExists
  <1>2. Subs!get_subscription \in Subs!LiveRows
    BY <1>1 DEF Subs!get_subscription
  <1>3. QED
    BY <1>2, SubsFinite, RecordConstants

(* Where neither gains, the sum does not grow.                             *)
LEMMA SubsGainNothing ==
    ASSUME SubsInv, SubsTyped', Unrevived' \subseteq Unrevived, Creating' \subseteq Creating
    PROVE  SubsInv'
  <1>1. IsFiniteSet(Unrevived) /\ IsFiniteSet(Creating)
    BY SubsFinite, RecordConstants, FS_Subset DEF SubsInv, SubsTyped, Unrevived, Creating
  <1>2. /\ Cardinality(Unrevived') <= Cardinality(Unrevived)
        /\ Cardinality(Creating') <= Cardinality(Creating)
        /\ IsFiniteSet(Unrevived') /\ IsFiniteSet(Creating')
    BY <1>1, FS_Subset
  <1>3. /\ Cardinality(Unrevived) \in Nat /\ Cardinality(Creating) \in Nat
        /\ Cardinality(Unrevived') \in Nat /\ Cardinality(Creating') \in Nat
        /\ Cardinality(Req) \in Nat /\ Cardinality(Req)' = Cardinality(Req)
    BY <1>1, <1>2, FS_CardinalityType, RecordConstants
  <1>4. QED
    BY <1>2, <1>3 DEF SubsInv

(* A request goes on, not to create, and the live rows gain none.          *)
LEMMA SubsGoesOn ==
    ASSUME SubsInv, NEW r \in Req, NEW q, subsReq' = [subsReq EXCEPT ![r] = q],
           q.at = "update" => q.plan \in KnownPlan, q.at = "webhook" => q.status \in Subs!Status,
           q.at # "create", subs' \in Seq(SubsRow), Unrevived' \subseteq Unrevived
    PROVE  SubsInv'
  <1>1. DOMAIN subsReq = Req
    BY DEF SubsInv, SubsTyped
  <1>2. /\ DOMAIN subsReq' = Req /\ subsReq'[r] = q
        /\ \A o \in Req \ {r} : subsReq'[o] = subsReq[o]
    BY <1>1
  <1>3. SubsTyped'
    BY <1>2 DEF SubsInv, SubsTyped
  <1>4. Creating' \subseteq Creating
    BY <1>2 DEF Creating
  <1>5. QED
    BY <1>3, <1>4, SubsGainNothing

LEMMA SubsWrites ==
    ASSUME subs \in Seq(SubsRow), NEW i, NEW st \in Subs!Status, subs' = [subs EXCEPT ![i].status = st]
    PROVE  /\ subs' \in Seq(SubsRow)
           /\ \A j \in Subs!LiveRows' : IF j = i THEN st \in Subs!Live ELSE j \in Subs!LiveRows
  <1>1. Len(subs) \in Nat /\ DOMAIN subs = 1..Len(subs) /\ subs \in [1..Len(subs) -> SubsRow]
    BY LenProperties
  <1>2. CASE i \in 1..Len(subs)
    <2> DEFINE new == [subs[i] EXCEPT !.status = st]
    <2>1. new \in SubsRow /\ new.status = st
      BY <1>1, <1>2 DEF SubsRow
    <2>2. subs' = [subs EXCEPT ![i] = new]
      BY Zenon
    <2> HIDE DEF new
    <2>3. subs' \in Seq(SubsRow)
      BY <1>2, <2>1, <2>2, ExceptSeq
    <2>4. DOMAIN subs' = 1..Len(subs) /\ \A j \in 1..Len(subs) : subs'[j] = IF j = i THEN new ELSE subs[j]
      BY <1>1, <1>2, <2>2
    <2>5. QED
      BY <1>1, <2>1, <2>3, <2>4 DEF Subs!LiveRows
  <1>3. CASE i \notin 1..Len(subs)
    <2>1. subs' = subs
      BY <1>1, <1>3
    <2>2. QED
      BY <1>1, <1>3, <2>1 DEF Subs!LiveRows
  <1>4. QED
    BY <1>2, <1>3

(* Calls start; one reads that there is no live row and goes on to create. *)
LEMMA SubsCreates ==
    ASSUME SubsInv, NEW r \in Req, NEW plan, Subs!get_subscription = None,
           subsReq' = [subsReq EXCEPT ![r] = [at |-> "create", plan |-> plan]], UNCHANGED <<subs, revived>>
    PROVE  SubsInv'
  <1>1. DOMAIN subsReq = Req /\ subs \in Seq(SubsRow)
    BY DEF SubsInv, SubsTyped
  <1>2. /\ DOMAIN subsReq' = Req /\ subsReq'[r].at = "create"
        /\ \A o \in Req \ {r} : subsReq'[o] = subsReq[o]
    BY <1>1
  <1>3. SubsTyped'
    BY <1>2 DEF SubsInv, SubsTyped
  <1>4. Unrevived' = {}
    BY <1>1, NoneIsNone DEF Unrevived, Subs!LiveRows
  <1>5. IsFiniteSet(Creating') /\ Cardinality(Creating') <= Cardinality(Req)
    BY RecordConstants, FS_Subset DEF Creating
  <1>6. Cardinality({}) = 0 /\ Cardinality(Creating') \in Nat /\ Cardinality(Req) \in Nat
    BY <1>5, FS_EmptySet, FS_CardinalityType, RecordConstants
  <1>7. QED
    BY <1>3, <1>4, <1>5, <1>6 DEF SubsInv

LEMMA KeepsStart ==
    ASSUME SubsInv, NEW r \in Req,
           \/ Subs!ensure_default_subscription(r) \/ Subs!ReadForCancel(r) \/ Subs!ReadForChange(r)
           \/ \E plan \in Plan : Subs!create_or_update_subscription(r, plan)
           \/ \E i \in DOMAIN subs, st \in Subs!StripeStatus : Subs!stripe_webhook(r, i, st)
    PROVE  SubsInv'
  <1>1. subs \in Seq(SubsRow)
    BY DEF SubsInv, SubsTyped
  <1>2. UNCHANGED <<subs, revived>>
    BY DEF Subs!ensure_default_subscription, Subs!ReadForCancel, Subs!ReadForChange,
           Subs!create_or_update_subscription, Subs!stripe_webhook
  <1>3. subs' \in Seq(SubsRow) /\ Unrevived' = Unrevived
    BY <1>1, <1>2 DEF Unrevived, Subs!LiveRows
  <1>4. ASSUME NEW q, subsReq' = [subsReq EXCEPT ![r] = q], q.at \in {"idle", "change", "cancel"} PROVE SubsInv'
    BY <1>3, <1>4, SubsGoesOn
  <1>5. Subs!Idle.at = "idle"
    BY DEF Subs!Idle
  <1>6. CASE Subs!ensure_default_subscription(r)
    <2>1. \/ subsReq' = [subsReq EXCEPT ![r] = Subs!Idle]
          \/ /\ Subs!get_subscription = None
             /\ subsReq' = [subsReq EXCEPT ![r] = [at |-> "create", plan |-> DEFAULT_PLAN_ID]]
      BY <1>6 DEF Subs!ensure_default_subscription, Subs!Creates, Subs!Goto, Subs!Answered
    <2>2. QED
      BY <1>2, <1>4, <1>5, <2>1, SubsCreates
  <1>7. ASSUME NEW plan \in Plan, Subs!create_or_update_subscription(r, plan) PROVE SubsInv'
    <2> DEFINE q == [at |-> "change", plan |-> plan]
    <2>1. \/ subsReq' = [subsReq EXCEPT ![r] = q]
          \/ /\ Subs!get_subscription = None
             /\ subsReq' = [subsReq EXCEPT ![r] = [at |-> "create", plan |-> plan]]
      BY <1>7 DEF Subs!create_or_update_subscription, Subs!Creates, Subs!Goto
    <2>2. q.at = "change"
      OBVIOUS
    <2> HIDE DEF q
    <2>3. QED
      BY <1>2, <1>4, <2>1, <2>2, SubsCreates
  <1>8. CASE Subs!ReadForCancel(r)
    <2> DEFINE q == [at |-> "cancel", sub |-> Subs!get_subscription]
    <2>1. subsReq' = [subsReq EXCEPT ![r] = q] /\ q.at = "cancel"
      BY <1>8 DEF Subs!ReadForCancel, Subs!Goto
    <2> HIDE DEF q
    <2>2. QED
      BY <1>4, <2>1
  <1>9. CASE Subs!ReadForChange(r)
    <2> DEFINE q == [at |-> "update", plan |-> subsReq[r].plan, sub |-> Subs!get_subscription]
    <2>1. \/ subsReq' = [subsReq EXCEPT ![r] = Subs!Idle]
          \/ subsReq' = [subsReq EXCEPT ![r] = q] /\ subsReq[r].plan \in KnownPlan
      BY <1>9 DEF Subs!ReadForChange, Subs!Goto, Subs!Answered
    <2>2. q.at = "update" /\ q.plan = subsReq[r].plan
      OBVIOUS
    <2> HIDE DEF q
    <2>3. QED
      BY <1>3, <1>4, <1>5, <2>1, <2>2, SubsGoesOn
  <1>10. ASSUME NEW i \in DOMAIN subs, NEW st \in Subs!StripeStatus, Subs!stripe_webhook(r, i, st)
         PROVE  SubsInv'
    <2> DEFINE q == [at |-> "webhook", sub |-> i, status |-> Subs!status_map(st)]
    <2>1. subsReq' = [subsReq EXCEPT ![r] = q] /\ q.at = "webhook" /\ q.status = Subs!status_map(st)
      BY <1>10 DEF Subs!stripe_webhook, Subs!Goto
    <2>2. Subs!status_map(st) \in Subs!Status
      BY DEF Subs!status_map, Subs!Status, Subs!StripeStatus
    <2> HIDE DEF q
    <2>3. QED
      BY <1>3, <2>1, <2>2, SubsGoesOn
  <1>11. QED
    BY <1>6, <1>7, <1>8, <1>9, <1>10

(* A status is written; a row that a webhook makes live is revived.        *)
LEMMA KeepsStatus ==
    ASSUME SubsInv, NEW r \in Req, Subs!cancel_subscription(r) \/ Subs!update_subscription_status(r)
    PROVE  SubsInv'
  <1>1. subs \in Seq(SubsRow) /\ (subsReq[r].at = "webhook" => subsReq[r].status \in Subs!Status)
    BY DEF SubsInv, SubsTyped
  <1>2. subsReq' = [subsReq EXCEPT ![r] = Subs!Idle] /\ Subs!Idle.at = "idle"
    BY DEF Subs!cancel_subscription, Subs!update_subscription_status, Subs!Answered, Subs!Goto, Subs!Idle
  <1>3. PICK i : i = subsReq[r].sub
    OBVIOUS
  <1>4. CASE Subs!cancel_subscription(r)
    <2>1. subs' = [subs EXCEPT ![i].status = "cancelled"] /\ revived' = revived \ {i}
      BY <1>3, <1>4 DEF Subs!cancel_subscription
    <2>2. "cancelled" \in Subs!Status /\ "cancelled" \notin Subs!Live
      BY DEF Subs!Status, Subs!Live
    <2>3. subs' \in Seq(SubsRow) /\ \A j \in Subs!LiveRows' : j # i /\ j \in Subs!LiveRows
      BY <1>1, <2>1, <2>2, SubsWrites
    <2>4. Unrevived' \subseteq Unrevived
      BY <2>1, <2>3 DEF Unrevived
    <2>5. QED
      BY <1>2, <2>3, <2>4, SubsGoesOn
  <1>5. CASE Subs!update_subscription_status(r)
    <2>1. PICK st : st = subsReq[r].status
      OBVIOUS
    <2>2. /\ subs' = [subs EXCEPT ![i].status = st] /\ st \in Subs!Status
          /\ revived' = IF st \notin Subs!Live THEN revived \ {i}
                        ELSE IF subs[i].status \notin Subs!Live THEN revived \cup {i} ELSE revived
      BY <1>1, <1>3, <1>5, <2>1 DEF Subs!update_subscription_status, Subs!At
    <2>3. /\ subs' \in Seq(SubsRow)
          /\ \A j \in Subs!LiveRows' : IF j = i THEN st \in Subs!Live ELSE j \in Subs!LiveRows
      BY <1>1, <2>2, SubsWrites
    <2>4. ASSUME NEW j \in Unrevived' PROVE j \in Unrevived
      <3>1. j \in Subs!LiveRows' /\ j \notin revived'
        BY <2>4 DEF Unrevived
      <3>2. CASE j # i
        BY <2>2, <2>3, <3>1, <3>2 DEF Unrevived
      <3>3. CASE j = i
        <4>1. st \in Subs!Live /\ subs[i].status \in Subs!Live /\ i \notin revived
          BY <2>2, <2>3, <3>1, <3>3
        <4>2. DOMAIN subs' = DOMAIN subs
          BY <2>2
        <4>3. QED
          BY <3>1, <3>3, <4>1, <4>2 DEF Unrevived, Subs!LiveRows
      <3>4. QED
        BY <3>2, <3>3
    <2>5. QED
      BY <1>2, <2>3, <2>4, SubsGoesOn
  <1>6. QED
    BY <1>4, <1>5

(* A change of plan leaves the row as live as it was.                      *)
LEMMA KeepsPlan ==
    ASSUME SubsInv, NEW r \in Req, Subs!update_subscription(r)
    PROVE  SubsInv'
  <1>1. subs \in Seq(SubsRow) /\ subsReq[r].plan \in KnownPlan
    BY DEF SubsInv, SubsTyped, Subs!update_subscription, Subs!At
  <1>2. PICK i : i = subsReq[r].sub
    OBVIOUS
  <1>3. PICK p \in KnownPlan : p = subsReq[r].plan
    BY <1>1
  <1>4. subs' = [subs EXCEPT ![i].plan = p] /\ subsReq' = [subsReq EXCEPT ![r] = Subs!Idle] /\ revived' = revived
    BY <1>2, <1>3 DEF Subs!update_subscription, Subs!Answered, Subs!Goto
  <1>5. Len(subs) \in Nat /\ DOMAIN subs = 1..Len(subs) /\ subs \in [1..Len(subs) -> SubsRow]
    BY <1>1, LenProperties
  <1>6. subs' \in Seq(SubsRow) /\ Subs!LiveRows' \subseteq Subs!LiveRows
    <2>1. CASE i \in 1..Len(subs)
      <3> DEFINE new == [subs[i] EXCEPT !.plan = p]
      <3>1. new \in SubsRow /\ new.status = subs[i].status
        BY <1>5, <2>1 DEF SubsRow
      <3>2. subs' = [subs EXCEPT ![i] = new]
        BY <1>4, Zenon
      <3> HIDE DEF new
      <3>3. subs' \in Seq(SubsRow)
        BY <1>1, <2>1, <3>1, <3>2, ExceptSeq
      <3>4. DOMAIN subs' = 1..Len(subs) /\ \A j \in 1..Len(subs) : subs'[j].status = subs[j].status
        BY <1>5, <2>1, <3>1, <3>2
      <3>5. QED
        BY <1>5, <3>3, <3>4 DEF Subs!LiveRows
    <2>2. CASE i \notin 1..Len(subs)
      <3>1. subs' = subs
        BY <1>4, <1>5, <2>2
      <3>2. QED
        BY <1>1, <3>1 DEF Subs!LiveRows
    <2>3. QED
      BY <2>1, <2>2
  <1>7. Unrevived' \subseteq Unrevived /\ Subs!Idle.at = "idle"
    BY <1>4, <1>6 DEF Unrevived, Subs!Idle
  <1>8. QED
    BY <1>4, <1>6, <1>7, SubsGoesOn

(* A row created is one more that is live, and one call fewer about to.    *)
LEMMA SubsKeepCreate ==
    ASSUME SubsInv, NEW r \in Req, Subs!create_subscription(r)
    PROVE  SubsInv'
  <1>1. subs \in Seq(SubsRow) /\ DOMAIN subsReq = Req
    BY DEF SubsInv, SubsTyped
  <1>2. /\ r \in Creating /\ subsReq' = [subsReq EXCEPT ![r] = Subs!Idle] /\ revived' = revived
        /\ \/ subsReq[r].plan \in KnownPlan /\ Subs!Insert(subsReq[r].plan)
           \/ subs' = subs
    BY DEF Subs!create_subscription, Subs!At, Subs!Answered, Subs!Goto, Creating
  <1>3. Len(subs) \in Nat /\ DOMAIN subs = 1..Len(subs) /\ subs \in [1..Len(subs) -> SubsRow]
    BY <1>1, LenProperties
  <1>4. subs' \in Seq(SubsRow) /\ Subs!LiveRows' \subseteq Subs!LiveRows \cup {Len(subs) + 1}
    <2>1. CASE subs' = subs
      BY <1>1, <2>1 DEF Subs!LiveRows
    <2>2. CASE subsReq[r].plan \in KnownPlan /\ Subs!Insert(subsReq[r].plan)
      <3>1. PICK new \in SubsRow : subs' = Append(subs, new)
        <4> DEFINE new == [plan |-> subsReq[r].plan, status |-> "active"]
        <4>1. new \in SubsRow
          BY <2>2 DEF SubsRow, Subs!Status
        <4>2. subs' = Append(subs, new)
          BY <2>2 DEF Subs!Insert
        <4> HIDE DEF new
        <4>3. QED
          BY <4>1, <4>2
      <3>2. /\ subs' \in Seq(SubsRow) /\ Len(subs') = Len(subs) + 1
            /\ \A j \in 1..Len(subs) : subs'[j] = subs[j]
        BY <1>1, <3>1, AppendProperties
      <3>3. DOMAIN subs' = 1..(Len(subs) + 1)
        BY <3>2, LenProperties
      <3>4. QED
        BY <1>3, <3>2, <3>3 DEF Subs!LiveRows
    <2>3. QED
      BY <1>2, <2>1, <2>2
  <1>5. Unrevived' \subseteq Unrevived \cup {Len(subs) + 1}
    BY <1>2, <1>4 DEF Unrevived
  <1>6. /\ DOMAIN subsReq' = Req /\ subsReq'[r].at = "idle"
        /\ \A o \in Req \ {r} : subsReq'[o] = subsReq[o]
    BY <1>1, <1>2 DEF Subs!Idle
  <1>7. SubsTyped'
    BY <1>4, <1>6 DEF SubsInv, SubsTyped
  <1>8. Creating' = Creating \ {r}
    BY <1>2, <1>6 DEF Creating
  <1>9. IsFiniteSet(Unrevived) /\ IsFiniteSet(Creating)
    BY <1>1, SubsFinite, RecordConstants, FS_Subset DEF Unrevived, Creating
  <1>10. /\ IsFiniteSet(Unrevived \cup {Len(subs) + 1})
         /\ Cardinality(Unrevived \cup {Len(subs) + 1}) <= Cardinality(Unrevived) + 1
    <2>1. Cardinality(Unrevived) \in Nat
      BY <1>9, FS_CardinalityType
    <2>2. /\ IsFiniteSet(Unrevived \cup {Len(subs) + 1})
          /\ Cardinality(Unrevived \cup {Len(subs) + 1}) =
                IF Len(subs) + 1 \in Unrevived THEN Cardinality(Unrevived) ELSE Cardinality(Unrevived) + 1
      BY <1>9, FS_AddElement
    <2>3. QED
      BY <2>1, <2>2
  <1>11. IsFiniteSet(Unrevived') /\ Cardinality(Unrevived') <= Cardinality(Unrevived \cup {Len(subs) + 1})
    BY <1>5, <1>10, FS_Subset
  <1>12. IsFiniteSet(Creating') /\ Cardinality(Creating') = Cardinality(Creating) - 1
    BY <1>2, <1>8, <1>9, FS_RemoveElement
  <1>13. /\ Cardinality(Unrevived) \in Nat /\ Cardinality(Creating) \in Nat
         /\ Cardinality(Unrevived') \in Nat /\ Cardinality(Creating') \in Nat
         /\ Cardinality(Unrevived \cup {Len(subs) + 1}) \in Nat /\ Cardinality(Req) \in Nat
    BY <1>9, <1>10, <1>11, <1>12, FS_CardinalityType, RecordConstants
  <1>14. Cardinality(Unrevived') + Cardinality(Creating') <= Cardinality(Req)
    BY <1>10, <1>11, <1>12, <1>13 DEF SubsInv
  <1>15. QED
    BY <1>7, <1>14 DEF SubsInv

LEMMA SubsKeep == SubsInv /\ [Subs!Next]_subsVars => SubsInv'
  <1> SUFFICES ASSUME SubsInv, [Subs!Next]_subsVars PROVE SubsInv'
    OBVIOUS
  <1>1. CASE UNCHANGED subsVars
    BY <1>1 DEF subsVars, SubsInv, SubsTyped, Unrevived, Creating, Subs!LiveRows
  <1>2. CASE Subs!Next
    BY <1>2, KeepsStart, KeepsStatus, KeepsPlan, SubsKeepCreate DEF Subs!Next, Subs!Step
  <1>3. QED
    BY <1>1, <1>2

LEMMA SubsInvSuffices == SubsInv => Subs!LiveOnlyByOverlap
  <1> SUFFICES ASSUME SubsInv PROVE Cardinality(Unrevived) <= Cardinality(Req)
    BY SubsCardinality DEF Subs!LiveOnlyByOverlap, Unrevived
  <1>1. IsFiniteSet(Unrevived) /\ IsFiniteSet(Creating)
    BY SubsFinite, RecordConstants, FS_Subset DEF SubsInv, SubsTyped, Unrevived, Creating
  <1>2. Cardinality(Unrevived) \in Nat /\ Cardinality(Creating) \in Nat /\ Cardinality(Req) \in Nat
    BY <1>1, FS_CardinalityType, RecordConstants
  <1>3. QED
    BY <1>2 DEF SubsInv

(* Only calls that overlap make a tenant pay twice: of its live rows that  *)
(* no webhook revived there are no more than calls at once, whatever the   *)
(* plans and their number (services/billing/service.py, db/billing.py).    *)
THEOREM SubscriptionsAlwaysHold == AllSpec => []LiveOnlyByOverlap
  <1>1. AllInit => SubsInv
    BY SubsStart DEF AllInit
  <1>2. [AllNext]_allVars => [Subs!Next]_subsVars
    BY DEF AllNext, allVars
  <1>3. SubsInv => LiveOnlyByOverlap
    BY SubsInvSuffices DEF LiveOnlyByOverlap
  <1>4. QED
    BY <1>1, <1>2, <1>3, SubsKeep, PTL DEF AllSpec
-----------------------------------------------------------------------------
(* Consolidated runs.  A request holds the shares it read, each a part of  *)
(* the whole; when it writes that its run succeeded, the result of at      *)
(* least one entity is stored.                                             *)

Reads(r, q) ==
    /\ q.at = "owning" => q.link \in Group!Link /\ q.pct \in Pct
    /\ q.at \in {"computing", "saving"} =>
          /\ q = [at |-> q.at, base |-> q.base, share |-> q.share]
          /\ \A e \in DOMAIN q.base : q.share[e] \in 1..100
    /\ q.at = "saving" => r \in results /\ \E e \in DOMAIN q.base : q.base[e] = "stored"

GroupTyped ==
    /\ owned \in [Group!Link -> Pct \cup {None}]
    /\ DOMAIN run = Req
    /\ DOMAIN orgReq = Req

GroupInv ==
    /\ GroupTyped
    /\ \A r \in Req : Reads(r, orgReq[r])
    /\ Group!SucceededHasResult

LEMMA GroupStarts == Group!Init => GroupInv
  BY DEF Group!Init, Group!Idle, GroupInv, GroupTyped, Reads, Group!SucceededHasResult

LEMMA ShareIsPart ==
    ASSUME owned \in [Group!Link -> Pct \cup {None}], NEW e
    PROVE  Group!ShareOf(e) \in 1..100
  <1> DEFINE Shares == {owned[l] : l \in Group!Parents(e)}
  <1>1. CASE Group!Parents(e) = {}
    BY <1>1 DEF Group!ShareOf
  <1>2. CASE Group!Parents(e) # {}
    <2>1. Shares \subseteq 1..100 /\ Shares # {}
      <3>1. \A l \in Group!Parents(e) : owned[l] \in 1..100
        BY RecordConstants DEF Group!Parents
      <3>2. QED
        BY <1>2, <3>1
    <2>2. Group!ShareOf(e) = Group!Max(Shares)
      BY <1>2 DEF Group!ShareOf
    <2> HIDE DEF Shares
    <2>3. \E m \in Shares : \A k \in Shares : k <= m
      BY <2>1, GreatestExists
    <2>4. \E m \in Shares : \A k \in Shares : m >= k
      BY <2>1, <2>3
    <2>5. Group!Max(Shares) \in Shares
      BY <2>4 DEF Group!Max
    <2>6. QED
      BY <2>1, <2>2, <2>5
  <1>3. QED
    BY <1>1, <1>2

(* A request goes on; the rows of runs are as they were, or one says what  *)
(* is not success.                                                         *)
LEMMA GroupGoesOn ==
    ASSUME GroupInv, NEW r \in Req, NEW q, orgReq' = [orgReq EXCEPT ![r] = q], Reads(r, q)',
           results \subseteq results', owned' \in [Group!Link -> Pct \cup {None}],
           run' = run \/ \E w : run' = [run EXCEPT ![r] = w] /\ w.status # "succeeded"
    PROVE  GroupInv'
  <1>1. /\ DOMAIN orgReq' = Req /\ orgReq'[r] = q
        /\ \A o \in Req \ {r} : orgReq'[o] = orgReq[o]
    BY DEF GroupInv, GroupTyped
  <1>2. GroupTyped'
    BY <1>1 DEF GroupInv, GroupTyped
  <1>3. \A o \in Req : Reads(o, orgReq[o])'
    BY <1>1 DEF GroupInv, Reads
  <1>4. ASSUME NEW o \in Req, run'[o] # None, run'[o].status = "succeeded" PROVE run'[o] = run[o]
    BY <1>4 DEF GroupInv, GroupTyped
  <1>5. Group!SucceededHasResult'
    BY <1>4 DEF GroupInv, Group!SucceededHasResult
  <1>6. QED
    BY <1>2, <1>3, <1>5 DEF GroupInv

(* Entities and links are edited; runs go with the structure.              *)
LEMMA KeepsStructure ==
    ASSUME GroupInv,
           \/ \E e \in Entity : Group!create_entity(e) \/ Group!update_entity(e) \/ Group!delete_entity(e)
           \/ Group!delete_org_structure
           \/ \E l \in Group!Link : Group!delete_ownership(l)
           \/ Group!Crash \/ UNCHANGED orgVars
    PROVE  GroupInv'
  <1>1. UNCHANGED results /\ (run' = run \/ run' = [r \in Req |-> None])
        /\ (orgReq' = orgReq \/ orgReq' = [r \in Req |-> Group!Idle])
    BY DEF Group!create_entity, Group!update_entity, Group!delete_entity, Group!delete_org_structure,
           Group!delete_ownership, Group!Crash, orgVars
  <1>2. owned' \in [Group!Link -> Pct \cup {None}]
    BY DEF GroupInv, GroupTyped, Group!create_entity, Group!update_entity, Group!delete_entity,
           Group!delete_org_structure, Group!delete_ownership, Group!WithoutEntities, Group!Crash, orgVars
  <1>3. GroupTyped'
    BY <1>1, <1>2 DEF GroupInv, GroupTyped
  <1>4. \A r \in Req : Reads(r, orgReq[r])'
    BY <1>1 DEF GroupInv, Reads, Group!Idle
  <1>5. Group!SucceededHasResult'
    BY <1>1 DEF GroupInv, Group!SucceededHasResult
  <1>6. QED
    BY <1>3, <1>4, <1>5 DEF GroupInv

LEMMA KeepsOwnership ==
    ASSUME GroupInv, NEW r \in Req,
           Group!InsertOwnership(r) \/ \E l \in Group!Link : Group!create_ownership(r, l)
    PROVE  GroupInv'
  <1>1. run' = run /\ results' = results
    BY DEF Group!InsertOwnership, Group!create_ownership
  <1>2. CASE Group!InsertOwnership(r)
    <2>1. orgReq[r].link \in Group!Link /\ orgReq[r].pct \in Pct
      BY <1>2 DEF Group!InsertOwnership, GroupInv, Reads
    <2>2. owned' \in [Group!Link -> Pct \cup {None}]
      BY <1>2, <2>1 DEF Group!InsertOwnership, GroupInv, GroupTyped
    <2>3. orgReq' = [orgReq EXCEPT ![r] = Group!Idle] /\ Reads(r, Group!Idle)'
      BY <1>2 DEF Group!InsertOwnership, Reads, Group!Idle
    <2>4. QED
      BY <1>1, <2>2, <2>3, GroupGoesOn
  <1>3. ASSUME NEW l \in Group!Link, Group!create_ownership(r, l) PROVE GroupInv'
    <2>1. PICK pct \in Pct : orgReq' = [orgReq EXCEPT ![r] = [at |-> "owning", link |-> l, pct |-> pct]]
      BY <1>3 DEF Group!create_ownership
    <2> DEFINE q == [at |-> "owning", link |-> l, pct |-> pct]
    <2>2. Reads(r, q)'
      BY DEF Reads
    <2>3. owned' \in [Group!Link -> Pct \cup {None}]
      BY <1>3 DEF Group!create_ownership, GroupInv, GroupTyped
    <2> HIDE DEF q
    <2>4. QED
      BY <1>1, <2>1, <2>2, <2>3, GroupGoesOn DEF q
  <1>4. QED
    BY <1>2, <1>3

LEMMA KeepsReading ==
    ASSUME GroupInv, NEW r \in Req, Group!ReadEntities(r) \/ Group!ReadLinks(r)
    PROVE  GroupInv'
  <1>1. results' = results /\ owned' = owned /\ owned \in [Group!Link -> Pct \cup {None}]
    BY DEF Group!ReadEntities, Group!ReadLinks, GroupInv, GroupTyped
  <1>2. CASE Group!ReadEntities(r)
    <2>1. PICK b : orgReq' = [orgReq EXCEPT ![r] = [at |-> "reading", base |-> b]]
      BY <1>2 DEF Group!ReadEntities
    <2> DEFINE q == [at |-> "reading", base |-> b]
    <2>2. Reads(r, q)' /\ run' = run
      BY <1>2 DEF Reads, Group!ReadEntities
    <2>3. orgReq' = [orgReq EXCEPT ![r] = q]
      BY <2>1
    <2> HIDE DEF q
    <2>4. QED
      BY <1>1, <2>2, <2>3, GroupGoesOn
  <1>3. CASE Group!ReadLinks(r)
    <2>1. CASE exists
      <3>1. PICK b : b = orgReq[r].base
        OBVIOUS
      <3>2. PICK sh : sh = [e \in DOMAIN b |-> Group!ShareOf(e)]
        OBVIOUS
      <3>3. \A e \in DOMAIN b : sh[e] \in 1..100
        BY <1>1, <3>2, ShareIsPart
      <3> DEFINE q == [at |-> "computing", base |-> b, share |-> sh]
                 w == [status |-> "running", used |-> <<>>]
      <3>4. orgReq' = [orgReq EXCEPT ![r] = q] /\ run' = [run EXCEPT ![r] = w]
        BY <1>3, <2>1, <3>1, <3>2 DEF Group!ReadLinks
      <3>5. Reads(r, q)' /\ w.status # "succeeded"
        BY <3>3 DEF Reads
      <3> HIDE DEF q, w
      <3>6. QED
        BY <1>1, <3>4, <3>5, GroupGoesOn
    <2>2. CASE ~exists
      <3>1. orgReq' = [orgReq EXCEPT ![r] = Group!Idle] /\ run' = run /\ Reads(r, Group!Idle)'
        BY <1>3, <2>2 DEF Group!ReadLinks, Reads, Group!Idle
      <3>2. QED
        BY <1>1, <3>1, GroupGoesOn
    <2>3. QED
      BY <2>1, <2>2
  <1>4. QED
    BY <1>2, <1>3

LEMMA KeepsResult ==
    ASSUME GroupInv, NEW r \in Req, Group!Compute(r) \/ Group!FailRun(r)
    PROVE  GroupInv'
  <1>1. /\ results \subseteq results' /\ owned' \in [Group!Link -> Pct \cup {None}]
        /\ orgReq[r].at = "computing" /\ Reads(r, orgReq[r])
    BY DEF Group!Compute, Group!SaveResult, Group!FailRun, GroupInv, GroupTyped
  <1>2. CASE Group!Compute(r)
    <2>1. PICK b, sh : orgReq[r] = [at |-> "computing", base |-> b, share |-> sh]
      BY <1>1 DEF Reads
    <2> DEFINE q == [at |-> "saving", base |-> b, share |-> sh]
    <2>2. orgReq' = [orgReq EXCEPT ![r].at = "saving"] /\ run' = run /\ r \in results'
      BY <1>2 DEF Group!Compute, Group!SaveResult
    <2>3. [orgReq[r] EXCEPT !.at = "saving"] = q
      BY <2>1
    <2>4. orgReq' = [orgReq EXCEPT ![r] = q]
      <3>1. orgReq' = [orgReq EXCEPT ![r] = [orgReq[r] EXCEPT !.at = "saving"]]
        BY <2>2, Zenon
      <3>2. QED
        BY <2>3, <3>1, Zenon
    <2>5. \E e \in DOMAIN b : b[e] = "stored"
      BY <1>2, <2>1 DEF Group!Compute, Group!Loadable
    <2>6. \A e \in DOMAIN b : sh[e] \in 1..100
      BY <1>1, <2>1 DEF Reads
    <2>7. Reads(r, q)'
      BY <2>2, <2>5, <2>6 DEF Reads
    <2> HIDE DEF q
    <2>8. QED
      BY <1>1, <2>2, <2>4, <2>7, GroupGoesOn
  <1>3. CASE Group!FailRun(r)
    <2> DEFINE w == [status |-> "failed", used |-> <<>>]
    <2>1. /\ run' = run \/ run' = [run EXCEPT ![r] = w]
          /\ orgReq' = [orgReq EXCEPT ![r] = Group!Idle]
      BY <1>3 DEF Group!FailRun, Group!UpdateRun
    <2>2. w.status # "succeeded" /\ Reads(r, Group!Idle)'
      BY DEF Reads, Group!Idle
    <2> HIDE DEF w
    <2>3. QED
      BY <1>1, <2>1, <2>2, GroupGoesOn
  <1>4. QED
    BY <1>2, <1>3

(* The run that succeeds is the one whose result was stored.               *)
LEMMA KeepsSuccess ==
    ASSUME GroupInv, NEW r \in Req, Group!Succeed(r)
    PROVE  GroupInv'
  <1>1. /\ results' = results /\ owned' = owned /\ DOMAIN run = Req /\ DOMAIN orgReq = Req
        /\ orgReq[r].at = "saving" /\ Reads(r, orgReq[r]) /\ Group!SucceededHasResult
    BY DEF Group!Succeed, GroupInv, GroupTyped
  <1> DEFINE used == [e \in Group!Loadable(r) |-> orgReq[r].share[e]]
             w == [status |-> "succeeded", used |-> used]
  <1>2. /\ run' = run \/ run' = [run EXCEPT ![r] = w]
        /\ orgReq' = [orgReq EXCEPT ![r] = Group!Idle]
    BY DEF Group!Succeed, Group!UpdateRun
  <1>3. /\ r \in results /\ DOMAIN used # {}
        /\ \A e \in DOMAIN used : used[e] \in 1..100
    BY <1>1 DEF Reads, Group!Loadable
  <1>4. w.used = used
    OBVIOUS
  <1> HIDE DEF used, w
  <1>5. Group!SucceededHasResult'
    <2>1. ASSUME NEW o \in Req PROVE run'[o] = run[o] \/ (o = r /\ run'[o] = w)
      BY <1>1, <1>2
    <2>2. QED
      BY <1>1, <1>3, <1>4, <2>1 DEF Group!SucceededHasResult
  <1>6. /\ DOMAIN orgReq' = Req /\ orgReq'[r] = Group!Idle
        /\ \A o \in Req \ {r} : orgReq'[o] = orgReq[o]
    BY <1>1, <1>2
  <1>7. GroupTyped'
    BY <1>1, <1>2, <1>6 DEF GroupInv, GroupTyped
  <1>8. \A o \in Req : Reads(o, orgReq[o])'
    BY <1>1, <1>6 DEF GroupInv, Reads, Group!Idle
  <1>9. QED
    BY <1>5, <1>7, <1>8 DEF GroupInv

LEMMA GroupKeeps == GroupInv /\ [Group!Next]_orgVars => GroupInv'
  <1> SUFFICES ASSUME GroupInv, [Group!Next]_orgVars PROVE GroupInv'
    OBVIOUS
  <1>1. CASE UNCHANGED orgVars
    BY <1>1, KeepsStructure
  <1>2. CASE Group!Next
    BY <1>2, KeepsStructure, KeepsOwnership, KeepsReading, KeepsResult, KeepsSuccess DEF Group!Next
  <1>3. QED
    BY <1>1, <1>2

(* Whatever is edited or deleted while it is computed, and wherever the    *)
(* server stops, a consolidated run that says it succeeded has its result  *)
(* stored and counts at least one entity, each with more than nothing and  *)
(* at most whole (routers/org_structures.py).                              *)
THEOREM ConsolidatedRunsHold == AllSpec => []Group!SucceededHasResult
  <1>1. AllInit => GroupInv
    BY GroupStarts DEF AllInit
  <1>2. [AllNext]_allVars => [Group!Next]_orgVars
    BY DEF AllNext, allVars
  <1>3. GroupInv => Group!SucceededHasResult
    BY DEF GroupInv
  <1>4. QED
    BY <1>1, <1>2, <1>3, GroupKeeps, PTL DEF AllSpec
-----------------------------------------------------------------------------
(* Ownership.  A request about to insert a link still finds room for it:   *)
(* since it added up the other owners, links may have gone, but another    *)
(* request that adds one to the same child is one that overlapped.         *)

Owning(r) == orgReq[r].at = "owning"
ChildOf(r) == orgReq[r].link[2]

(* There is still room for the link a request is about to insert.          *)
Room(r) ==
    Owning(r) /\ ChildOf(r) \notin overlapped =>
        SumFunctionOnSet(owned, Group!OtherLinks(orgReq[r].link)) + orgReq[r].pct <= 100

OwnedInv ==
    /\ \A c \in Entity : IsFiniteSet(Group!Parents(c))
    /\ \A c \in Entity : c \notin overlapped => SumFunctionOnSet(owned, Group!Parents(c)) <= 100
    /\ \A p, q \in Req : p # q /\ Owning(p) /\ Owning(q) /\ ChildOf(p) = ChildOf(q)
                            => ChildOf(p) \in overlapped
    /\ \A r \in Req : Room(r)

LEMMA OwnedIsSum == \A S : Group!TotalOwned(S) = SumFunctionOnSet(owned, S)
  BY DEF Group!TotalOwned, Group!SumFunctionOnSet, Group!FoldFunctionOnSet, Group!MapThenFoldSet,
         SumFunctionOnSet, FoldFunctionOnSet, MapThenFoldSet

LEMMA OwnedStarts == Group!Init => OwnedInv
  <1> SUFFICES ASSUME Group!Init PROVE OwnedInv
    OBVIOUS
  <1>1. \A c \in Entity : Group!Parents(c) = {}
    BY DEF Group!Init, Group!Parents
  <1>2. \A r \in Req : ~Owning(r)
    BY DEF Group!Init, Group!Idle, Owning
  <1>3. \A c \in Entity : IsFiniteSet(Group!Parents(c)) /\ SumFunctionOnSet(owned, Group!Parents(c)) = 0
    BY <1>1, FS_EmptySet, SumEmpty
  <1>4. QED
    BY <1>2, <1>3 DEF OwnedInv, Room

(* The links that count are links, and have a percentage.                  *)
LEMMA ParentsAre ==
    ASSUME owned \in [Group!Link -> Pct \cup {None}], NEW c, NEW l
    PROVE  /\ l \in Group!Parents(c) <=> l \in Group!Link /\ l[2] = c /\ owned[l] # None
           /\ l \in Group!Parents(c) => owned[l] \in 1..100
  BY RecordConstants DEF Group!Parents

LEMMA PctNumbers == \A p \in Pct : p \in Int
  BY RecordConstants

(* The sum over links that are left, of which none has changed.            *)
LEMMA FewerOwnLess ==
    ASSUME NEW v, NEW w, NEW A, IsFiniteSet(A), \A l \in A : w[l] \in 1..100,
           NEW B, B \subseteq A, \A l \in B : v[l] = w[l]
    PROVE  IsFiniteSet(B) /\ SumFunctionOnSet(v, B) \in Int /\ SumFunctionOnSet(w, A) \in Int
           /\ SumFunctionOnSet(v, B) <= SumFunctionOnSet(w, A)
  <1>1. IsFiniteSet(B) /\ Numbers(w, A) /\ Numbers(v, B) /\ \A l \in A \ B : w[l] >= 0
    BY FS_Subset DEF Numbers
  <1>2. SumFunctionOnSet(v, B) = SumFunctionOnSet(w, B)
    BY <1>1, SumSame
  <1>3. SumFunctionOnSet(w, B) <= SumFunctionOnSet(w, A)
    BY <1>1, SumOfSubset
  <1>4. SumFunctionOnSet(v, B) \in Int /\ SumFunctionOnSet(w, A) \in Int
    BY <1>1, SumTyped
  <1>5. QED
    BY <1>1, <1>2, <1>3, <1>4

(* Links only go, and no request begins to own.                            *)
LEMMA OwnedShrinks ==
    ASSUME GroupInv, OwnedInv, owned' \in [Group!Link -> Pct \cup {None}],
           \A l \in Group!Link : owned'[l] = owned[l] \/ owned'[l] = None,
           \A r \in Req : orgReq'[r] = orgReq[r] \/ orgReq'[r].at # "owning",
           overlapped' = overlapped
    PROVE  OwnedInv'
  <1>1. owned \in [Group!Link -> Pct \cup {None}]
    BY DEF GroupInv, GroupTyped
  <1>2. ASSUME NEW c \in Entity
        PROVE  /\ Group!Parents(c)' \subseteq Group!Parents(c)
               /\ IsFiniteSet(Group!Parents(c))
               /\ \A l \in Group!Parents(c) : owned[l] \in 1..100
               /\ \A l \in Group!Parents(c)' : owned'[l] = owned[l]
    <2>1. \A l : l \in Group!Parents(c)' => l \in Group!Link /\ l[2] = c /\ owned'[l] # None
      BY DEF Group!Parents
    <2>2. QED
      BY <1>1, <2>1, ParentsAre DEF OwnedInv
  <1>3. ASSUME NEW c \in Entity
        PROVE  /\ IsFiniteSet(Group!Parents(c)')
               /\ c \notin overlapped' => SumFunctionOnSet(owned', Group!Parents(c)') <= 100
    <2>1. /\ SumFunctionOnSet(owned', Group!Parents(c)') <= SumFunctionOnSet(owned, Group!Parents(c))
          /\ IsFiniteSet(Group!Parents(c)') /\ SumFunctionOnSet(owned, Group!Parents(c)) \in Int
          /\ SumFunctionOnSet(owned', Group!Parents(c)') \in Int
      BY <1>2, FewerOwnLess
    <2>2. c \notin overlapped' => SumFunctionOnSet(owned, Group!Parents(c)) <= 100
      BY DEF OwnedInv
    <2>3. QED
      BY <2>1, <2>2
  <1>4. \A r \in Req : Owning(r)' => Owning(r) /\ orgReq'[r] = orgReq[r]
    BY DEF Owning
  <1>5. ASSUME NEW r \in Req, Owning(r)', ChildOf(r)' \notin overlapped'
        PROVE  Room(r)'
    <2>1. Owning(r) /\ orgReq'[r] = orgReq[r] /\ ChildOf(r) \notin overlapped
      BY <1>4, <1>5 DEF ChildOf
    <2>2. PICK k : k = orgReq[r].link
      OBVIOUS
    <2>3. k \in Group!Link /\ orgReq[r].pct \in Pct
      BY <2>1, <2>2 DEF GroupInv, Reads, Owning
    <2>4. PICK c \in Entity : c = k[2]
      BY <2>3 DEF Group!Link
    <2>5. PICK A : A = Group!OtherLinks(k)
      OBVIOUS
    <2>6. PICK B : B = Group!OtherLinks(k)'
      OBVIOUS
    <2>7. A = {l \in Group!Parents(c) : l # k} /\ B = {l \in Group!Parents(c)' : l # k}
      BY <2>4, <2>5, <2>6 DEF Group!OtherLinks
    <2>8. A \subseteq Group!Parents(c) /\ B \subseteq A /\ B \subseteq Group!Parents(c)'
      BY <1>2, <2>7
    <2>9. /\ IsFiniteSet(A) /\ \A l \in A : owned[l] \in 1..100
          /\ \A l \in B : owned'[l] = owned[l]
      <3>1. IsFiniteSet(A)
        BY <1>2, <2>8, FS_Subset
      <3>2. QED
        BY <1>2, <2>8, <3>1
    <2>10. /\ SumFunctionOnSet(owned', B) <= SumFunctionOnSet(owned, A)
           /\ SumFunctionOnSet(owned', B) \in Int /\ SumFunctionOnSet(owned, A) \in Int
      BY <2>8, <2>9, FewerOwnLess
    <2>11. SumFunctionOnSet(owned, A) + orgReq[r].pct <= 100
      BY <2>1, <2>2, <2>5 DEF OwnedInv, Room
    <2>12. SumFunctionOnSet(owned', B) + orgReq[r].pct <= 100
      <3>1. orgReq[r].pct \in Int
        BY <2>3, PctNumbers, Zenon
      <3>2. QED
        BY <2>10, <2>11, <3>1
    <2>13. Group!OtherLinks(orgReq[r].link)' = B
      BY <2>1, <2>2, <2>6 DEF Group!OtherLinks, Group!Parents
    <2>14. QED
      BY <2>1, <2>12, <2>13 DEF Room
  <1>6. \A p, q \in Req : p # q /\ Owning(p)' /\ Owning(q)' /\ ChildOf(p)' = ChildOf(q)'
                            => ChildOf(p)' \in overlapped'
    BY <1>4 DEF OwnedInv, ChildOf
  <1>7. \A r \in Req : Room(r)'
    <2> TAKE r \in Req
    <2>1. QED
      BY <1>5 DEF Room
  <1>8. QED
    BY <1>3, <1>6, <1>7 DEF OwnedInv

(* What a request reads fits when it is read.                              *)
LEMMA OwnedRead ==
    ASSUME GroupInv, OwnedInv, NEW r \in Req, NEW l \in Group!Link, Group!create_ownership(r, l)
    PROVE  OwnedInv'
  <1>1. PICK pct \in Pct : /\ Group!TotalOwned(Group!OtherLinks(l)) + pct <= 100
                           /\ orgReq' = [orgReq EXCEPT ![r] = [at |-> "owning", link |-> l, pct |-> pct]]
    BY DEF Group!create_ownership
  <1>2. owned' = owned /\ orgReq[r] = Group!Idle /\ DOMAIN orgReq = Req
    BY DEF Group!create_ownership, GroupInv, GroupTyped
  <1>3. /\ overlapped \subseteq overlapped'
        /\ (\E q \in Req : Owning(q) /\ ChildOf(q) = l[2]) => l[2] \in overlapped'
    BY DEF Group!create_ownership, Owning, ChildOf
  <1>4. /\ Owning(r)' /\ orgReq'[r].link = l /\ orgReq'[r].pct = pct /\ ~Owning(r)
        /\ \A q \in Req \ {r} : orgReq'[q] = orgReq[q]
    BY <1>1, <1>2 DEF Owning, Group!Idle
  <1>5. SumFunctionOnSet(owned, Group!OtherLinks(l)) + pct <= 100
    BY <1>1, OwnedIsSum
  <1>6. \A c \in Entity : Group!Parents(c)' = Group!Parents(c)
    BY <1>2 DEF Group!Parents
  <1>7. \A q \in Req \ {r} : (Owning(q)' <=> Owning(q)) /\ ChildOf(q)' = ChildOf(q)
    BY <1>4 DEF Owning, ChildOf
  <1>8. ChildOf(r)' = l[2]
    BY <1>4 DEF ChildOf
  <1>9. \A c \in Entity : /\ IsFiniteSet(Group!Parents(c)')
                          /\ c \notin overlapped' => SumFunctionOnSet(owned', Group!Parents(c)') <= 100
    BY <1>2, <1>3, <1>6 DEF OwnedInv
  <1>10. \A p, q \in Req : p # q /\ Owning(p)' /\ Owning(q)' /\ ChildOf(p)' = ChildOf(q)'
                             => ChildOf(p)' \in overlapped'
    BY <1>3, <1>4, <1>7, <1>8 DEF OwnedInv
  <1>11. ASSUME NEW q \in Req PROVE Room(q)'
    <2>1. CASE q = r
      <3>1. Group!OtherLinks(orgReq[q].link)' = Group!OtherLinks(l)
        BY <1>2, <1>4, <2>1 DEF Group!OtherLinks, Group!Parents
      <3>2. QED
        BY <1>2, <1>4, <1>5, <2>1, <3>1 DEF Room
    <2>2. CASE q # r
      <3>1. Room(q) /\ (Owning(q)' <=> Owning(q)) /\ ChildOf(q)' = ChildOf(q)
        BY <1>7, <2>2 DEF OwnedInv
      <3>2. orgReq'[q] = orgReq[q]
        BY <1>4, <2>2
      <3>3. Group!OtherLinks(orgReq[q].link)' = Group!OtherLinks(orgReq[q].link)
        BY <1>2, <3>2 DEF Group!OtherLinks, Group!Parents
      <3>4. QED
        BY <1>2, <1>3, <3>1, <3>2, <3>3 DEF Room
    <2>3. QED
      BY <2>1, <2>2
  <1>12. (\A q \in Req : Room(q))'
    BY <1>11
  <1>13. QED
    BY <1>9, <1>10, <1>12 DEF OwnedInv

(* The link that is inserted is the only one of its child under way.       *)
LEMMA OwnedInserted ==
    ASSUME GroupInv, OwnedInv, NEW r \in Req, Group!InsertOwnership(r)
    PROVE  OwnedInv'
  <1> DEFINE l == orgReq[r].link
             pct == orgReq[r].pct
  <1>1. Owning(r) /\ l \in Group!Link /\ pct \in Pct
    BY DEF Group!InsertOwnership, GroupInv, Reads, Owning
  <1>2. orgReq' = [orgReq EXCEPT ![r] = Group!Idle] /\ overlapped' = overlapped
    BY DEF Group!InsertOwnership
  <1>3. ~Owning(r)' /\ \A q \in Req \ {r} : orgReq'[q] = orgReq[q]
    BY <1>2 DEF GroupInv, GroupTyped, Owning, Group!Idle
  <1>4. owned \in [Group!Link -> Pct \cup {None}] /\ owned' \in [Group!Link -> Pct \cup {None}]
    <2>1. owned \in [Group!Link -> Pct \cup {None}]
      BY DEF GroupInv, GroupTyped
    <2>2. owned' = owned \/ owned' = [owned EXCEPT ![l] = pct]
      BY DEF Group!InsertOwnership
    <2>3. QED
      BY <1>1, <2>1, <2>2
  <1>5. CASE owned' = owned
    <2>1. \A q \in Req : orgReq'[q] = orgReq[q] \/ orgReq'[q].at # "owning"
      BY <1>3 DEF Owning
    <2>2. QED
      BY <1>2, <1>4, <1>5, <2>1, OwnedShrinks
  <1>6. CASE owned' = [owned EXCEPT ![l] = pct]
    <2>1. PICK k, p : k = l /\ p = pct
      OBVIOUS
    <2>2. PICK c \in Entity : c = k[2]
      BY <1>1, <2>1 DEF Group!Link
    <2> HIDE DEF l, pct
    <2>3. /\ k \in Group!Link /\ p \in Pct /\ p \in Int
          /\ owned'[k] = p /\ \A m \in Group!Link \ {k} : owned'[m] = owned[m]
      BY <1>1, <1>4, <1>6, <2>1, PctNumbers
    <2>4. p # None
      BY <2>3, RecordConstants
    <2>5. PICK A : A = Group!OtherLinks(k)
      OBVIOUS
    <2>6. /\ A = {m \in Group!Parents(c) : m # k} /\ k \notin A
          /\ Group!Parents(c)' = A \cup {k}
          /\ \A d \in Entity \ {c} : Group!Parents(d)' = Group!Parents(d)
      <3>1. \A d \in Entity : Group!Parents(d)' = {m \in Group!Link : m[2] = d /\ owned'[m] # None}
        BY <1>4 DEF Group!Parents
      <3>2. \A d \in Entity : Group!Parents(d) = {m \in Group!Link : m[2] = d /\ owned[m] # None}
        BY <1>4 DEF Group!Parents
      <3>3. A = {m \in Group!Parents(c) : m # k}
        BY <2>2, <2>5 DEF Group!OtherLinks
      <3>4. k \notin A /\ k[2] = c
        BY <2>2, <3>3
      <3>5. ASSUME NEW m PROVE m \in Group!Parents(c)' <=> m \in A \cup {k}
        <4>1. CASE m = k
          BY <2>3, <2>4, <3>1, <3>4, <4>1
        <4>2. CASE m # k
          BY <2>3, <3>1, <3>2, <3>3, <4>2
        <4>3. QED
          BY <4>1, <4>2
      <3>6. ASSUME NEW d \in Entity \ {c} PROVE Group!Parents(d)' = Group!Parents(d)
        <4>1. \A m \in Group!Link : m[2] = d => m # k
          BY <3>4
        <4>2. \A m \in Group!Link : m[2] = d => owned'[m] = owned[m]
          BY <2>3, <4>1
        <4>3. \A m : m \in Group!Parents(d)' <=> m \in Group!Parents(d)
          BY <3>1, <3>2, <4>2
        <4>4. QED
          BY <4>3
      <3>7. QED
        BY <3>3, <3>4, <3>5, <3>6
    <2>7. /\ IsFiniteSet(A) /\ A \subseteq Group!Link /\ \A m \in A : owned[m] \in 1..100
          /\ IsFiniteSet(A \cup {k})
      <3>1. IsFiniteSet(Group!Parents(c)) /\ A \subseteq Group!Parents(c)
        BY <2>6 DEF OwnedInv
      <3>2. \A m \in Group!Parents(c) : m \in Group!Link /\ owned[m] \in 1..100
        BY <1>4, ParentsAre
      <3>3. IsFiniteSet(A)
        BY <3>1, FS_Subset
      <3>4. QED
        BY <3>1, <3>2, <3>3, FS_AddElement
    <2>8. SumFunctionOnSet(owned', A \cup {k}) = p + SumFunctionOnSet(owned, A)
      <3>1. Numbers(owned, A) /\ Numbers(owned', A) /\ \A m \in A : owned[m] = owned'[m]
        BY <2>3, <2>6, <2>7 DEF Numbers
      <3>2. SumFunctionOnSet(owned, A) = SumFunctionOnSet(owned', A)
        BY <2>7, <3>1, SumSame
      <3>3. SumFunctionOnSet(owned', A \cup {k}) = p + SumFunctionOnSet(owned', A)
        BY <2>3, <2>6, <2>7, <3>1, SumAdds
      <3>4. QED
        BY <3>2, <3>3
    <2>9. SumFunctionOnSet(owned, A) \in Int
      BY <2>7, SumTyped DEF Numbers
    <2>10. c \notin overlapped => SumFunctionOnSet(owned, A) + p <= 100
      BY <1>1, <2>1, <2>2, <2>5 DEF OwnedInv, Room, ChildOf, l, pct
    <2>11. ASSUME NEW d \in Entity
           PROVE  /\ IsFiniteSet(Group!Parents(d)')
                  /\ d \notin overlapped' => SumFunctionOnSet(owned', Group!Parents(d)') <= 100
      <3>1. CASE d = c
        <4>1. Group!Parents(d)' = A \cup {k}
          BY <2>6, <3>1
        <4>2. d \notin overlapped' => SumFunctionOnSet(owned', A \cup {k}) <= 100
          BY <1>2, <2>3, <2>8, <2>9, <2>10, <3>1
        <4>3. QED
          BY <2>7, <4>1, <4>2
      <3>2. CASE d # c
        <4>1. Group!Parents(d)' = Group!Parents(d) /\ IsFiniteSet(Group!Parents(d))
          BY <2>6, <3>2 DEF OwnedInv
        <4>2. \A m \in Group!Parents(d) : m \in Group!Link /\ m # k /\ owned[m] \in 1..100
          BY <1>4, <2>2, <3>2, ParentsAre
        <4>3. SumFunctionOnSet(owned', Group!Parents(d)) = SumFunctionOnSet(owned, Group!Parents(d))
          <5>1. Numbers(owned, Group!Parents(d)) /\ \A m \in Group!Parents(d) : owned[m] = owned'[m]
            BY <2>3, <4>2 DEF Numbers
          <5>2. QED
            BY <4>1, <5>1, SumSame
        <4>4. QED
          BY <1>2, <4>1, <4>3 DEF OwnedInv
      <3>3. QED
        BY <3>1, <3>2
    <2>12. \A q \in Req : Owning(q)' => q # r /\ Owning(q) /\ orgReq'[q] = orgReq[q] /\ ChildOf(q)' = ChildOf(q)
      BY <1>3 DEF Owning, ChildOf
    <2>13. \A q, s \in Req : q # s /\ Owning(q)' /\ Owning(s)' /\ ChildOf(q)' = ChildOf(s)'
                               => ChildOf(q)' \in overlapped'
      BY <1>2, <2>12 DEF OwnedInv
    <2>14. ASSUME NEW q \in Req PROVE Room(q)'
      <3> SUFFICES ASSUME Owning(q)', ChildOf(q)' \notin overlapped' PROVE Room(q)'
        BY DEF Room
      <3>1. q # r /\ Owning(q) /\ orgReq'[q] = orgReq[q] /\ ChildOf(q) \notin overlapped
        BY <1>2, <2>12
      <3>2. ChildOf(q) # c
        BY <1>1, <2>1, <2>2, <3>1 DEF OwnedInv, ChildOf, l
      <3>3. PICK j : j = orgReq[q].link
        OBVIOUS
      <3>4. j \in Group!Link /\ j[2] = ChildOf(q) /\ j[2] \in Entity
        BY <3>1, <3>3 DEF GroupInv, Reads, Owning, ChildOf, Group!Link
      <3>5. PICK B : B = Group!OtherLinks(j)
        OBVIOUS
      <3>6. Group!Parents(j[2])' = Group!Parents(j[2]) /\ IsFiniteSet(Group!Parents(j[2]))
        BY <2>6, <3>2, <3>4 DEF OwnedInv
      <3>7. Group!OtherLinks(orgReq[q].link)' = B
        BY <3>1, <3>3, <3>5, <3>6 DEF Group!OtherLinks
      <3>8. B \subseteq Group!Parents(j[2])
        BY <3>5 DEF Group!OtherLinks
      <3>9. \A m \in B : m \in Group!Link /\ m # k /\ owned[m] \in 1..100
        BY <1>4, <2>2, <3>2, <3>4, <3>8, ParentsAre
      <3>10. SumFunctionOnSet(owned', B) = SumFunctionOnSet(owned, B)
        <4>1. IsFiniteSet(B)
          BY <3>6, <3>8, FS_Subset
        <4>2. Numbers(owned, B) /\ \A m \in B : owned[m] = owned'[m]
          BY <2>3, <3>9 DEF Numbers
        <4>3. QED
          BY <4>1, <4>2, SumSame
      <3>11. SumFunctionOnSet(owned, B) + orgReq[q].pct <= 100
        BY <3>1, <3>3, <3>5 DEF OwnedInv, Room
      <3>12. QED
        BY <3>1, <3>7, <3>10, <3>11 DEF Room
    <2>15. (\A q \in Req : Room(q))'
      BY <2>14
    <2>16. QED
      BY <2>11, <2>13, <2>15 DEF OwnedInv
  <1>7. QED
    BY <1>5, <1>6 DEF Group!InsertOwnership

LEMMA OwnedKeeps == GroupInv /\ GroupInv' /\ OwnedInv /\ [Group!Next]_orgVars => OwnedInv'
  <1> SUFFICES ASSUME GroupInv, GroupInv', OwnedInv, [Group!Next]_orgVars PROVE OwnedInv'
    OBVIOUS
  <1>1. owned' \in [Group!Link -> Pct \cup {None}] /\ owned \in [Group!Link -> Pct \cup {None}] /\ DOMAIN orgReq = Req
    BY DEF GroupInv, GroupTyped
  <1>2. ASSUME \A l \in Group!Link : owned'[l] = owned[l] \/ owned'[l] = None,
               \A r \in Req : orgReq'[r] = orgReq[r] \/ orgReq'[r].at # "owning",
               overlapped' = overlapped
        PROVE  OwnedInv'
    BY <1>1, <1>2, OwnedShrinks
  <1>3. CASE \/ \E e \in Entity : Group!create_entity(e) \/ Group!update_entity(e) \/ Group!delete_entity(e)
             \/ Group!delete_org_structure
             \/ \E l \in Group!Link : Group!delete_ownership(l)
             \/ UNCHANGED orgVars
    <2>1. \A l \in Group!Link : owned'[l] = owned[l] \/ owned'[l] = None
      BY <1>1, <1>3 DEF Group!create_entity, Group!update_entity, Group!delete_entity, Group!WithoutEntities,
         Group!delete_org_structure, Group!delete_ownership, orgVars
    <2>2. orgReq' = orgReq /\ overlapped' = overlapped
      BY <1>3 DEF Group!create_entity, Group!update_entity, Group!delete_entity,
         Group!delete_org_structure, Group!delete_ownership, orgVars
    <2>3. QED
      BY <1>2, <2>1, <2>2
  <1>4. CASE Group!Crash
    BY <1>2, <1>4 DEF Group!Crash, Group!Idle
  <1>5. ASSUME NEW r \in Req, \/ Group!ReadEntities(r) \/ Group!ReadLinks(r)
                              \/ Group!Compute(r) \/ Group!Succeed(r) \/ Group!FailRun(r)
        PROVE  OwnedInv'
    <2>1. owned' = owned /\ overlapped' = overlapped
      BY <1>5 DEF Group!ReadEntities, Group!ReadLinks, Group!Compute, Group!SaveResult, Group!Succeed, Group!FailRun
    <2>2. \E q : q.at # "owning" /\ orgReq' = [orgReq EXCEPT ![r] = q]
      <3>1. CASE Group!ReadEntities(r)
        BY <3>1 DEF Group!ReadEntities
      <3>2. CASE Group!ReadLinks(r)
        BY <3>2 DEF Group!ReadLinks, Group!Idle
      <3>3. CASE Group!Compute(r)
        <4>1. orgReq' = [orgReq EXCEPT ![r] = [orgReq[r] EXCEPT !.at = "saving"]]
          BY <3>3, Zenon DEF Group!Compute, Group!SaveResult
        <4>2. PICK q : q = [orgReq[r] EXCEPT !.at = "saving"]
          OBVIOUS
        <4>3. q.at # "owning"
          <5>1. orgReq[r] = [at |-> "computing", base |-> orgReq[r].base, share |-> orgReq[r].share]
            BY <3>3 DEF GroupInv, Reads, Group!Compute
          <5>2. QED
            BY <4>2, <5>1
        <4>4. QED
          BY <4>1, <4>2, <4>3
      <3>4. CASE Group!Succeed(r) \/ Group!FailRun(r)
        BY <3>4 DEF Group!Succeed, Group!FailRun, Group!Idle
      <3>5. QED
        BY <1>5, <3>1, <3>2, <3>3, <3>4
    <2>3. \A q \in Req : orgReq'[q] = orgReq[q] \/ orgReq'[q].at # "owning"
      BY <1>1, <2>2
    <2>4. QED
      BY <1>2, <2>1, <2>3
  <1>6. QED
    BY <1>3, <1>4, <1>5, OwnedRead, OwnedInserted DEF Group!Next

(* No entity of a group is owned for more than the whole, whatever is      *)
(* deleted and entered meanwhile, unless two creations of its owners       *)
(* overlapped (the check of create_ownership, org_structures.py).          *)
THEOREM OwnedNeverMore == AllSpec => []OwnedAtMostWhole
  <1>1. AllInit => GroupInv /\ OwnedInv
    BY GroupStarts, OwnedStarts DEF AllInit
  <1>2. [AllNext]_allVars => [Group!Next]_orgVars
    BY DEF AllNext, allVars
  <1>3. OwnedInv => OwnedAtMostWhole
    BY OwnedIsSum DEF OwnedInv, OwnedAtMostWhole, Group!OwnedAtMostWhole
  <1>4. QED
    BY <1>1, <1>2, <1>3, GroupKeeps, OwnedKeeps, PTL DEF AllSpec
-----------------------------------------------------------------------------
(* Board packs.  A pack that a schedule made is one request's, which alone *)
(* records it; what cron mails and goes on to advance by is recorded.      *)

PackPoints == {"next", "read", "mark", "llm", "failed", "record", "mail", "mailed", "advance"}
PackTask == [pc : PackPoints, kind : Packs!Kind, pack : Item \cup {None}, row : Packs!ReadRow \cup {None},
             now : 0..MaxTime, todo : SUBSET Packs!ReadRow]

PacksTyped ==
    /\ pack \in [Item -> Packs!PackRow]
    /\ sched \in [Schedule -> Packs!ScheduleRow]
    /\ DOMAIN hist = Item
    /\ clock \in 0..MaxTime
    /\ packReq \in [Req -> {Packs!Idle} \cup PackTask]

Scheduled(q) == q.kind \in {"now", "cron"}
Owns(q) == q.pc \notin {"idle", "next"} /\ Scheduled(q)

RecordedFor(q, h) ==
    /\ h = [status |-> h.status, sched |-> q.row.id, due |-> q.now]
    /\ h.status \in {"ready", "distributed"}

OnTrack(q) ==
    /\ q.pc \in {"next", "failed", "record"} => Scheduled(q)
    /\ q.pc \in {"read", "mark", "llm"} => q.kind # "distribute"
    /\ q.pc = "advance" => q.kind = "cron"
    /\ q.pc \notin {"idle", "next"} => q.pack \in Item
    /\ Owns(q) => q.row \in Packs!ReadRow /\ pack[q.pack] # Packs!NoPack
    /\ q.pc = "mailed" => q.pack \in mailed
    /\ q.pc \in {"mail", "mailed", "advance"} /\ q.kind = "cron" => RecordedFor(q, hist[q.pack])

PacksInv ==
    /\ PacksTyped
    /\ Packs!PacksAreWhatTheySay
    /\ \A r \in Req : OnTrack(packReq[r])
    /\ \A r, o \in Req : r # o /\ Owns(packReq[r]) /\ Owns(packReq[o]) => packReq[r].pack # packReq[o].pack

LEMMA PacksStart == Packs!Init => PacksInv
  <1> SUFFICES ASSUME Packs!Init PROVE PacksInv
    OBVIOUS
  <1>1. PacksTyped
    BY RecordConstants DEF Packs!Init, PacksTyped, Packs!NoPack, Packs!PackRow, Packs!ScheduleRow
  <1>2. Packs!PacksAreWhatTheySay
    BY DEF Packs!Init, Packs!PacksAreWhatTheySay, Packs!NoPack, Packs!NoHistory
  <1>3. \A r \in Req : packReq[r].pc = "idle"
    BY DEF Packs!Init, Packs!Idle
  <1>4. QED
    BY <1>1, <1>2, <1>3 DEF PacksInv, OnTrack, Owns

(* A request goes on.                                                      *)
LEMMA PacksStep ==
    ASSUME PacksInv, NEW r \in Req, NEW q \in {Packs!Idle} \cup PackTask, packReq' = [packReq EXCEPT ![r] = q],
           pack' \in [Item -> Packs!PackRow], sched' \in [Schedule -> Packs!ScheduleRow],
           DOMAIN hist' = Item, clock' = clock, mailed \subseteq mailed',
           Packs!PacksAreWhatTheySay', OnTrack(q)',
           \A p \in Item : pack[p] # Packs!NoPack => pack'[p] # Packs!NoPack,
           \A p \in Item : \/ hist'[p] = hist[p]
                           \/ hist'[p] = [hist[p] EXCEPT !.status = "distributed"]
                           \/ Owns(packReq[r]) /\ p = packReq[r].pack,
           Owns(q) => \A o \in Req \ {r} : Owns(packReq[o]) => packReq[o].pack # q.pack
    PROVE  PacksInv'
  <1>1. /\ packReq' \in [Req -> {Packs!Idle} \cup PackTask] /\ packReq'[r] = q
        /\ \A o \in Req \ {r} : packReq'[o] = packReq[o]
    BY DEF PacksInv, PacksTyped
  <1>2. PacksTyped'
    BY <1>1 DEF PacksInv, PacksTyped
  <1>3. ASSUME NEW o \in Req PROVE OnTrack(packReq[o])'
    <2>1. CASE o = r
      BY <1>1, <2>1 DEF OnTrack, Owns, Scheduled, RecordedFor
    <2>2. CASE o # r
      <3>1. packReq'[o] = packReq[o] /\ OnTrack(packReq[o])
        BY <1>1, <2>2 DEF PacksInv
      <3>2. ASSUME packReq[o].pc \in {"mail", "mailed", "advance"}, packReq[o].kind = "cron"
            PROVE  RecordedFor(packReq[o], hist'[packReq[o].pack])
        <4>1. PICK p \in Item : p = packReq[o].pack
          BY <3>1, <3>2 DEF OnTrack
        <4>2. Owns(packReq[o]) /\ RecordedFor(packReq[o], hist[p])
          BY <3>1, <3>2, <4>1 DEF OnTrack, Owns, Scheduled
        <4>3. ~(Owns(packReq[r]) /\ p = packReq[r].pack)
          BY <2>2, <4>1, <4>2 DEF PacksInv
        <4>4. CASE hist'[p] = hist[p]
          BY <4>1, <4>2, <4>4
        <4>5. CASE hist'[p] = [hist[p] EXCEPT !.status = "distributed"]
          BY <4>1, <4>2, <4>5 DEF RecordedFor
        <4>6. QED
          BY <4>3, <4>4, <4>5
      <3>3. QED
        BY <3>1, <3>2 DEF OnTrack, Owns, Scheduled, RecordedFor
    <2>3. QED
      BY <2>1, <2>2
  <1>4. ASSUME NEW t \in Req, NEW o \in Req, t # o, Owns(packReq'[t]), Owns(packReq'[o])
        PROVE  packReq'[t].pack # packReq'[o].pack
    <2>1. CASE t # r /\ o # r
      BY <1>1, <1>4, <2>1 DEF PacksInv
    <2>2. CASE t = r
      BY <1>1, <1>4, <2>2
    <2>3. CASE o = r
      BY <1>1, <1>4, <2>3
    <2>4. QED
      BY <2>1, <2>2, <2>3
  <1>5. QED
    BY <1>2, <1>3, <1>4 DEF PacksInv, Owns, Scheduled

(* Users edit packs and schedules, and time passes.                        *)
LEMMA PacksEdited ==
    ASSUME PacksInv, UNCHANGED <<packReq, hist, mailed>>, clock' \in 0..MaxTime,
           pack' \in [Item -> Packs!PackRow], sched' \in [Schedule -> Packs!ScheduleRow],
           \A p \in Item : pack[p] # Packs!NoPack => pack'[p] # Packs!NoPack,
           \A p \in Item : pack'[p].status = "ready" => "llm" \in pack'[p].narrative
    PROVE  PacksInv'
  <1>1. PacksTyped'
    BY DEF PacksInv, PacksTyped
  <1>2. Packs!PacksAreWhatTheySay'
    BY DEF PacksInv, Packs!PacksAreWhatTheySay
  <1>3. \A r \in Req : OnTrack(packReq[r])'
    BY DEF PacksInv, OnTrack, Owns, Scheduled, RecordedFor
  <1>4. QED
    BY <1>1, <1>2, <1>3 DEF PacksInv, Owns, Scheduled

LEMMA PackTaskGoes ==
    ASSUME NEW t \in PackTask, NEW pc \in PackPoints, NEW q, q = [t EXCEPT !.pc = pc]
    PROVE  /\ q \in PackTask /\ q.pc = pc /\ q.kind = t.kind /\ q.pack = t.pack /\ q.row = t.row
           /\ q.now = t.now
  BY DEF PackTask

(* A request ends, or goes on to a point whose promises it keeps.          *)
LEMMA PacksGo ==
    ASSUME PacksInv, NEW r \in Req, packReq[r] \in PackTask, NEW t, t = packReq[r],
           \/ packReq' = [packReq EXCEPT ![r] = Packs!Idle]
           \/ \E pc \in PackPoints :
                 /\ packReq' = [packReq EXCEPT ![r].pc = pc]
                 /\ pc # "next" => t.pc # "next"
                 /\ pc \in {"next", "failed", "record"} => Scheduled(t)
                 /\ pc \in {"read", "mark", "llm"} => t.kind # "distribute"
                 /\ pc = "advance" => t.kind = "cron"
                 /\ pc = "mailed" => t.pack \in mailed'
                 /\ pc \in {"mail", "mailed", "advance"} /\ t.kind = "cron" => RecordedFor(t, hist'[t.pack]),
           pack' \in [Item -> Packs!PackRow], sched' \in [Schedule -> Packs!ScheduleRow],
           DOMAIN hist' = Item, clock' = clock, mailed \subseteq mailed',
           Packs!PacksAreWhatTheySay',
           \A p \in Item : pack[p] # Packs!NoPack => pack'[p] # Packs!NoPack,
           \A p \in Item : \/ hist'[p] = hist[p]
                           \/ hist'[p] = [hist[p] EXCEPT !.status = "distributed"]
                           \/ Owns(t) /\ p = t.pack
    PROVE  PacksInv'
  <1>1. CASE packReq' = [packReq EXCEPT ![r] = Packs!Idle]
    <2>1. OnTrack(Packs!Idle)' /\ ~Owns(Packs!Idle)
      BY DEF OnTrack, Owns, Packs!Idle
    <2>2. PICK q : q = Packs!Idle
      OBVIOUS
    <2>3. OnTrack(q)' /\ ~Owns(q) /\ q \in {Packs!Idle} \cup PackTask /\ packReq' = [packReq EXCEPT ![r] = q]
      BY <1>1, <2>1, <2>2 DEF OnTrack, Owns, Scheduled, RecordedFor, Packs!Idle
    <2>4. QED
      BY <2>3, PacksStep
  <1>2. CASE ~(packReq' = [packReq EXCEPT ![r] = Packs!Idle])
    <2>1. PICK pc \in PackPoints :
                 /\ packReq' = [packReq EXCEPT ![r].pc = pc]
                 /\ pc # "next" => t.pc # "next"
                 /\ pc \in {"next", "failed", "record"} => Scheduled(t)
                 /\ pc \in {"read", "mark", "llm"} => t.kind # "distribute"
                 /\ pc = "advance" => t.kind = "cron"
                 /\ pc = "mailed" => t.pack \in mailed'
                 /\ pc \in {"mail", "mailed", "advance"} /\ t.kind = "cron" => RecordedFor(t, hist'[t.pack])
      BY <1>2
    <2>2. PICK q : q = [t EXCEPT !.pc = pc]
      OBVIOUS
    <2>3. /\ q \in PackTask /\ q.pc = pc /\ q.kind = t.kind /\ q.pack = t.pack /\ q.row = t.row
          /\ q.now = t.now
      BY <2>2, PackTaskGoes
    <2>4. packReq' = [packReq EXCEPT ![r] = q]
      BY <2>1, <2>2, Zenon
    <2>5. t.pc # "idle" /\ OnTrack(t)
      BY DEF PackTask, PackPoints, PacksInv
    <2>6. Owns(q) => Owns(t)
      BY <2>1, <2>3, <2>5 DEF Owns, Scheduled
    <2>7. OnTrack(q)'
      <3>1. q.pc \notin {"idle", "next"} => q.pack \in Item
        BY <2>1, <2>3, <2>5 DEF OnTrack
      <3>2. Owns(q) => q.row \in Packs!ReadRow /\ pack'[q.pack] # Packs!NoPack
        <4>1. Owns(q) => q.pack \in Item /\ q.row \in Packs!ReadRow /\ pack[q.pack] # Packs!NoPack
          BY <2>3, <2>5, <2>6, <3>1 DEF OnTrack, Owns
        <4>2. QED
          BY <4>1
      <3>3. QED
        BY <2>1, <2>3, <3>1, <3>2 DEF OnTrack, Owns, Scheduled, RecordedFor
    <2>8. Owns(q) => \A o \in Req \ {r} : Owns(packReq[o]) => packReq[o].pack # q.pack
      BY <2>3, <2>6 DEF PacksInv
    <2>9. QED
      BY <2>3, <2>4, <2>7, <2>8, PacksStep
  <1>3. QED
    BY <1>1, <1>2

(* A point that promises nothing of its own: only the request goes on.     *)
LEMMA PacksOnlyGo ==
    ASSUME PacksInv, NEW r \in Req, packReq[r].pc # "idle", NEW t, t = packReq[r],
           \/ packReq' = [packReq EXCEPT ![r] = Packs!Idle]
           \/ \E pc \in PackPoints :
                 /\ packReq' = [packReq EXCEPT ![r].pc = pc]
                 /\ pc # "next" => t.pc # "next"
                 /\ pc \in {"next", "failed", "record"} => Scheduled(t)
                 /\ pc \in {"read", "mark", "llm"} => t.kind # "distribute"
                 /\ pc \notin {"advance", "mailed", "mail"},
           UNCHANGED <<sched, hist, mailed, clock>>,
           pack' \in [Item -> Packs!PackRow],
           \A p \in Item : pack[p] # Packs!NoPack => pack'[p] # Packs!NoPack,
           \A p \in Item : pack'[p].status = "ready" => "llm" \in pack'[p].narrative
    PROVE  PacksInv'
  <1>1. packReq[r] \in PackTask
    BY DEF PacksInv, PacksTyped, Packs!Idle
  <1>2. sched' \in [Schedule -> Packs!ScheduleRow] /\ DOMAIN hist' = Item /\ mailed \subseteq mailed'
    BY DEF PacksInv, PacksTyped
  <1>3. Packs!PacksAreWhatTheySay'
    BY DEF PacksInv, Packs!PacksAreWhatTheySay
  <1>4. QED
    BY <1>1, <1>2, <1>3, PacksGo

(* An update of a pack, by users and by generation.                        *)
LEMMA PackUpdated ==
    ASSUME PacksInv, NEW p, NEW new \in Packs!PackRow, new.status # "none",
           new.status = "ready" => "llm" \in new.narrative,
           pack' = [pack EXCEPT ![p] = new] \/ pack' = pack
    PROVE  /\ pack' \in [Item -> Packs!PackRow]
           /\ \A i \in Item : pack[i] # Packs!NoPack => pack'[i] # Packs!NoPack
           /\ \A i \in Item : pack'[i].status = "ready" => "llm" \in pack'[i].narrative
  <1>1. pack \in [Item -> Packs!PackRow] /\ new # Packs!NoPack
    BY DEF PacksInv, PacksTyped, Packs!NoPack
  <1>2. \A i \in Item : pack[i].status = "ready" => "llm" \in pack[i].narrative
    BY DEF PacksInv, Packs!PacksAreWhatTheySay
  <1>3. QED
    BY <1>1, <1>2

LEMMA KeepsPackEdits ==
    ASSUME PacksInv, NEW p \in Item,
           Packs!create_board_pack(p) \/ Packs!patch_board_pack(p) \/ Packs!delete_board_pack(p)
    PROVE  PacksInv'
  <1>1. /\ UNCHANGED <<packReq, hist, mailed>> /\ clock' \in 0..MaxTime
        /\ sched' \in [Schedule -> Packs!ScheduleRow] /\ pack[p] \in Packs!PackRow
    BY DEF Packs!create_board_pack, Packs!patch_board_pack, Packs!delete_board_pack, PacksInv, PacksTyped
  <1>2. CASE Packs!create_board_pack(p)
    <2>1. /\ pack' = [pack EXCEPT ![p] = Packs!Draft] /\ Packs!Draft \in Packs!PackRow
          /\ Packs!Draft.status = "draft"
      BY <1>2 DEF Packs!create_board_pack, Packs!Draft, Packs!PackRow
    <2>2. QED
      BY <1>1, <2>1, PackUpdated, PacksEdited
  <1>3. CASE Packs!patch_board_pack(p)
    <2> DEFINE new == [pack[p] EXCEPT !.narrative = pack[p].narrative \cup {"user"}]
    <2>1. pack[p].status # "none" /\ (pack[p].status = "ready" => "llm" \in pack[p].narrative)
      BY <1>3 DEF Packs!patch_board_pack, Packs!Exists, PacksInv, Packs!PacksAreWhatTheySay
    <2>2. /\ new \in Packs!PackRow /\ new.status = pack[p].status
          /\ new.narrative = pack[p].narrative \cup {"user"}
      BY <1>1 DEF Packs!PackRow
    <2>3. pack' = [pack EXCEPT ![p] = new]
      BY <1>3, Zenon DEF Packs!patch_board_pack
    <2> HIDE DEF new
    <2>4. new.status # "none" /\ (new.status = "ready" => "llm" \in new.narrative)
      BY <2>1, <2>2
    <2>5. QED
      BY <1>1, <2>2, <2>3, <2>4, PackUpdated, PacksEdited
  <1>4. CASE Packs!delete_board_pack(p)
    <2> DEFINE new == [status |-> "deleted", narrative |-> {}]
    <2>1. new \in Packs!PackRow /\ new.status = "deleted"
      BY DEF Packs!PackRow
    <2>2. pack' = [pack EXCEPT ![p] = new]
      BY <1>4 DEF Packs!delete_board_pack
    <2> HIDE DEF new
    <2>3. QED
      BY <1>1, <2>1, <2>2, PackUpdated, PacksEdited
  <1>5. QED
    BY <1>2, <1>3, <1>4

LEMMA NextRun ==
    ASSUME NEW c \in CronExpr, NEW t \in Nat
    PROVE  Packs!compute_next_run(c, t) \in Nat \cup {None}
  <1>1. CASE c = None
    BY <1>1 DEF Packs!compute_next_run
  <1>2. CASE c # None
    <2>1. c \in Nat \ {0} /\ Packs!compute_next_run(c, t) = (t \div c + 1) * c
      BY <1>2, RecordConstants DEF Packs!compute_next_run
    <2>2. QED
      BY <2>1
  <1>3. QED
    BY <1>1, <1>2

LEMMA KeepsSchedules ==
    ASSUME PacksInv,
           \/ Packs!Tick \/ UNCHANGED packVars
           \/ \E s \in Schedule : Packs!create_schedule(s) \/ Packs!patch_schedule(s) \/ Packs!delete_schedule(s)
    PROVE  PacksInv'
  <1>1. /\ UNCHANGED <<packReq, hist, mailed, pack>> /\ clock' \in 0..MaxTime /\ clock \in Nat
        /\ sched \in [Schedule -> Packs!ScheduleRow] /\ pack' \in [Item -> Packs!PackRow]
        /\ \A p \in Item : pack'[p].status = "ready" => "llm" \in pack'[p].narrative
    BY RecordConstants
       DEF Packs!Tick, packVars, Packs!create_schedule, Packs!patch_schedule, Packs!delete_schedule, PacksInv,
           PacksTyped, Packs!PacksAreWhatTheySay
  <1>2. sched' \in [Schedule -> Packs!ScheduleRow]
    <2>1. CASE Packs!Tick \/ UNCHANGED packVars
      BY <1>1, <2>1 DEF Packs!Tick, packVars
    <2>2. ASSUME NEW s \in Schedule, Packs!create_schedule(s) PROVE <1>2!:
      <3>1. PICK c \in CronExpr : sched' = [sched EXCEPT ![s] = [state |-> "enabled", cron |-> c,
                                                     next |-> Packs!compute_next_run(c, clock)]]
        BY <2>2 DEF Packs!create_schedule
      <3>2. Packs!compute_next_run(c, clock) \in Nat \cup {None}
        BY <1>1, NextRun
      <3>3. [state |-> "enabled", cron |-> c, next |-> Packs!compute_next_run(c, clock)] \in Packs!ScheduleRow
        BY <3>2 DEF Packs!ScheduleRow
      <3>4. QED
        BY <1>1, <3>1, <3>3
    <2>3. ASSUME NEW s \in Schedule, Packs!patch_schedule(s) PROVE <1>2!:
      <3>1. sched[s] \in [state : {"enabled", "disabled"}, cron : CronExpr, next : Nat \cup {None}]
        BY <1>1, <2>3 DEF Packs!patch_schedule, Packs!HasSchedule, Packs!ScheduleRow
      <3>2. ASSUME NEW c \in CronExpr,
                   sched' = [sched EXCEPT ![s].cron = c, ![s].next = Packs!compute_next_run(c, clock)]
            PROVE  <1>2!:
        <4>1. PICK n \in Nat \cup {None} : n = Packs!compute_next_run(c, clock)
          BY <1>1, NextRun
        <4> DEFINE new == [[sched[s] EXCEPT !.cron = c] EXCEPT !.next = n]
        <4>2. new \in Packs!ScheduleRow
          BY <3>1 DEF Packs!ScheduleRow
        <4>3. sched' = [sched EXCEPT ![s] = new]
          BY <3>2, <4>1, Zenon
        <4> HIDE DEF new
        <4>4. QED
          BY <1>1, <4>2, <4>3
      <3>3. ASSUME NEW x \in {"enabled", "disabled"}, sched' = [sched EXCEPT ![s].state = x]
            PROVE  <1>2!:
        <4> DEFINE new == [sched[s] EXCEPT !.state = x]
        <4>1. new \in Packs!ScheduleRow
          BY <3>1 DEF Packs!ScheduleRow
        <4>2. sched' = [sched EXCEPT ![s] = new]
          BY <3>3, Zenon
        <4> HIDE DEF new
        <4>3. QED
          BY <1>1, <4>1, <4>2
      <3>4. QED
        BY <2>3, <3>2, <3>3 DEF Packs!patch_schedule
    <2>4. ASSUME NEW s \in Schedule, Packs!delete_schedule(s) PROVE <1>2!:
      BY <1>1, <2>4 DEF Packs!delete_schedule, Packs!ScheduleRow
    <2>5. QED
      BY <2>1, <2>2, <2>3, <2>4
  <1>3. QED
    BY <1>1, <1>2, PacksEdited

(* Requests start.                                                         *)
LEMMA PacksBegin ==
    ASSUME PacksInv, NEW r \in Req, NEW q \in PackTask, packReq' = [packReq EXCEPT ![r] = q],
           UNCHANGED <<pack, sched, hist, mailed, clock>>, OnTrack(q), ~Owns(q)
    PROVE  PacksInv'
  <1>1. /\ pack' \in [Item -> Packs!PackRow] /\ sched' \in [Schedule -> Packs!ScheduleRow]
        /\ DOMAIN hist' = Item /\ mailed \subseteq mailed' /\ clock' = clock
        /\ \A p \in Item : (pack[p] # Packs!NoPack => pack'[p] # Packs!NoPack) /\ hist'[p] = hist[p]
    BY DEF PacksInv, PacksTyped
  <1>2. Packs!PacksAreWhatTheySay' /\ OnTrack(q)'
    BY DEF PacksInv, Packs!PacksAreWhatTheySay, OnTrack, Owns, Scheduled, RecordedFor
  <1>3. QED
    BY <1>1, <1>2, PacksStep

LEMMA KeepsRequests ==
    ASSUME PacksInv, NEW r \in Req,
           \/ \E p \in Item : Packs!generate_board_pack(r, p) \/ Packs!distribute_pack(r, p)
           \/ \E s \in Schedule : Packs!run_schedule_now(r, s)
           \/ Packs!cron_execute_schedules(r)
    PROVE  PacksInv'
  <1>1. UNCHANGED <<pack, sched, hist, mailed, clock>> /\ clock \in 0..MaxTime /\ 0 \in 0..MaxTime
    BY RecordConstants
       DEF Packs!generate_board_pack, Packs!distribute_pack, Packs!run_schedule_now,
           Packs!cron_execute_schedules, PacksInv, PacksTyped
  <1>2. ASSUME NEW s \in Schedule, Packs!HasSchedule(s) PROVE Packs!AsRead(s) \in Packs!ReadRow
    BY <1>2 DEF PacksInv, PacksTyped, Packs!HasSchedule, Packs!ScheduleRow, Packs!AsRead, Packs!ReadRow
  <1>3. ASSUME NEW p \in Item, NEW pc \in {"read", "mail"}, NEW kind \in {"user", "distribute"},
               pc = "read" => kind = "user",
               packReq' = [packReq EXCEPT ![r] = [pc |-> pc, kind |-> kind, pack |-> p, row |-> None,
                                                  now |-> 0, todo |-> {}]]
        PROVE  PacksInv'
    <2> DEFINE q == [pc |-> pc, kind |-> kind, pack |-> p, row |-> None, now |-> 0, todo |-> {}]
    <2>1. q \in PackTask
      BY <1>1 DEF PackTask, PackPoints, Packs!Kind
    <2>2. OnTrack(q) /\ ~Owns(q)
      BY <1>3 DEF OnTrack, Owns, Scheduled
    <2>3. packReq' = [packReq EXCEPT ![r] = q]
      BY <1>3
    <2> HIDE DEF q
    <2>4. QED
      BY <1>1, <2>1, <2>2, <2>3, PacksBegin
  <1>4. ASSUME NEW kind \in {"now", "cron"}, NEW todo \in SUBSET Packs!ReadRow,
               packReq' = [packReq EXCEPT ![r] = [pc |-> "next", kind |-> kind, pack |-> None, row |-> None,
                                                  now |-> clock, todo |-> todo]]
        PROVE  PacksInv'
    <2>1. PICK n \in 0..MaxTime : n = clock
      BY <1>1
    <2> DEFINE q == [pc |-> "next", kind |-> kind, pack |-> None, row |-> None, now |-> n, todo |-> todo]
    <2>2. q \in PackTask
      BY DEF PackTask, PackPoints, Packs!Kind
    <2>3. OnTrack(q) /\ ~Owns(q)
      BY DEF OnTrack, Owns, Scheduled
    <2>4. packReq' = [packReq EXCEPT ![r] = q]
      BY <1>4, <2>1
    <2> HIDE DEF q
    <2>5. QED
      BY <1>1, <2>2, <2>3, <2>4, PacksBegin
  <1>5. ASSUME NEW p \in Item, Packs!generate_board_pack(r, p) \/ Packs!distribute_pack(r, p) PROVE PacksInv'
    BY <1>3, <1>5 DEF Packs!generate_board_pack, Packs!distribute_pack
  <1>6. ASSUME NEW s \in Schedule, Packs!run_schedule_now(r, s) PROVE PacksInv'
    <2>1. PICK todo : todo = {Packs!AsRead(s)}
      OBVIOUS
    <2>2. todo \in SUBSET Packs!ReadRow
      BY <1>2, <1>6, <2>1 DEF Packs!run_schedule_now
    <2>3. packReq' = [packReq EXCEPT ![r] = [pc |-> "next", kind |-> "now", pack |-> None, row |-> None,
                                             now |-> clock, todo |-> todo]]
      BY <1>6, <2>1 DEF Packs!run_schedule_now
    <2>4. QED
      BY <1>4, <2>2, <2>3
  <1>7. CASE Packs!cron_execute_schedules(r)
    <2>1. PICK todo : todo = {Packs!AsRead(s) : s \in {x \in Schedule : Packs!IsDue(x)}}
      OBVIOUS
    <2>2. todo \in SUBSET Packs!ReadRow
      BY <1>2, <2>1 DEF Packs!IsDue
    <2>3. packReq' = [packReq EXCEPT ![r] = [pc |-> "next", kind |-> "cron", pack |-> None, row |-> None,
                                             now |-> clock, todo |-> todo]]
      BY <1>7, <2>1 DEF Packs!cron_execute_schedules
    <2>4. QED
      BY <1>4, <2>2, <2>3
  <1>8. QED
    BY <1>5, <1>6, <1>7

(* The pack of a schedule is new, so no other request has it.              *)
LEMMA KeepsNextSchedule ==
    ASSUME PacksInv, NEW r \in Req, Packs!NextSchedule(r)
    PROVE  PacksInv'
  <1>1. /\ packReq[r] \in PackTask /\ packReq[r].pc = "next" /\ UNCHANGED <<sched, hist, mailed, clock>>
        /\ Scheduled(packReq[r]) /\ pack \in [Item -> Packs!PackRow]
    <2>1. packReq[r].pc = "next" /\ UNCHANGED <<sched, hist, mailed, clock>>
      BY DEF Packs!NextSchedule
    <2>2. packReq[r] \in PackTask
      BY <2>1 DEF PacksInv, PacksTyped, Packs!Idle
    <2>3. Scheduled(packReq[r]) /\ pack \in [Item -> Packs!PackRow]
      BY <2>1 DEF PacksInv, PacksTyped, OnTrack
    <2>4. QED
      BY <2>1, <2>2, <2>3
  <1>2. /\ sched' \in [Schedule -> Packs!ScheduleRow] /\ DOMAIN hist' = Item /\ mailed \subseteq mailed'
        /\ \A p \in Item : hist'[p] = hist[p]
    BY <1>1 DEF PacksInv, PacksTyped
  <1>3. CASE packReq' = [packReq EXCEPT ![r] = Packs!Idle] /\ pack' = pack
    <2>1. /\ \A p \in Item : pack'[p].status = "ready" => "llm" \in pack'[p].narrative
          /\ pack' \in [Item -> Packs!PackRow]
          /\ \A p \in Item : pack[p] # Packs!NoPack => pack'[p] # Packs!NoPack
      BY <1>1, <1>3 DEF PacksInv, Packs!PacksAreWhatTheySay
    <2>2. packReq[r].pc # "idle"
      BY <1>1
    <2>3. QED
      BY <1>1, <1>3, <2>1, <2>2, PacksOnlyGo
  <1>4. ASSUME NEW w \in packReq[r].todo, NEW p \in Item, pack[p] = Packs!NoPack,
               pack' = [pack EXCEPT ![p] = Packs!Draft],
               packReq' = [packReq EXCEPT ![r].pc = "read", ![r].pack = p, ![r].row = w, ![r].todo = @ \ {w}]
        PROVE  PacksInv'
    <2>1. PICK t \in PackTask : t = packReq[r]
      BY <1>1
    <2> DEFINE q == [[[[t EXCEPT !.pc = "read"] EXCEPT !.pack = p] EXCEPT !.row = w]
                        EXCEPT !.todo = t.todo \ {w}]
    <2>2. w \in Packs!ReadRow
      BY <1>4, <2>1 DEF PackTask
    <2>3. /\ q \in PackTask /\ q.pc = "read" /\ q.pack = p /\ q.row = w /\ q.kind = t.kind
      BY <2>2 DEF PackTask, PackPoints
    <2>4. packReq' = [packReq EXCEPT ![r] = q]
      <3> DEFINE q2 == [packReq[r] EXCEPT !.pc = "read", !.pack = p, !.row = w, !.todo = @ \ {w}]
      <3>1. packReq' = [packReq EXCEPT ![r] = q2]
        BY <1>4
      <3>2. q2 = q
        BY <2>1 DEF PackTask
      <3>3. QED
        BY <3>1, <3>2, Zenon
    <2> HIDE DEF q
    <2>5. /\ pack' \in [Item -> Packs!PackRow] /\ pack'[p] # Packs!NoPack
          /\ \A i \in Item : pack[i] # Packs!NoPack => pack'[i] # Packs!NoPack
          /\ \A i \in Item : pack'[i].status = "ready" => pack'[i] = pack[i]
      BY <1>1, <1>4 DEF Packs!Draft, Packs!NoPack, Packs!PackRow
    <2>6. Packs!PacksAreWhatTheySay'
      BY <1>1, <2>5 DEF PacksInv, Packs!PacksAreWhatTheySay
    <2>7. OnTrack(q)'
      BY <1>1, <2>1, <2>2, <2>3, <2>5 DEF OnTrack, Owns, Scheduled
    <2>8. \A o \in Req \ {r} : Owns(packReq[o]) => packReq[o].pack # q.pack
      BY <1>4, <2>3 DEF PacksInv, OnTrack
    <2>9. QED
      BY <1>1, <1>2, <2>3, <2>4, <2>5, <2>6, <2>7, <2>8, PacksStep
  <1>5. QED
    BY <1>3, <1>4, Zenon DEF Packs!NextSchedule, Packs!Ends

(* A pack is generated.                                                    *)
LEMMA KeepsGeneration ==
    ASSUME PacksInv, NEW r \in Req,
           \/ Packs!ReadPack(r) \/ Packs!MarkGenerating(r) \/ Packs!WriteReady(r) \/ Packs!WriteError(r)
           \/ Packs!ModelRaises(r)
    PROVE  PacksInv'
  <1>1. UNCHANGED <<sched, hist, mailed, clock>> /\ packReq[r].pc \in {"read", "mark", "llm"}
    BY DEF Packs!ReadPack, Packs!MarkGenerating, Packs!WriteReady, Packs!WriteError, Packs!ModelRaises
  <1>2. PICK t : t = packReq[r]
    OBVIOUS
  <1>3. /\ t.pc \in {"read", "mark", "llm"} /\ OnTrack(t) /\ t.pack \in Item /\ t.kind # "distribute"
        /\ t.kind \in Packs!Kind /\ pack[t.pack] \in Packs!PackRow
    <2>1. t.pc \in {"read", "mark", "llm"} /\ OnTrack(t) /\ t.pack \in Item /\ t.kind # "distribute"
      BY <1>1, <1>2 DEF PacksInv, OnTrack
    <2>2. t \in PackTask
      BY <1>2, <2>1 DEF PacksInv, PacksTyped, Packs!Idle
    <2>3. QED
      BY <2>1, <2>2 DEF PackTask, PacksInv, PacksTyped
  <1>4. \/ packReq' = [packReq EXCEPT ![r] = Packs!Idle]
        \/ \E pc \in PackPoints :
              /\ packReq' = [packReq EXCEPT ![r].pc = pc]
              /\ pc # "next" => t.pc # "next"
              /\ pc \in {"next", "failed", "record"} => Scheduled(t)
              /\ pc \in {"read", "mark", "llm"} => t.kind # "distribute"
              /\ pc \notin {"advance", "mailed", "mail"}
    <2>1. \/ packReq' = [packReq EXCEPT ![r] = Packs!Idle]
          \/ packReq' = [packReq EXCEPT ![r].pc = "failed"] /\ Scheduled(t)
          \/ packReq' = [packReq EXCEPT ![r].pc = "record"] /\ Scheduled(t)
          \/ packReq' = [packReq EXCEPT ![r].pc = "mark"] \/ packReq' = [packReq EXCEPT ![r].pc = "llm"]
      BY <1>2, <1>3
         DEF Packs!ReadPack, Packs!MarkGenerating, Packs!WriteReady, Packs!WriteError, Packs!ModelRaises,
             Packs!Raises, Packs!Goes, Packs!Ends, Packs!Kind, Scheduled
    <2>2. t.pc # "next" /\ {"failed", "record", "mark", "llm"} \subseteq PackPoints
      BY <1>3 DEF PackPoints
    <2>3. QED
      BY <1>3, <2>1, <2>2
  <1>5. PICK p \in Item : p = t.pack
    BY <1>3
  <1>6. PICK new \in Packs!PackRow :
            /\ new.status # "none"
            /\ new.status = "ready" => "llm" \in new.narrative
            /\ pack' = [pack EXCEPT ![p] = new] \/ pack' = pack
    <2>1. CASE Packs!WriteReady(r)
      <3>1. PICK new : new = [status |-> "ready", narrative |-> {"llm"}]
        OBVIOUS
      <3>2. new \in Packs!PackRow /\ new.status = "ready" /\ "llm" \in new.narrative
        BY <3>1 DEF Packs!PackRow
      <3>3. pack' = [pack EXCEPT ![p] = new] \/ pack' = pack
        BY <1>2, <1>5, <2>1, <3>1 DEF Packs!WriteReady, Packs!UpdatePack
      <3>4. QED
        BY <3>2, <3>3
    <2>2. CASE ~Packs!WriteReady(r)
      <3>1. PICK st \in {"generating", "error"} :
                pack' = [pack EXCEPT ![p] = [pack[p] EXCEPT !.status = st]] \/ pack' = pack
        BY <1>2, <1>5, <2>2
           DEF Packs!ReadPack, Packs!MarkGenerating, Packs!WriteError, Packs!ModelRaises,
               Packs!SetStatus, Packs!UpdatePack
      <3>2. PICK new : new = [pack[p] EXCEPT !.status = st]
        OBVIOUS
      <3>3. new \in Packs!PackRow /\ new.status = st
        BY <1>3, <1>5, <3>2 DEF Packs!PackRow
      <3>4. QED
        BY <3>1, <3>2, <3>3
    <2>3. QED
      BY <2>1, <2>2
  <1>7. /\ pack' \in [Item -> Packs!PackRow]
        /\ \A i \in Item : pack[i] # Packs!NoPack => pack'[i] # Packs!NoPack
        /\ \A i \in Item : pack'[i].status = "ready" => "llm" \in pack'[i].narrative
    BY <1>6, PackUpdated
  <1>8. packReq[r].pc # "idle"
    BY <1>1
  <1>9. QED
    BY <1>1, <1>2, <1>4, <1>7, <1>8, PacksOnlyGo

(* A statement fails, or the server stops.                                 *)
LEMMA KeepsFailure ==
    ASSUME PacksInv, NEW r \in Req, Packs!Fail(r)
    PROVE  PacksInv'
  <1>1. UNCHANGED <<pack, sched, hist, mailed, clock>> /\ packReq[r] \in PackTask
    BY DEF Packs!Fail, PacksInv, PacksTyped
  <1>2. PICK t : t = packReq[r]
    OBVIOUS
  <1>3. t.pc # "idle"
    BY <1>1, <1>2 DEF PackTask, PackPoints
  <1>4. \/ packReq' = [packReq EXCEPT ![r] = Packs!Idle]
        \/ packReq' = [packReq EXCEPT ![r].pc = "next"] /\ Scheduled(t)
    BY <1>2 DEF Packs!Fail, Packs!AfterPack, Packs!Goes, Packs!Ends, Scheduled
  <1>5. /\ pack' \in [Item -> Packs!PackRow]
        /\ \A i \in Item : pack[i] # Packs!NoPack => pack'[i] # Packs!NoPack
        /\ \A i \in Item : pack'[i].status = "ready" => "llm" \in pack'[i].narrative
    BY <1>1 DEF PacksInv, PacksTyped, Packs!PacksAreWhatTheySay
  <1>6. "next" \in PackPoints
    BY DEF PackPoints
  <1>7. QED
    BY <1>1, <1>2, <1>3, <1>4, <1>5, <1>6, PacksOnlyGo

(* A pack is recorded: by the one request that has it.                     *)
LEMMA KeepsRecord ==
    ASSUME PacksInv, NEW r \in Req, Packs!RecordFailed(r) \/ Packs!RecordReady(r)
    PROVE  PacksInv'
  <1>1. UNCHANGED <<pack, sched, mailed, clock>> /\ packReq[r].pc \in {"failed", "record"}
    BY DEF Packs!RecordFailed, Packs!RecordReady
  <1>2. packReq[r] \in PackTask
    BY <1>1 DEF PacksInv, PacksTyped, Packs!Idle
  <1>3. PICK t : t = packReq[r]
    OBVIOUS
  <1>4. t \in PackTask /\ t.pc \in {"failed", "record"} /\ Scheduled(t) /\ t.pack \in Item /\ Owns(t)
    BY <1>1, <1>2, <1>3 DEF PacksInv, OnTrack, Owns
  <1>5. PICK p \in Item : p = t.pack
    BY <1>4
  <1>6. PICK st \in {"ready", "failed"}, due \in {t.now, 0} :
            hist' = [hist EXCEPT ![p] = [status |-> st, sched |-> t.row.id, due |-> due]]
            /\ (Packs!RecordReady(r) => st = "ready" /\ due = t.now)
    <2>1. CASE Packs!RecordReady(r)
      BY <1>3, <1>5, <2>1 DEF Packs!RecordReady, Packs!Record
    <2>2. CASE ~Packs!RecordReady(r)
      BY <1>3, <1>5, <2>2 DEF Packs!RecordFailed, Packs!Record
    <2>3. QED
      BY <2>1, <2>2
  <1>7. DOMAIN hist = Item /\ DOMAIN hist' = Item /\ mailed \subseteq mailed'
    BY <1>1, <1>6 DEF PacksInv, PacksTyped
  <1>8. /\ hist'[p] = [status |-> st, sched |-> t.row.id, due |-> due]
        /\ \A i \in Item : i # p => hist'[i] = hist[i]
    BY <1>6, <1>7
  <1>9. Packs!PacksAreWhatTheySay'
    <2>1. hist'[p].status # "distributed"
      BY <1>8
    <2>2. QED
      BY <1>1, <1>8, <2>1 DEF PacksInv, Packs!PacksAreWhatTheySay
  <1>10. \A i \in Item : \/ hist'[i] = hist[i]
                         \/ hist'[i] = [hist[i] EXCEPT !.status = "distributed"]
                         \/ Owns(t) /\ i = t.pack
    BY <1>4, <1>5, <1>8
  <1>11. /\ pack' \in [Item -> Packs!PackRow] /\ sched' \in [Schedule -> Packs!ScheduleRow]
         /\ clock' = clock /\ \A i \in Item : pack[i] # Packs!NoPack => pack'[i] # Packs!NoPack
    BY <1>1 DEF PacksInv, PacksTyped
  <1>12. Packs!RecordReady(r) => RecordedFor(t, hist'[p])
    BY <1>6, <1>8 DEF RecordedFor
  <1>13. \/ packReq' = [packReq EXCEPT ![r] = Packs!Idle]
         \/ packReq' = [packReq EXCEPT ![r].pc = "next"]
         \/ packReq' = [packReq EXCEPT ![r].pc = "mail"] /\ Packs!RecordReady(r)
    BY DEF Packs!RecordReady, Packs!RecordFailed, Packs!AfterPack, Packs!Goes, Packs!Ends
  <1>14. \/ packReq' = [packReq EXCEPT ![r] = Packs!Idle]
         \/ \E pc \in PackPoints :
               /\ packReq' = [packReq EXCEPT ![r].pc = pc]
               /\ pc # "next" => t.pc # "next"
               /\ pc \in {"next", "failed", "record"} => Scheduled(t)
               /\ pc \in {"read", "mark", "llm"} => t.kind # "distribute"
               /\ pc = "advance" => t.kind = "cron"
               /\ pc = "mailed" => t.pack \in mailed'
               /\ pc \in {"mail", "mailed", "advance"} /\ t.kind = "cron" => RecordedFor(t, hist'[t.pack])
    <2>1. "next" \in PackPoints /\ "mail" \in PackPoints
      BY DEF PackPoints
    <2>2. QED
      BY <1>4, <1>5, <1>12, <1>13, <2>1
  <1>15. QED
    BY <1>2, <1>3, <1>7, <1>9, <1>10, <1>11, <1>14, PacksGo

(* It is mailed and marked as distributed.                                 *)
LEMMA KeepsMailing ==
    ASSUME PacksInv, NEW r \in Req, Packs!SendMail(r) \/ Packs!MarkDistributed(r)
    PROVE  PacksInv'
  <1>1. UNCHANGED <<pack, sched, clock>> /\ packReq[r].pc \in {"mail", "mailed"}
    BY DEF Packs!SendMail, Packs!MarkDistributed
  <1>2. packReq[r] \in PackTask
    BY <1>1 DEF PacksInv, PacksTyped, Packs!Idle
  <1>3. PICK t : t = packReq[r]
    OBVIOUS
  <1>4. t \in PackTask /\ t.pc \in {"mail", "mailed"} /\ t.pack \in Item /\ OnTrack(t)
    BY <1>1, <1>2, <1>3 DEF PacksInv, OnTrack
  <1>5. PICK p \in Item : p = t.pack
    BY <1>4
  <1>6. /\ DOMAIN hist = Item /\ DOMAIN hist' = Item /\ mailed \subseteq mailed'
        /\ \A i \in Item : \/ hist'[i] = hist[i]
                           \/ /\ i = p /\ p \in mailed
                              /\ hist'[i] = [hist[i] EXCEPT !.status = "distributed"]
    <2>1. DOMAIN hist = Item
      BY DEF PacksInv, PacksTyped
    <2>2. CASE Packs!SendMail(r)
      BY <2>1, <2>2 DEF Packs!SendMail
    <2>3. CASE Packs!MarkDistributed(r)
      <3>1. mailed' = mailed /\ p \in mailed
        BY <1>3, <1>4, <1>5, <2>3 DEF Packs!MarkDistributed, OnTrack
      <3>2. hist' = [hist EXCEPT ![p].status = "distributed"]
        BY <1>3, <1>5, <2>3 DEF Packs!MarkDistributed
      <3>3. hist' = [hist EXCEPT ![p] = [hist[p] EXCEPT !.status = "distributed"]]
        BY <3>2, Zenon
      <3>4. QED
        BY <2>1, <3>1, <3>3
    <2>4. QED
      BY <2>2, <2>3
  <1>7. Packs!PacksAreWhatTheySay'
    BY <1>1, <1>6 DEF PacksInv, Packs!PacksAreWhatTheySay
  <1>8. t.kind = "cron" => RecordedFor(t, hist'[p])
    BY <1>4, <1>5, <1>6 DEF OnTrack, RecordedFor
  <1>9. \/ packReq' = [packReq EXCEPT ![r] = Packs!Idle]
        \/ packReq' = [packReq EXCEPT ![r].pc = "mailed"] /\ p \in mailed'
        \/ packReq' = [packReq EXCEPT ![r].pc = "advance"] /\ t.kind = "cron"
    BY <1>3, <1>5 DEF Packs!SendMail, Packs!MarkDistributed, Packs!Goes, Packs!Ends
  <1>10. \/ packReq' = [packReq EXCEPT ![r] = Packs!Idle]
         \/ \E pc \in PackPoints :
               /\ packReq' = [packReq EXCEPT ![r].pc = pc]
               /\ pc # "next" => t.pc # "next"
               /\ pc \in {"next", "failed", "record"} => Scheduled(t)
               /\ pc \in {"read", "mark", "llm"} => t.kind # "distribute"
               /\ pc = "advance" => t.kind = "cron"
               /\ pc = "mailed" => t.pack \in mailed'
               /\ pc \in {"mail", "mailed", "advance"} /\ t.kind = "cron" => RecordedFor(t, hist'[t.pack])
    <2>1. "mailed" \in PackPoints /\ "advance" \in PackPoints
      BY DEF PackPoints
    <2>2. QED
      BY <1>4, <1>5, <1>8, <1>9, <2>1
  <1>11. /\ pack' \in [Item -> Packs!PackRow] /\ sched' \in [Schedule -> Packs!ScheduleRow]
         /\ clock' = clock /\ \A i \in Item : pack[i] # Packs!NoPack => pack'[i] # Packs!NoPack
    BY <1>1 DEF PacksInv, PacksTyped
  <1>12. \A i \in Item : \/ hist'[i] = hist[i]
                         \/ hist'[i] = [hist[i] EXCEPT !.status = "distributed"]
                         \/ Owns(t) /\ i = t.pack
    BY <1>6
  <1>13. QED
    BY <1>2, <1>3, <1>6, <1>7, <1>10, <1>11, <1>12, PacksGo

(* next_run_at is advanced.                                                *)
LEMMA KeepsAdvance ==
    ASSUME PacksInv, NEW r \in Req, Packs!AdvanceNextRun(r)
    PROVE  PacksInv'
  <1>1. UNCHANGED <<pack, hist, mailed, clock>> /\ packReq[r].pc = "advance"
        /\ packReq' = [packReq EXCEPT ![r].pc = "next"]
    BY DEF Packs!AdvanceNextRun, Packs!Goes
  <1>2. packReq[r] \in PackTask
    BY <1>1 DEF PacksInv, PacksTyped, Packs!Idle
  <1>3. PICK t : t = packReq[r]
    OBVIOUS
  <1>4. t \in PackTask /\ t.kind = "cron" /\ t.pc = "advance" /\ t.row \in Packs!ReadRow
    BY <1>1, <1>2, <1>3 DEF PacksInv, OnTrack, Owns, Scheduled
  <1>5. sched' \in [Schedule -> Packs!ScheduleRow]
    <2>1. PICK s \in Schedule : s = t.row.id
      BY <1>4 DEF Packs!ReadRow
    <2>2. t.row.cron \in CronExpr /\ t.now \in Nat
      BY <1>4, RecordConstants DEF Packs!ReadRow, PackTask
    <2>3. PICK n \in Nat \cup {None} : n = Packs!compute_next_run(t.row.cron, t.now)
      BY <2>2, NextRun
    <2>4. sched \in [Schedule -> Packs!ScheduleRow]
      BY DEF PacksInv, PacksTyped
    <2>5. CASE sched' = sched
      BY <2>4, <2>5
    <2>6. CASE Packs!HasSchedule(s) /\ sched' = [sched EXCEPT ![s].next = n]
      <3>1. sched[s] \in [state : {"enabled", "disabled"}, cron : CronExpr, next : Nat \cup {None}]
        BY <2>4, <2>6 DEF Packs!HasSchedule, Packs!ScheduleRow
      <3> DEFINE new == [sched[s] EXCEPT !.next = n]
      <3>2. new \in Packs!ScheduleRow
        BY <3>1 DEF Packs!ScheduleRow
      <3>3. sched' = [sched EXCEPT ![s] = new]
        BY <2>6, Zenon
      <3> HIDE DEF new
      <3>4. QED
        BY <2>4, <3>2, <3>3
    <2>7. QED
      BY <1>3, <2>1, <2>3, <2>5, <2>6 DEF Packs!AdvanceNextRun
  <1>6. /\ pack' \in [Item -> Packs!PackRow] /\ DOMAIN hist' = Item /\ mailed \subseteq mailed'
        /\ clock' = clock /\ \A i \in Item : pack[i] # Packs!NoPack => pack'[i] # Packs!NoPack
        /\ Packs!PacksAreWhatTheySay'
    BY <1>1 DEF PacksInv, PacksTyped, Packs!PacksAreWhatTheySay
  <1>7. \A i \in Item : \/ hist'[i] = hist[i]
                        \/ hist'[i] = [hist[i] EXCEPT !.status = "distributed"]
                        \/ Owns(t) /\ i = t.pack
    BY <1>1
  <1>8. \/ packReq' = [packReq EXCEPT ![r] = Packs!Idle]
        \/ \E pc \in PackPoints :
              /\ packReq' = [packReq EXCEPT ![r].pc = pc]
              /\ pc # "next" => t.pc # "next"
              /\ pc \in {"next", "failed", "record"} => Scheduled(t)
              /\ pc \in {"read", "mark", "llm"} => t.kind # "distribute"
              /\ pc = "advance" => t.kind = "cron"
              /\ pc = "mailed" => t.pack \in mailed'
              /\ pc \in {"mail", "mailed", "advance"} /\ t.kind = "cron" => RecordedFor(t, hist'[t.pack])
    <2>1. "next" \in PackPoints /\ Scheduled(t)
      BY <1>4 DEF PackPoints, Scheduled
    <2>2. QED
      BY <1>1, <2>1
  <1>9. QED
    BY <1>2, <1>3, <1>5, <1>6, <1>7, <1>8, PacksGo

LEMMA PacksKeep == PacksInv /\ [Packs!Next]_packVars => PacksInv'
  <1> SUFFICES ASSUME PacksInv, [Packs!Next]_packVars PROVE PacksInv'
    OBVIOUS
  <1>1. CASE UNCHANGED packVars
    BY <1>1, KeepsSchedules
  <1>2. CASE Packs!Next
    BY <1>2, KeepsPackEdits, KeepsSchedules, KeepsRequests, KeepsNextSchedule, KeepsGeneration, KeepsFailure,
       KeepsRecord, KeepsMailing, KeepsAdvance
       DEF Packs!Next
  <1>3. QED
    BY <1>1, <1>2

(* An occurrence before the one that follows t is not after t.             *)
LEMMA Occurrences ==
    ASSUME NEW c \in Nat \ {0}, NEW n \in Nat, NEW t \in Nat, n * c < (t \div c + 1) * c
    PROVE  n * c <= t
  <1>1. PICK m : m = t \div c
    OBVIOUS
  <1>2. m \in Nat /\ c * m <= t
    BY <1>1
  <1>3. n * c < (m + 1) * c
    BY <1>1
  <1>4. ASSUME n >= m + 1 PROVE FALSE
    <2>1. PICK d \in Nat : n = (m + 1) + d
      <3>1. n - (m + 1) \in Nat /\ n = (m + 1) + (n - (m + 1))
        BY <1>2, <1>4
      <3>2. QED
        BY <3>1
    <2>2. n * c = (m + 1) * c + d * c /\ d * c \in Nat /\ (m + 1) * c \in Nat
      BY <1>2, <2>1
    <2>3. QED
      BY <1>3, <2>2
  <1>5. n <= m
    BY <1>2, <1>4
  <1>6. PICK d \in Nat : m = n + d
    <2>1. m - n \in Nat /\ m = n + (m - n)
      BY <1>2, <1>5
    <2>2. QED
      BY <2>1
  <1>7. c * m = n * c + d * c /\ d * c \in Nat /\ n * c \in Nat
    BY <1>6
  <1>8. QED
    BY <1>2, <1>7

(* A cron call that has come to its advance has the pack recorded.         *)
LEMMA AdvanceRecorded ==
    ASSUME PacksInv, NEW r \in Req, Packs!AdvanceNextRun(r), NEW s, s = packReq[r].row.id,
           Packs!IsDue(s), packReq[r].row.cron = sched[s].cron,
           Packs!Occurs(sched[s].next, sched[s].cron), Packs!Later(sched'[s].next, sched[s].next)
    PROVE  \E p \in Item : /\ hist[p] # Packs!NoHistory /\ hist[p].sched = s
                           /\ hist[p].status # "failed" /\ hist[p].due >= sched[s].next
  <1>1. packReq[r].pc = "advance"
    BY DEF Packs!AdvanceNextRun
  <1>2. packReq[r] \in PackTask /\ OnTrack(packReq[r])
    BY <1>1 DEF PacksInv, PacksTyped, Packs!Idle
  <1>3. PICK t \in PackTask : t = packReq[r]
    BY <1>2
  <1>4. t.row \in Packs!ReadRow /\ t.pack \in Item /\ RecordedFor(t, hist[t.pack])
    BY <1>1, <1>2, <1>3 DEF OnTrack, Owns, Scheduled
  <1>5. PICK c : c = t.row.cron
    OBVIOUS
  <1>6. s \in Schedule /\ t.now \in Nat /\ c \in Nat \ {0} /\ c = sched[s].cron
    <2>1. s \in Schedule /\ t.now \in Nat /\ c \in CronExpr /\ c = sched[s].cron
      BY <1>3, <1>4, <1>5, RecordConstants DEF Packs!ReadRow, PackTask
    <2>2. c # None
      BY <2>1 DEF Packs!Occurs
    <2>3. QED
      BY <2>1, <2>2, RecordConstants
  <1>7. /\ sched \in [Schedule -> Packs!ScheduleRow] /\ Packs!HasSchedule(s)
        /\ sched[s] \in [state : {"enabled", "disabled"}, cron : CronExpr, next : Nat \cup {None}]
        /\ sched[s].next \in Nat
    <2>1. sched \in [Schedule -> Packs!ScheduleRow] /\ Packs!HasSchedule(s) /\ sched[s].next # None
      BY DEF PacksInv, PacksTyped, Packs!IsDue
    <2>2. sched[s] \in [state : {"enabled", "disabled"}, cron : CronExpr, next : Nat \cup {None}]
      BY <1>6, <2>1 DEF Packs!HasSchedule, Packs!ScheduleRow
    <2>3. QED
      BY <2>1, <2>2
  <1>8. PICK n \in Nat : sched[s].next = n * c
    <2>1. PICK n \in 0..sched[s].next : sched[s].next = n * c
      BY <1>6 DEF Packs!Occurs
    <2>2. n \in Nat
      BY <1>7
    <2>3. QED
      BY <2>1, <2>2
  <1>9. sched'[s].next = (t.now \div c + 1) * c
    <2>1. PICK u : u = (t.now \div c + 1) * c
      OBVIOUS
    <2>2. Packs!compute_next_run(c, t.now) = u
      BY <1>6, <2>1, RecordConstants DEF Packs!compute_next_run
    <2>3. sched' = [sched EXCEPT ![s].next = u]
      BY <1>3, <1>5, <1>7, <2>2 DEF Packs!AdvanceNextRun
    <2>4. sched'[s] = [sched[s] EXCEPT !.next = u]
      BY <1>6, <1>7, <2>3
    <2>5. sched'[s].next = u
      BY <1>7, <2>4
    <2>6. QED
      BY <2>1, <2>5
  <1>10. (t.now \div c + 1) * c \in Nat
    <2>1. PICK k, m : k = t.now /\ m = k \div c
      OBVIOUS
    <2>2. k \in Nat /\ m \in Nat
      BY <1>6, <2>1
    <2>3. (m + 1) * c \in Nat
      BY <1>6, <2>2
    <2>4. QED
      BY <2>1, <2>3
  <1>11. n * c < (t.now \div c + 1) * c
    <2>1. PICK u \in Nat : u = (t.now \div c + 1) * c
      BY <1>10
    <2>2. PICK v \in Nat : v = n * c
      BY <1>6
    <2>3. u > v
      BY <1>8, <1>9, <2>1, <2>2, RecordConstants DEF Packs!Later
    <2>4. QED
      BY <2>1, <2>2, <2>3
  <1>12. sched[s].next <= t.now
    BY <1>6, <1>8, <1>11, Occurrences
  <1>13. PICK h : h = hist[t.pack]
    OBVIOUS
  <1>14. h.sched = s /\ h.due = t.now /\ h.status \in {"ready", "distributed"} /\ h # Packs!NoHistory
    BY <1>3, <1>4, <1>13 DEF RecordedFor, Packs!NoHistory
  <1>15. h.status # "failed" /\ h.due >= sched[s].next
    BY <1>6, <1>7, <1>12, <1>14
  <1>16. QED
    BY <1>4, <1>13, <1>14, <1>15

(* A request comes from its advance to the next schedule by no other step  *)
(* that writes a schedule.                                                 *)
LEMMA OnlyAdvanceMoves ==
    ASSUME PacksInv, Packs!Next, NEW r \in Req, packReq[r].pc = "advance", packReq'[r].pc = "next"
    PROVE  sched' = sched \/ Packs!AdvanceNextRun(r)
  <1>1. CASE packReq' = packReq
    BY <1>1
  <1>2. ASSUME NEW o \in Req, Packs!AdvanceNextRun(o) PROVE o = r
    <2>1. packReq' = [packReq EXCEPT ![o].pc = "next"] /\ DOMAIN packReq = Req
      BY <1>2 DEF Packs!AdvanceNextRun, Packs!Goes, PacksInv, PacksTyped
    <2>2. o # r => packReq'[r] = packReq[r]
      BY <2>1
    <2>3. QED
      BY <2>2
  <1>3. QED
    BY <1>1, <1>2
       DEF Packs!Next, Packs!Tick, Packs!create_board_pack, Packs!patch_board_pack, Packs!delete_board_pack,
           Packs!create_schedule, Packs!patch_schedule, Packs!delete_schedule, Packs!generate_board_pack,
           Packs!distribute_pack, Packs!run_schedule_now, Packs!cron_execute_schedules, Packs!NextSchedule,
           Packs!ReadPack, Packs!MarkGenerating, Packs!WriteReady, Packs!WriteError, Packs!ModelRaises,
           Packs!RecordFailed, Packs!RecordReady, Packs!SendMail, Packs!MarkDistributed, Packs!Fail

NoneSkipped(r) ==
    LET s == packReq[r].row.id IN
    (/\ packReq[r].pc = "advance" /\ packReq'[r].pc = "next"
     /\ Packs!IsDue(s) /\ packReq[r].row.cron = sched[s].cron
     /\ Packs!Occurs(sched[s].next, sched[s].cron)
     /\ Packs!Later(sched'[s].next, sched[s].next)) =>
        \E p \in Item : /\ hist[p] # Packs!NoHistory /\ hist[p].sched = s
                        /\ hist[p].status # "failed"
                        /\ hist[p].due >= sched[s].next

LEMMA NoOccurrenceStep == PacksInv /\ [Packs!Next]_packVars => [\A r \in Req : NoneSkipped(r)]_(Packs!vars)
  <1> SUFFICES ASSUME PacksInv, Packs!Next, NEW r \in Req PROVE NoneSkipped(r)
    BY DEF packVars, Packs!vars
  <1>1. PICK s : s = packReq[r].row.id
    OBVIOUS
  <1>2. SUFFICES ASSUME packReq[r].pc = "advance", packReq'[r].pc = "next",
                        Packs!IsDue(s), packReq[r].row.cron = sched[s].cron,
                        Packs!Occurs(sched[s].next, sched[s].cron),
                        Packs!Later(sched'[s].next, sched[s].next)
                 PROVE  \E p \in Item : /\ hist[p] # Packs!NoHistory /\ hist[p].sched = s
                                        /\ hist[p].status # "failed"
                                        /\ hist[p].due >= sched[s].next
    BY <1>1 DEF NoneSkipped
  <1>3. CASE Packs!AdvanceNextRun(r)
    BY <1>1, <1>2, <1>3, AdvanceRecorded
  <1>4. CASE sched' = sched
    <2>1. packReq[r] \in PackTask /\ OnTrack(packReq[r])
      BY <1>2 DEF PacksInv, PacksTyped, Packs!Idle
    <2>2. s \in Schedule
      BY <1>1, <1>2, <2>1 DEF OnTrack, Owns, Scheduled, Packs!ReadRow
    <2>3. sched[s].next \in Nat
      <3>1. sched[s] \in Packs!ScheduleRow /\ Packs!HasSchedule(s) /\ sched[s].next # None
        BY <1>2, <2>2 DEF PacksInv, PacksTyped, Packs!IsDue
      <3>2. QED
        BY <3>1 DEF Packs!HasSchedule, Packs!ScheduleRow
    <2>4. FALSE
      BY <1>2, <1>4, <2>3, RecordConstants DEF Packs!Later
    <2>5. QED
      BY <2>4
  <1>5. QED
    BY <1>2, <1>3, <1>4, OnlyAdvanceMoves

(* However calls overlap and wherever they fail, a ready pack has a        *)
(* generated narrative and a distributed one was mailed                    *)
(* (routers/board_packs.py, routers/board_pack_schedules.py).              *)
THEOREM PacksAlwaysHold == AllSpec => []Packs!PacksAreWhatTheySay
  <1>1. AllInit => PacksInv
    BY PacksStart DEF AllInit
  <1>2. [AllNext]_allVars => [Packs!Next]_packVars
    BY DEF AllNext, allVars
  <1>3. PacksInv => Packs!PacksAreWhatTheySay
    BY DEF PacksInv
  <1>4. QED
    BY <1>1, <1>2, <1>3, PacksKeep, PTL DEF AllSpec

(* The two together, as the run states them.                               *)
THEOREM StatusesAlwaysTrue == AllSpec => []StatusesAreTrue
  <1>1. Packs!PacksAreWhatTheySay /\ Group!SucceededHasResult => StatusesAreTrue
    BY DEF StatusesAreTrue
  <1>2. QED
    BY <1>1, PacksAlwaysHold, ConsolidatedRunsHold, PTL

(* A cron call moves next_run_at past an occurrence that has come only     *)
(* when a pack of the schedule was generated for it, unless the expression *)
(* is changed meanwhile, whatever the periods, the clock and the number of *)
(* calls (cron_execute_schedules, routers/board_pack_schedules.py).        *)
THEOREM NoOccurrenceIsSkipped == AllSpec => NoOccurrenceSkipped
  <1>1. AllInit => PacksInv
    BY PacksStart DEF AllInit
  <1>2. [AllNext]_allVars => [Packs!Next]_packVars
    BY DEF AllNext, allVars
  <1>3. PacksInv /\ [Packs!Next]_packVars => [\A r \in Req : NoneSkipped(r)]_(Packs!vars)
    BY NoOccurrenceStep
  <1>4. QED
    BY <1>1, <1>2, <1>3, PacksKeep, PTL DEF AllSpec, NoOccurrenceSkipped, Packs!NoOccurrenceSkipped, NoneSkipped
====
