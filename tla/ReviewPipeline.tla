--------------------------- MODULE ReviewPipeline ---------------------------
(***************************************************************************)
(* One task assignment, its reviews and their change summaries             *)
(* (routers/assignments.py).                                               *)
(*                                                                         *)
(* None of these handlers opens a transaction: each statement commits by   *)
(* itself, and a request that fails leaves what it has written.  claim is  *)
(* one conditional UPDATE; submit_assignment and submit_review read the    *)
(* row, decide, and write without condition.  The learning points of a     *)
(* review come from the language model after the response is sent.         *)
(*                                                                         *)
(* Notifications, deadlines and texts are left out.                        *)
(***************************************************************************)
EXTENDS Naturals

CONSTANTS
    User,
    Req,            \* requests that may be in flight together
    Review,         \* review ids uuid4 may produce (bounds the run)
    PatchStatus,    \* statuses that clients PATCH an assignment to
    None

Status == {"none", "draft", "assigned", "in_progress", "submitted", "approved",
           "returned", "completed"}

ASSUME ReviewConstants == None \notin User /\ PatchStatus \subseteq Status \ {"none"}

Decision == {"approved", "request_changes", "rejected"}

VARIABLES
    task,           \* the task_assignments row
    review,         \* rows of reviews
    feedback,       \* change_summaries: none, summary, or learning points too
    req

vars == <<task, review, feedback, req>>
-----------------------------------------------------------------------------
NoReview == [by |-> None, decision |-> "none"]
ReviewRow == {NoReview} \cup [by : User, decision : Decision]

(* What a request does next, and what it goes by.                          *)
Request ==
    [pc : {"idle"}]
    \cup [pc : {"submit"}]
    \cup [pc : {"insert"}, row : ReviewRow, summary : BOOLEAN]
    \cup [pc : {"status", "summary", "learn"}, id : Review, decision : Decision,
          summary : BOOLEAN]
Idle == [pc |-> "idle"]

Init ==
    /\ task = [status |-> "none", assignee |-> None]
    /\ review = [v \in Review |-> NoReview]
    /\ feedback = [v \in Review |-> "none"]
    /\ req = [r \in Req |-> Idle]

Goes(r, q) == req' = [req EXCEPT ![r] = q]
Ends(r) == Goes(r, Idle)
-----------------------------------------------------------------------------
(* Faulty versions, which the properties tell from the ones below.         *)

(* A claim whose UPDATE does not repeat what was checked.                  *)
claim_assignment_Unguarded(u) ==
    /\ task.status = "draft" \/ task.status = "assigned"
    /\ task' = [task EXCEPT !.assignee = u, !.status = "assigned"]
    /\ UNCHANGED <<review, feedback, req>>

(* A review by anyone.                                                     *)
ReviewReads_Anyone(r, u) ==
    \E d \in Decision, s \in BOOLEAN :
        /\ req[r] = Idle /\ task.status = "submitted"
        /\ Goes(r, [pc |-> "insert", row |-> [by |-> u, decision |-> d], summary |-> s])
        /\ UNCHANGED <<task, review, feedback>>

(* An INSERT whose error is ignored.                                       *)
InsertReview_Swallows(r) ==
    /\ req[r].pc = "insert"
    /\ \E v \in Review :
        /\ review[v] = NoReview
        /\ review' \in {review, [review EXCEPT ![v] = req[r].row]}
        /\ Goes(r, [pc |-> "status", id |-> v, decision |-> req[r].row.decision,
                    summary |-> req[r].summary])
    /\ UNCHANGED <<task, feedback>>

(* The decision itself as the new status.                                  *)
new_status_Decision(decision) == decision
-----------------------------------------------------------------------------
(* The status a decision takes the assignment to.                          *)
new_status(decision) == IF decision = "approved" THEN "completed" ELSE "returned"

(* create_assignment: assigned to a user, or in the pool.                  *)
create_assignment ==
    /\ task.status = "none"
    /\ \E u \in User \cup {None} :
        task' = [status |-> IF u = None THEN "draft" ELSE "assigned", assignee |-> u]
    /\ UNCHANGED <<review, feedback, req>>

(* One UPDATE ... WHERE assignee_user_id IS NULL AND status = 'draft'.     *)
claim_assignment(u) ==
    /\ task.assignee = None /\ task.status = "draft"
    /\ task' = [task EXCEPT !.assignee = u, !.status = "assigned"]
    /\ UNCHANGED <<review, feedback, req>>

(* update_assignment sets any status, from any status.                     *)
update_assignment ==
    /\ task.status # "none"
    /\ \E s \in PatchStatus : task' = [task EXCEPT !.status = s]
    /\ UNCHANGED <<review, feedback, req>>

(* submit_assignment: 403 unless u is the assignee, 400 unless the         *)
(* assignment is assigned or in progress ...                               *)
SubmitReads(r, u) ==
    /\ req[r] = Idle
    /\ task.assignee = u /\ task.status \in {"assigned", "in_progress"}
    /\ Goes(r, [pc |-> "submit"])
    /\ UNCHANGED <<task, review, feedback>>

(* ... and submitted, whatever it is by now.                               *)
SubmitWrites(r) ==
    /\ req[r].pc = "submit"
    /\ task' = [task EXCEPT !.status = "submitted"]
    /\ Ends(r)
    /\ UNCHANGED <<review, feedback>>

(* submit_review: 403 for the assignee, 400 unless submitted.  Notes or    *)
(* corrections make a summary.                                             *)
ReviewReads(r, u) ==
    \E d \in Decision, s \in BOOLEAN :
        /\ req[r] = Idle
        /\ task.assignee # u /\ task.status = "submitted"
        /\ Goes(r, [pc |-> "insert", row |-> [by |-> u, decision |-> d], summary |-> s])
        /\ UNCHANGED <<task, review, feedback>>

InsertReview(r) ==
    \E v \in Review :
        /\ req[r].pc = "insert" /\ review[v] = NoReview
        /\ review' = [review EXCEPT ![v] = req[r].row]
        /\ Goes(r, [pc |-> "status", id |-> v, decision |-> req[r].row.decision,
                    summary |-> req[r].summary])
        /\ UNCHANGED <<task, feedback>>

WriteStatus(r) ==
    /\ req[r].pc = "status"
    /\ task' = [task EXCEPT !.status = new_status(req[r].decision)]
    /\ IF req[r].summary THEN Goes(r, [req[r] EXCEPT !.pc = "summary"]) ELSE Ends(r)
    /\ UNCHANGED <<review, feedback>>

InsertSummary(r) ==
    /\ req[r].pc = "summary"
    /\ feedback' = [feedback EXCEPT ![req[r].id] = "summary"]
    /\ Goes(r, [req[r] EXCEPT !.pc = "learn"])
    /\ UNCHANGED <<task, review>>

(* _generate_learning_points, in the background.                           *)
LearningPoints(r) ==
    /\ req[r].pc = "learn"
    /\ feedback' = [feedback EXCEPT ![req[r].id] = "points"]
    /\ Ends(r)
    /\ UNCHANGED <<task, review>>

(* Between two statements the server stops or the connection fails; a      *)
(* failure of the model is logged.                                         *)
Fail(r) ==
    /\ req[r] # Idle
    /\ Ends(r)
    /\ UNCHANGED <<task, review, feedback>>
-----------------------------------------------------------------------------
Next ==
    \/ create_assignment \/ update_assignment
    \/ \E u \in User : claim_assignment(u)
    \/ \E r \in Req, u \in User : SubmitReads(r, u) \/ ReviewReads(r, u)
    \/ \E r \in Req :
        \/ SubmitWrites(r) \/ InsertReview(r) \/ WriteStatus(r)
        \/ InsertSummary(r) \/ LearningPoints(r) \/ Fail(r)

Spec == Init /\ [][Next]_vars
-----------------------------------------------------------------------------
TypeOK ==
    /\ task \in [status : Status, assignee : User \cup {None}]
    /\ review \in [Review -> ReviewRow]
    /\ feedback \in [Review -> {"none", "summary", "points"}]
    /\ req \in [Req -> Request]

(* Of several users who claim a pool assignment at once one gets it, and   *)
(* nobody takes it from her.                                               *)
AssigneeFixed == [][task.assignee # None => task'.assignee = task.assignee]_vars

(* An assignment is completed or returned only with a review that says so, *)
(* although the two are separate statements, either of which may fail.     *)
DecidedByReview ==
    task.status \in {"completed", "returned"} =>
        \E v \in Review : review[v] # NoReview
                          /\ new_status(review[v].decision) = task.status

(* Nobody reviews their own assignment, although the reviewer is compared  *)
(* with an assignee who was read before.                                   *)
ReviewedByAnother ==
    \A v \in Review : review[v] # NoReview => review[v].by # task.assignee
=============================================================================
