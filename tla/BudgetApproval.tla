--------------------------- MODULE BudgetApproval ---------------------------
(***************************************************************************)
(* One budget of a tenant: its versions and line items (routers/budgets)   *)
(* and its approval by workflow instances (routers/workflows.py).          *)
(*                                                                         *)
(* submit_budget and update_instance read a row, decide, and write without *)
(* having locked what they read.  reforecast_budget reads the current      *)
(* version, makes the new one current, which locks the budget's row, and   *)
(* then awaits the language model with its transaction open; line items    *)
(* are written meanwhile, to the version that is current for the others.   *)
(*                                                                         *)
(* A request is at its first SELECT or at the statements that follow; the  *)
(* writes of a transaction that nothing can observe half done are one      *)
(* action, at its COMMIT.  A line item stands for its account_ref, unique  *)
(* in a version; periods, amounts and allocations are left out.            *)
(***************************************************************************)
EXTENDS Naturals, FiniteSets, FiniteSetsExt

CONSTANTS
    Req,            \* requests that may be in flight together
    Instance,       \* workflow instance ids uuid4 may produce (bounds the run)
    Version,        \* version ids uuid4 may produce (bounds the run)
    First,          \* the version create_budget makes
    Account,        \* account_ref of line items
    PatchStatus,    \* statuses that clients PATCH the budget to
    None

BudgetStatus == {"draft", "submitted", "under_review", "approved", "active", "closed"}
InstanceStatus == {"none", "pending", "in_progress", "submitted", "approved",
                   "returned", "completed"}

ASSUME BudgetConstants ==
    /\ First \in Version
    /\ None \notin Instance \cup Req
    /\ PatchStatus \subseteq BudgetStatus

VARIABLES
    budget,         \* status, workflow_instance_id, current_version_id
    instance,       \* workflow_instances.status, "none" without a row
    approvals,      \* instances that have been approved (history)
    number,         \* version_number, 0 without a row
    lines,          \* account_refs of a version's line items
    lock,           \* the reforecast that holds the budget's row lock
    req

vars == <<budget, instance, approvals, number, lines, lock, req>>
approval == <<instance, approvals>>
versions == <<number, lines>>
-----------------------------------------------------------------------------
Budget == [status : BudgetStatus, wf : Instance \cup {None}, current : Version]

(* What a request has read, and is about to do with it.                    *)
Request ==
    [pc : {"idle"}]
    \cup [pc : {"submit"}]
    \cup [pc : {"update"}, of : Instance, to : InstanceStatus]
    \cup [pc : {"add", "remove"}, to : Version, account : Account]
    \cup [pc : {"version", "model"}, copy : SUBSET Account, n : Nat]
Idle == [pc |-> "idle"]

(* create_budget: the row and its first, empty version.                    *)
Init ==
    /\ budget = [status |-> "draft", wf |-> None, current |-> First]
    /\ instance = [i \in Instance |-> "none"]
    /\ approvals = {}
    /\ number = [v \in Version |-> IF v = First THEN 1 ELSE 0]
    /\ lines = [v \in Version |-> {}]
    /\ lock = None
    /\ req = [r \in Req |-> Idle]

Reads(r, q) ==
    /\ req[r] = Idle
    /\ req' = [req EXCEPT ![r] = q]
    /\ UNCHANGED <<budget, approval, versions, lock>>

Ends(r) == req' = [req EXCEPT ![r] = Idle]
-----------------------------------------------------------------------------
(* Faulty versions, which the properties tell from the ones below.         *)

(* submit_budget that takes the budget to submitted in a transaction of    *)
(* its own and then creates the instance, which may fail.                  *)
SubmitWrites_TwoSteps(r) ==
    \E i \in Instance :
        /\ req[r].pc = "submit" /\ lock = None /\ instance[i] = "none"
        /\ budget' = [budget EXCEPT !.status = "submitted", !.wf = i]
        /\ Ends(r)
        /\ UNCHANGED <<approval, versions, lock>>

(* A table in which a submitted instance may be completed.                 *)
allowed_transitions_Short ==
    [s \in InstanceStatus |->
        CASE s = "pending"     -> {"in_progress", "submitted"}
          [] s = "in_progress" -> {"submitted", "returned"}
          [] s = "submitted"   -> {"approved", "returned", "completed"}
          [] s = "approved"    -> {"completed"}
          [] s = "returned"    -> {"in_progress", "submitted"}
          [] OTHER             -> {}]

(* Version numbers handed out by a counter, which a rollback does not undo.*)
ReforecastReads_Counter(r) ==
    Reads(r, [pc |-> "version", copy |-> lines[budget.current],
              n |-> 1 + Max({number[v] : v \in Version}
                            \cup {req[q].n : q \in {x \in Req : req[x].pc \in {"version", "model"}}})])

(* A status that budgets' check constraint does not know.                  *)
update_budget_Rejects ==
    /\ lock = None
    /\ budget' = [budget EXCEPT !.status = "rejected"]
    /\ UNCHANGED <<approval, versions, lock, req>>
-----------------------------------------------------------------------------
(* submit_budget: 400 unless the budget is a draft without an instance ... *)
SubmitReads(r) ==
    /\ budget.status = "draft" /\ budget.wf = None
    /\ Reads(r, [pc |-> "submit"])

(* ... then one transaction: a new pending instance, and the budget's      *)
(* status and instance whatever they are by now.                           *)
SubmitWrites(r) ==
    \E i \in Instance :
        /\ req[r].pc = "submit" /\ lock = None /\ instance[i] = "none"
        /\ instance' = [instance EXCEPT ![i] = "pending"]
        /\ budget' = [budget EXCEPT !.status = "submitted", !.wf = i]
        /\ Ends(r)
        /\ UNCHANGED <<approvals, versions, lock>>

(* update_budget: any of BUDGET_STATUSES, from any status.                 *)
update_budget ==
    /\ lock = None
    /\ \E s \in PatchStatus : budget' = [budget EXCEPT !.status = s]
    /\ UNCHANGED <<approval, versions, lock, req>>

(* update_instance's table.                                                *)
allowed_transitions ==
    [s \in InstanceStatus |->
        CASE s = "pending"     -> {"in_progress", "submitted"}
          [] s = "in_progress" -> {"submitted", "returned"}
          [] s = "submitted"   -> {"approved", "returned"}
          [] s = "approved"    -> {"completed"}
          [] s = "returned"    -> {"in_progress", "submitted"}
          [] OTHER             -> {}]

(* update_instance: reads the status, 400 unless the table allows it ...   *)
InstanceReads(r) ==
    \E i \in Instance : \E s \in allowed_transitions[instance[i]] :
        Reads(r, [pc |-> "update", of |-> i, to |-> s])

(* ... then sets it, and a completed instance activates the budget that is *)
(* linked to it.                                                           *)
InstanceWrites(r) ==
    /\ req[r].pc = "update"
    /\ LET i == req[r].of
           activates == req[r].to = "completed" /\ budget.wf = i
       IN  /\ instance' = [instance EXCEPT ![i] = req[r].to]
           /\ approvals' = IF req[r].to = "approved" THEN approvals \cup {i}
                                                     ELSE approvals
           /\ activates => lock = None
           /\ budget' = IF activates THEN [budget EXCEPT !.status = "active"]
                                     ELSE budget
    /\ Ends(r)
    /\ UNCHANGED <<versions, lock>>

(* add_line_item and remove_line_item resolve the current version ...      *)
LineReads(r) ==
    \E pc \in {"add", "remove"}, a \in Account :
        Reads(r, [pc |-> pc, to |-> budget.current, account |-> a])

(* ... and write to that version.  A duplicate account_ref is refused; a   *)
(* line item that is not there answers 404.                                *)
LineWrites(r) ==
    /\ req[r].pc \in {"add", "remove"}
    /\ lines' = [lines EXCEPT ![req[r].to] =
                    IF req[r].pc = "add" THEN @ \cup {req[r].account}
                                         ELSE @ \ {req[r].account}]
    /\ Ends(r)
    /\ UNCHANGED <<budget, approval, number, lock>>

(* reforecast_budget reads the current version, its line items and the     *)
(* highest version number ...                                              *)
ReforecastReads(r) ==
    Reads(r, [pc |-> "version", copy |-> lines[budget.current],
              n |-> 1 + Max({number[v] : v \in Version})])

(* ... ensure_budget_version locks the row; the model is asked ...         *)
ensure_budget_version(r) ==
    /\ req[r].pc = "version" /\ lock = None
    /\ lock' = r
    /\ req' = [req EXCEPT ![r].pc = "model"]
    /\ UNCHANGED <<budget, approval, versions>>

(* ... and the new version gets the line items that were read.             *)
ReforecastWrites(r) ==
    \E v \in Version :
        /\ req[r].pc = "model" /\ number[v] = 0
        /\ number' = [number EXCEPT ![v] = req[r].n]
        /\ lines' = [lines EXCEPT ![v] = req[r].copy]
        /\ budget' = [budget EXCEPT !.current = v]
        /\ lock' = None
        /\ Ends(r)
        /\ UNCHANGED approval

(* 429, 503, a timeout, or any failure: rolled back.                       *)
ReforecastFails(r) ==
    /\ req[r].pc = "model"
    /\ lock' = None
    /\ Ends(r)
    /\ UNCHANGED <<budget, approval, versions>>

Fail(r) ==
    /\ req[r].pc \in {"submit", "update", "add", "remove", "version"}
    /\ Ends(r)
    /\ UNCHANGED <<budget, approval, versions, lock>>
-----------------------------------------------------------------------------
Arrive(r) == SubmitReads(r) \/ InstanceReads(r) \/ LineReads(r) \/ ReforecastReads(r)

Step(r) ==
    \/ SubmitWrites(r) \/ InstanceWrites(r) \/ LineWrites(r)
    \/ ensure_budget_version(r) \/ ReforecastWrites(r) \/ ReforecastFails(r)
    \/ Fail(r)

Next == update_budget \/ \E r \in Req : Arrive(r) \/ Step(r)

Spec == Init /\ [][Next]_vars
-----------------------------------------------------------------------------
TypeOK ==
    /\ budget \in Budget
    /\ instance \in [Instance -> InstanceStatus]
    /\ approvals \subseteq Instance
    /\ number \in [Version -> Nat]
    /\ lines \in [Version -> SUBSET Account]
    /\ lock \in Req \cup {None}
    /\ req \in [Req -> Request]

(* No budget becomes active unapproved, although requests may act on a     *)
(* status of the instance that is not its status any more.                 *)
ActiveWasApproved ==
    budget.status = "active" => budget.wf \in approvals

(* A submitted budget always has an instance that can still finish it,     *)
(* although the instance and the budget are written by different handlers. *)
SubmittedHasInstance ==
    budget.status = "submitted" =>
        budget.wf # None /\ instance[budget.wf] \notin {"none", "completed"}

(* The revision history has no gap, although reforecasts number their      *)
(* versions from a read that others may have outdated.                     *)
NumbersContiguous ==
    \A v \in Version : \A n \in 1 .. number[v] : \E u \in Version : number[u] = n
=============================================================================
