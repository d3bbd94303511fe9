--------------------------- MODULE Subscriptions ---------------------------
(***************************************************************************)
(* A tenant's subscription: the calls that start, change and cancel it,    *)
(* and the webhooks of the payment provider (services/billing/service.py,  *)
(* db/billing.py, routers/billing.py).                                     *)
(*                                                                         *)
(* A call's reads and writes are statements on their own, so calls that    *)
(* overlap see each other's in between.  The rows are kept in the order of *)
(* their creation.  Usage and limits are not modelled: nothing of the API  *)
(* records usage.                                                          *)
(***************************************************************************)
EXTENDS Integers, Sequences, FiniteSets

CONSTANTS
    Request,        \* calls and webhooks in flight at once
    Plan,           \* the plans a call may name
    KnownPlan,      \* those in the table of plans
    DEFAULT_PLAN_ID,
    MaxSubs,        \* bound on the rows
    MaxCalls,       \* bound on the calls
    None

VARIABLES
    subs,           \* the tenant's rows of billing_subscriptions, oldest first
    req,            \* the calls in progress
    revived,        \* the rows a webhook has put back to active or trialing
    calls

vars == <<subs, req, revived, calls>>

Status == {"active", "trialing", "past_due", "cancelled"}
Live == {"active", "trialing"}

(* What the provider says of a subscription; the map knows the first four. *)
StripeStatus == {"active", "trialing", "past_due", "canceled", "unpaid"}

status_map(s) ==
    CASE s = "canceled" -> "cancelled" [] s = "unpaid" -> "active" [] OTHER -> s

LiveRows == {i \in DOMAIN subs : subs[i].status \in Live}

(* The newest of the live rows.                                            *)
get_subscription ==
    IF LiveRows = {} THEN None ELSE CHOOSE i \in LiveRows : \A j \in LiveRows : j <= i

Idle == [at |-> "idle"]
At(r, step) == req[r].at = step
Goto(r, call) == req' = [req EXCEPT ![r] = call]
Answered(r) == Goto(r, Idle)
-----------------------------------------------------------------------------
(* Faulty versions, which the properties tell from the ones below. *)

Creates_Always(sub) == TRUE
-----------------------------------------------------------------------------
(* A new row; the table has no constraint that keeps a tenant to one.      *)
Insert(plan) == subs' = Append(subs, [plan |-> plan, status |-> "active"])

(* A call goes on to create one when it has read that there is none.       *)
Creates(sub) == sub = None

Starts(r) == At(r, "idle") /\ calls < MaxCalls /\ calls' = calls + 1

(* GET subscription, and usage, see to a default first.                    *)
ensure_default_subscription(r) ==
    /\ Starts(r)
    /\ IF Creates(get_subscription) THEN Goto(r, [at |-> "create", plan |-> DEFAULT_PLAN_ID]) ELSE Answered(r)
    /\ UNCHANGED <<subs, revived>>

(* POST: a change of plan if there is a subscription, else a new one.      *)
create_or_update_subscription(r, plan) ==
    /\ Starts(r)
    /\ Goto(r, [at |-> IF Creates(get_subscription) THEN "create" ELSE "change", plan |-> plan])
    /\ UNCHANGED <<subs, revived>>

(* A plan that is not in the table is refused.                             *)
create_subscription(r) ==
    /\ At(r, "create") /\ Len(subs) < MaxSubs
    /\ IF req[r].plan \in KnownPlan THEN Insert(req[r].plan) ELSE UNCHANGED subs
    /\ Answered(r)
    /\ UNCHANGED <<revived, calls>>

(* The change reads the subscription again; if it is gone the answer is    *)
(* empty.                                                                  *)
ReadForChange(r) ==
    /\ At(r, "change")
    /\ IF get_subscription = None \/ req[r].plan \notin KnownPlan THEN Answered(r)
       ELSE Goto(r, [at |-> "update", plan |-> req[r].plan, sub |-> get_subscription])
    /\ UNCHANGED <<subs, revived, calls>>

update_subscription(r) ==
    /\ At(r, "update")
    /\ subs' = [subs EXCEPT ![req[r].sub].plan = req[r].plan]
    /\ Answered(r)
    /\ UNCHANGED <<revived, calls>>

ReadForCancel(r) ==
    /\ Starts(r) /\ get_subscription # None
    /\ Goto(r, [at |-> "cancel", sub |-> get_subscription])
    /\ UNCHANGED <<subs, revived>>

cancel_subscription(r) ==
    /\ At(r, "cancel")
    /\ subs' = [subs EXCEPT ![req[r].sub].status = "cancelled"]
    /\ revived' = revived \ {req[r].sub}
    /\ Answered(r)
    /\ UNCHANGED calls

(* A webhook about a row, found by the provider's identifier, then written *)
(* whatever the row has become.  Webhooks come late, twice and in any      *)
(* order.  The rows are taken to carry an identifier, as set_stripe_ids    *)
(* would give them; a deletion counts as the status canceled.              *)
stripe_webhook(r, i, status) ==
    /\ Starts(r)
    /\ Goto(r, [at |-> "webhook", sub |-> i, status |-> status_map(status)])
    /\ UNCHANGED <<subs, revived>>

update_subscription_status(r) ==
    LET row == req[r].sub
    IN  /\ At(r, "webhook")
        /\ subs' = [subs EXCEPT ![row].status = req[r].status]
        /\ revived' = IF req[r].status \notin Live THEN revived \ {row}
                      ELSE IF subs[row].status \notin Live THEN revived \cup {row} ELSE revived
        /\ Answered(r)
        /\ UNCHANGED calls

Step(r) ==
    \/ create_subscription(r) \/ ReadForChange(r) \/ update_subscription(r)
    \/ cancel_subscription(r) \/ update_subscription_status(r)

Init ==
    /\ subs = <<>> /\ req = [r \in Request |-> Idle]
    /\ revived = {} /\ calls = 0

Next == \E r \in Request :
    \/ ensure_default_subscription(r)
    \/ \E plan \in Plan : create_or_update_subscription(r, plan)
    \/ ReadForCancel(r)
    \/ \E i \in DOMAIN subs, status \in StripeStatus : stripe_webhook(r, i, status)
    \/ Step(r)

Spec == Init /\ [][Next]_vars
-----------------------------------------------------------------------------
TypeOK ==
    /\ subs \in Seq([plan : KnownPlan, status : Status]) /\ Len(subs) <= MaxSubs
    /\ \A r \in Request : req[r].at \in {"idle", "create", "change", "update", "cancel", "webhook"}
    /\ revived \subseteq DOMAIN subs

(* A tenant pays twice only for calls that overlapped: of the rows no      *)
(* webhook has revived, no more are live than there are calls at once.     *)
(* The only guard is the read each call makes on another connection.       *)
LiveOnlyByOverlap == Cardinality(LiveRows \ revived) <= Cardinality(Request)

(* What the router promises, "create subscription if none, or update to    *)
(* new plan": there is never a second.  Two calls that overlap make two,   *)
(* and so does a payment that is late for a moment.                        *)
AtMostOneLive == Cardinality(LiveRows) <= 1

=============================================================================
