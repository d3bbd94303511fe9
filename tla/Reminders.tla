----------------------------- MODULE Reminders -----------------------------
(***************************************************************************)
(* The reminders of deadlines: the cron job that looks for assignments     *)
(* that are due soon or overdue and notifies their assignees, unless it    *)
(* has done so not long ago (routers/assignments.py, db/notifications.py). *)
(*                                                                         *)
(* The job opens no transaction.  It fixes the time it goes by when it     *)
(* starts, then selects and notifies for one kind of reminder after the    *)
(* other; jobs may overlap, and one that fails leaves what it has written. *)
(* Time is counted in ticks.                                               *)
(***************************************************************************)
EXTENDS Integers, Sequences, FiniteSets

CONSTANTS
    Task,           \* assignments
    Job,            \* cron calls that may overlap
    Kinds,          \* the kinds of reminders in their order, "overdue" the last
    Ahead,          \* for the others, ticks before the deadline (24 h and 4 h)
    Quiet,          \* ticks within which these are not repeated (48 h)
    QuietOverdue,   \* ticks within which the overdue one is not (7 days)
    MaxTime,        \* bound of the clock
    MaxFaults,      \* bound of the jobs that fail
    MaxEdits,       \* bound of the users' calls
    None

VARIABLES
    now,
    task,           \* task_assignments: deadline, assigned or not, open or not
    notes,          \* notifications: by task and kind, when each was made
    job,
    faults,
    edits

vars == <<now, task, notes, job, faults, edits>>

Kind == {Kinds[i] : i \in DOMAIN Kinds}
Idle == [at |-> 0, as_of |-> 0, todo |-> {}]
-----------------------------------------------------------------------------
(* Faulty versions, which the properties tell from the ones below. *)

Untold_OfAnyKind(t, kind) ==
    \A k \in Kind : \A i \in DOMAIN notes[t][k] : notes[t][k][i] <= now - QuietOverdue
Untold_Never(t, kind) == TRUE
-----------------------------------------------------------------------------
(* Nothing of the kind was sent within its quiet time.                     *)
QuietTime(kind) == IF kind = "overdue" THEN QuietOverdue ELSE Quiet
Untold(t, kind) == \A i \in DOMAIN notes[t][kind] : notes[t][kind][i] <= now - QuietTime(kind)

(* The window of the i-th kind is one hour to each side.                   *)
IsDue(deadline, i, as_of) ==
    IF Kinds[i] = "overdue" THEN deadline < as_of
    ELSE as_of + Ahead[i] - 1 < deadline /\ deadline <= as_of + Ahead[i] + 1

Waits(t) == task[t].deadline # None /\ task[t].assigned /\ task[t].open

Selected(i, as_of) ==
    {t \in Task : Waits(t) /\ IsDue(task[t].deadline, i, as_of) /\ Untold(t, Kinds[i])}
-----------------------------------------------------------------------------
Edits == edits < MaxEdits /\ edits' = edits + 1 /\ UNCHANGED <<now, notes, job, faults>>

create_assignment(t) ==
    /\ Edits /\ task[t].deadline = None /\ ~task[t].open
    /\ \E d \in 1..MaxTime, a \in BOOLEAN :
          task' = [task EXCEPT ![t] = [deadline |-> d, assigned |-> a, open |-> TRUE]]

claim_assignment(t) ==
    /\ Edits /\ task[t].open /\ ~task[t].assigned
    /\ task' = [task EXCEPT ![t].assigned = TRUE]

(* PATCH moves the deadline or sets a status, approved or any other.       *)
update_assignment(t) ==
    /\ Edits /\ task[t].deadline # None
    /\ \/ \E d \in 1..MaxTime : task' = [task EXCEPT ![t].deadline = d]
       \/ task' = [task EXCEPT ![t].open = ~@]

(* The job begins with the first kind, by the time it is now ...           *)
cron_deadline_reminders(j) ==
    /\ job[j].at = 0
    /\ job' = [job EXCEPT ![j] = [at |-> 1, as_of |-> now, todo |-> Selected(1, now)]]
    /\ UNCHANGED <<now, task, notes, faults, edits>>

(* ... notifies for what it has selected, whatever has changed since ...   *)
create_notification(j, t) ==
    /\ t \in job[j].todo
    /\ notes' = [notes EXCEPT ![t][Kinds[job[j].at]] = Append(@, now)]
    /\ job' = [job EXCEPT ![j].todo = @ \ {t}]
    /\ UNCHANGED <<now, task, faults, edits>>

(* ... and goes on to the next kind.                                       *)
NextKind(j) ==
    /\ job[j].at > 0 /\ job[j].todo = {}
    /\ job' = [job EXCEPT ![j] = IF @.at = Len(Kinds) THEN Idle
                                 ELSE [at |-> @.at + 1, as_of |-> @.as_of,
                                       todo |-> Selected(@.at + 1, @.as_of)]]
    /\ UNCHANGED <<now, task, notes, faults, edits>>

(* A statement fails; the tenant's rest is left to the next job.           *)
Fail(j) ==
    /\ job[j].at > 0 /\ faults < MaxFaults
    /\ job' = [job EXCEPT ![j] = Idle]
    /\ faults' = faults + 1
    /\ UNCHANGED <<now, task, notes, edits>>

Tick == now < MaxTime /\ now' = now + 1 /\ UNCHANGED <<task, notes, job, faults, edits>>

Step(j) == cron_deadline_reminders(j) \/ NextKind(j) \/ \E t \in Task : create_notification(j, t)

Init ==
    /\ now = 0
    /\ task = [t \in Task |-> [deadline |-> None, assigned |-> FALSE, open |-> FALSE]]
    /\ notes = [t \in Task |-> [k \in Kind |-> <<>>]]
    /\ job = [j \in Job |-> Idle]
    /\ faults = 0 /\ edits = 0

Next ==
    \/ Tick
    \/ \E t \in Task : create_assignment(t) \/ claim_assignment(t) \/ update_assignment(t)
    \/ \E j \in Job : Step(j) \/ Fail(j)

(* The job is called again and again, and runs to its end or fails.        *)
Fairness == \A j \in Job : WF_vars(Step(j))
Spec == Init /\ [][Next]_vars /\ Fairness
-----------------------------------------------------------------------------
TypeOK ==
    /\ now \in 0..MaxTime
    /\ \A t \in Task : task[t].deadline \in 1..MaxTime \cup {None}
    /\ \A t \in Task, k \in Kind : \A i \in DOMAIN notes[t][k] : notes[t][k][i] \in 0..now
    /\ \A j \in Job : job[j].at \in 0..Len(Kinds) /\ job[j].todo \subseteq Task /\ job[j].as_of <= now

(* An assignee is told again of the same thing within the quiet time only  *)
(* by jobs that overlapped, each of which found nothing sent: never more   *)
(* often than there are jobs at once.                                      *)
ToldAgainOnlyByOverlap ==
    \A t \in Task, k \in Kind, x \in 0..now :
        Cardinality({i \in DOMAIN notes[t][k] : notes[t][k][i] \in (x - QuietTime(k) + 1)..x}) <= Cardinality(Job)

(* Whoever holds an open assignment past its deadline is told so, whatever *)
(* the job has sent of it before and however often it fails.               *)
Overdue(t) == Waits(t) /\ task[t].deadline < now
Told(t) == \E i \in DOMAIN notes[t]["overdue"] : notes[t]["overdue"][i] > now - QuietOverdue
OverdueIsTold == \A t \in Task : Overdue(t) ~> (Told(t) \/ ~Overdue(t))

=============================================================================
