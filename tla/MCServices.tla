----------------------------- MODULE MCServices -----------------------------
(***************************************************************************)
(* An instance for TLC of three services that share no table: the routing  *)
(* of model calls, the refresh of sentiment and the reminders of           *)
(* deadlines.  Each behaviour is one of a service, which part names; the   *)
(* others rest.                                                            *)
(***************************************************************************)
EXTENDS LLMRouting, TLC

CONSTANTS
    anthropic, openai, other,
    Task, Job, Kinds, Ahead, Quiet, QuietOverdue, MaxTime, MaxEdits,    \* of Reminders
    MaxFaults, None

ASSUME ReminderConstants ==
    /\ IsFiniteSet(Job) /\ Kinds \in Seq(STRING) /\ Kinds # <<>>
    /\ Quiet \in Nat /\ QuietOverdue \in Nat

VARIABLES
    part,
    clock, feed, signals, agg, refresh, lost,
    now, task, notes, job, failed, edits

routeVars  == vars
newsVars   == <<clock, feed, signals, agg, refresh, lost>>
remindVars == <<now, task, notes, job, failed, edits>>
allVars    == <<part, routeVars, newsVars, remindVars>>

(* An override of the policy that names a provider without a key.          *)
Override == <<anthropic, other, openai>>

(* A reminder one tick ahead of the deadline, and the overdue one.         *)
EarlyAndOverdue == <<"early", "overdue">>
OneTick == <<1>>

News == INSTANCE Sentiment
    WITH Article <- {1, 2}, Undated <- {2}, Worker <- {1, 2}, PeriodLength <- {2}, Window <- 1, MaxTime <- 2,
         task <- refresh, faults <- lost
Deadlines == INSTANCE Reminders
    WITH faults <- failed

AllInit ==
    /\ part \in {"routing", "sentiment", "reminders"}
    /\ Init /\ News!Init /\ Deadlines!Init

OnlyRouting   == part = "routing" /\ UNCHANGED <<part, newsVars, remindVars>>
OnlyNews      == part = "sentiment" /\ UNCHANGED <<part, routeVars, remindVars>>
OnlyReminders == part = "reminders" /\ UNCHANGED <<part, routeVars, newsVars>>

AllNext ==
    \/ OnlyRouting /\ Next
    \/ OnlyNews /\ News!Next
    \/ OnlyReminders /\ Deadlines!Next

(* The fairness of each service, as its module states it.                  *)
AllFairness ==
    /\ \A c \in Call : SF_allVars(OnlyRouting /\ Step(c))
    /\ \A w \in {1, 2} : WF_allVars(OnlyNews /\ News!Refresh(w))
    /\ \A j \in Job : WF_allVars(OnlyReminders /\ Deadlines!Step(j))

AllSpec == AllInit /\ [][AllNext]_allVars /\ AllFairness

(* The services' properties, stated and explained in their modules: of the *)
(* breakers and the calls they let through (with CallsEnd),                *)
BreakersHold == part = "routing" => StateMatchesCount /\ OvershootBounded

(* of a refresh of sentiment,                                              *)
AggregatesCatchUp == News!AggregatesCatchUp

(* and of the reminders of deadlines.                                      *)
ToldAgainOnlyByOverlap == part = "reminders" => Deadlines!ToldAgainOnlyByOverlap
OverdueIsTold == Deadlines!OverdueIsTold
=============================================================================
