------------------------------ MODULE Sentiment ------------------------------
(***************************************************************************)
(* The sentiment refresh: services/pim/sentiment_ingestor.py, run by the   *)
(* Celery task refresh_sentiment (worker/tasks.py) every six hours and on  *)
(* demand.  A refresh fetches the news of a company, has every article     *)
(* scored, stores a signal for each, and recomputes the weekly and monthly *)
(* aggregates from the signals of the last year.  The worker acknowledges  *)
(* late: a refresh that is lost is delivered again, and two may overlap.   *)
(*                                                                         *)
(* One company stands for all, since no statement reads two of them.  Time *)
(* is counted in days, an aggregate by the set of signals it was computed  *)
(* from.  The statement that sets the tenant on the connection is taken to *)
(* succeed (see the README).                                               *)
(***************************************************************************)
EXTENDS Naturals, Integers, FiniteSets

CONSTANTS
    Article,      \* what the news service may publish
    Undated,      \* articles whose published_utc cannot be parsed
    Worker,       \* the processes that may run the task at the same time
    PeriodLength, \* days in a week and in a month
    Window,       \* days the aggregates look back, 365 in the code
    MaxTime,      \* bound of the clock
    MaxFaults,    \* bound of the crashes and failures
    None

VARIABLES
    clock,   \* today
    feed,    \* the articles the news service has, with their day
    signals, \* pim_sentiment_signals: an article and its published_at
    agg,     \* pim_sentiment_aggregates: the signals a period was computed from
    task,    \* what each worker is doing
    faults

vars == <<clock, feed, signals, agg, task, faults>>

Signal == [article : Article, at : 0..MaxTime]
Period == {p \in [length : PeriodLength, start : 0..MaxTime] : p.start % p.length = 0}

Idle == [pc |-> "idle", todo |-> {}, stored |-> 0, rows |-> {}, due |-> {}]

TypeOK ==
    /\ clock \in 0..MaxTime
    /\ feed \in [Article -> 0..MaxTime \cup {None}]
    /\ signals \subseteq Signal
    /\ agg \in [Period -> SUBSET Signal]
    /\ faults \in 0..MaxFaults
    /\ \A w \in Worker :
          /\ task[w].pc \in {"idle", "ingesting", "aggregating", "writing"}
          /\ task[w].todo \subseteq Article
          /\ task[w].stored \in 0..Cardinality(Article)
          /\ task[w].rows \subseteq Signal
          /\ task[w].due \subseteq Period

Init ==
    /\ clock = 0
    /\ feed = [a \in Article |-> None]
    /\ signals = {}
    /\ agg = [p \in Period |-> {}]
    /\ task = [w \in Worker |-> Idle]
    /\ faults = 0

In(s, p) == s.at \in p.start..(p.start + p.length - 1)
InPeriod(rows, p) == {s \in rows : In(s, p)}

-----------------------------------------------------------------------------
(* The world: days pass and the news service publishes. *)

Tick == clock < MaxTime /\ clock' = clock + 1 /\ UNCHANGED <<feed, signals, agg, task, faults>>

Publish(a) ==
    /\ feed[a] = None
    /\ feed' = [feed EXCEPT ![a] = clock]
    /\ UNCHANGED <<clock, signals, agg, task, faults>>

-----------------------------------------------------------------------------
(* Faulty versions, which the properties tell from the ones below. *)

Counted_New(w, s) == task[w].stored + IF s \in signals THEN 0 ELSE 1

-----------------------------------------------------------------------------
(* A refresh *)

Set(w, t) == task' = [task EXCEPT ![w] = t]

(* An article without a day counts as published when it is read. *)
PublishedAt(a) == IF a \in Undated THEN clock ELSE feed[a]

(* An article that was stored before counts too: ON CONFLICT DO NOTHING. *)
Counted(w, s) == task[w].stored + 1

(* The task starts, by the schedule, a delivery again, or a call. *)
refresh_all(w) ==
    LET found == {a \in Article : feed[a] # None}
    IN  /\ task[w].pc = "idle"
        /\ found # {}
        /\ Set(w, [Idle EXCEPT !.pc = "ingesting", !.todo = found])
        /\ UNCHANGED <<clock, feed, signals, agg, faults>>

StoreSignal(w) ==
    /\ task[w].pc = "ingesting"
    /\ \E a \in task[w].todo :
          LET s == [article |-> a, at |-> PublishedAt(a)]
          IN  /\ signals' = signals \cup {s}
              /\ Set(w, [task[w] EXCEPT !.todo = @ \ {a}, !.stored = Counted(w, s)])
    /\ UNCHANGED <<clock, feed, agg, faults>>

(* The model's answer is refused or never comes: the article is skipped. *)
SkipArticle(w) ==
    /\ task[w].pc = "ingesting" /\ faults < MaxFaults
    /\ faults' = faults + 1
    /\ \E a \in task[w].todo : Set(w, [task[w] EXCEPT !.todo = @ \ {a}])
    /\ UNCHANGED <<clock, feed, signals, agg>>

Ingested(w) ==
    /\ task[w].pc = "ingesting" /\ task[w].todo = {}
    /\ IF task[w].stored > 0 THEN Set(w, [task[w] EXCEPT !.pc = "aggregating"]) ELSE Set(w, Idle)
    /\ UNCHANGED <<clock, feed, signals, agg, faults>>

(* The rows of the window are read once, with no transaction around. *)
ReadSignals(w) ==
    LET rows == {s \in signals : s.at >= clock - Window}
    IN  /\ task[w].pc = "aggregating"
        /\ Set(w, IF rows = {} THEN Idle
                  ELSE [task[w] EXCEPT !.pc = "writing", !.rows = rows,
                                       !.due = {p \in Period : InPeriod(rows, p) # {}}])
        /\ UNCHANGED <<clock, feed, signals, agg, faults>>

(* Each period is a statement of its own that replaces what was there. *)
UpsertPeriod(w) ==
    /\ task[w].pc = "writing"
    /\ \E p \in task[w].due :
          /\ agg' = [agg EXCEPT ![p] = InPeriod(task[w].rows, p)]
          /\ Set(w, IF task[w].due = {p} THEN Idle ELSE [task[w] EXCEPT !.due = @ \ {p}])
    /\ UNCHANGED <<clock, feed, signals, faults>>

(* The worker dies, or a statement fails and the company is given up. *)
GiveUp(w) ==
    /\ task[w].pc # "idle" /\ faults < MaxFaults
    /\ faults' = faults + 1
    /\ Set(w, Idle)
    /\ UNCHANGED <<clock, feed, signals, agg>>

Refresh(w) ==
    refresh_all(w) \/ StoreSignal(w) \/ Ingested(w) \/ ReadSignals(w) \/ UpsertPeriod(w)

Next ==
    \/ Tick
    \/ \E a \in Article : Publish(a)
    \/ \E w \in Worker : refresh_all(w)
    \/ \E w \in Worker : StoreSignal(w)
    \/ \E w \in Worker : SkipArticle(w)
    \/ \E w \in Worker : Ingested(w)
    \/ \E w \in Worker : ReadSignals(w)
    \/ \E w \in Worker : UpsertPeriod(w)
    \/ \E w \in Worker : GiveUp(w)

(* The beat keeps starting refreshes, and a worker that runs makes progress. *)
Spec == Init /\ [][Next]_vars /\ \A w \in Worker : WF_vars(Refresh(w))

-----------------------------------------------------------------------------
(* Once the faults are over and nothing new is published, the refreshes    *)
(* that keep coming bring every period that lies wholly in the window to   *)
(* exactly the signals stored for it, whatever was lost between a signal's *)
(* insert and the aggregates, and whatever two overlapping refreshes wrote *)
(* over each other (ingest_for_company, aggregate).                        *)
Agrees == \A p \in Period : p.start >= clock - Window => agg[p] = InPeriod(signals, p)
AggregatesCatchUp == <>[]Agrees

=============================================================================
