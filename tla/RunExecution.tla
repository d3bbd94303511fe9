---------------------------- MODULE RunExecution ----------------------------
(***************************************************************************)
(* Model runs: create_run (routers/runs.py) and the Celery task            *)
(* run_mc_execute (worker/tasks.py) with its broker.                       *)
(*                                                                         *)
(* A deterministic run is executed inside the request.  A Monte Carlo run  *)
(* is queued: the request commits the row, publishes a task and records    *)
(* its id, three steps a crash can separate.  A worker acknowledges late   *)
(* (acks_late, reject_on_worker_lost), so that the broker delivers a task  *)
(* again when its worker is lost, or when the visibility timeout passes    *)
(* while the worker is still at it.  A failed attempt marks the run failed *)
(* and publishes the next attempt before its own message is acknowledged.  *)
(***************************************************************************)
EXTENDS Naturals, Sequences

CONSTANTS
    Run,            \* run ids
    Worker,         \* worker processes
    MaxRetries,     \* retries of a task (3 in the code)
    MaxFaults,      \* lost workers, repeated deliveries, other tasks' dead
                    \* letters (bounds the run)
    DLQ_MAX_ENTRIES, \* what the dead letter list is trimmed to (10 000)
    BindInSet,      \* TRUE: the server takes SET app.tenant_id = $1
    Faulty,         \* TRUE: engine, store, broker and database may fail
    LoseUploads,    \* TRUE: an upload to the artifact store may fail
    None            \* a worker without a task; another task's dead letter

ASSUME RunConstants ==
    /\ MaxRetries \in Nat /\ MaxFaults \in Nat
    /\ DLQ_MAX_ENTRIES \in Nat \ {0}
    /\ BindInSet \in BOOLEAN /\ Faulty \in BOOLEAN /\ LoseUploads \in BOOLEAN
    /\ None \notin Run

VARIABLES
    status,         \* runs.status
    mc,             \* the runs with mc_enabled
    api,            \* where create_run is
    stored,         \* objects of the run in the artifact store
    artifacts,      \* rows of run_artifacts, by type
    queue,          \* messages ready at the broker, by run and retry count
    worker,         \* what each worker executes
    dlq,            \* the dead letter list in Redis, the newest first
    lost,           \* history: runs with a failure that nothing took down
    faults

vars == <<status, mc, api, stored, artifacts, queue, worker, dlq, lost, faults>>
-----------------------------------------------------------------------------
Status == {"none", "queued", "running", "succeeded", "failed"}
Object == {"statements", "mc"}
ApiPc == {"idle", "publish", "task_id", "engine", "store", "done", "error"}
WorkerPc == {"idle", "statements", "start", "simulate", "finish", "fail",
             "retry", "unrecorded", "ack"}
Attempt == 0 .. MaxRetries
DeadLetters == Seq(Run \cup {None})
Idle == [run |-> None, try |-> 0, pc |-> "idle"]

Init ==
    /\ status = [r \in Run |-> "none"]
    /\ mc = {}
    /\ api = [r \in Run |-> "idle"]
    /\ stored = [r \in Run |-> {}] /\ artifacts = [r \in Run |-> {}]
    /\ queue = [r \in Run |-> [n \in Attempt |-> 0]]
    /\ worker = [w \in Worker |-> Idle]
    /\ dlq = <<>> /\ lost = {} /\ faults = 0

letters == <<dlq, lost>>
broker == <<queue, worker, letters, faults>>
results == <<stored, artifacts>>

ApiGoes(r, from, to) == api[r] = from /\ api' = [api EXCEPT ![r] = to]
SetStatus(r, s) == status' = [status EXCEPT ![r] = s]
Store(r, x) == stored' = [stored EXCEPT ![r] = @ \cup {x}]

(* ArtifactStore.save in a task.  When the upload fails it keeps the object*)
(* in the memory of a store that is the task's own, and returns its path.  *)
Save(r, x) == Store(r, x) \/ (LoseUploads /\ UNCHANGED stored)

Insert(r, x) == artifacts' = [artifacts EXCEPT ![r] = @ \cup {x}]

Enqueued(q, r, n) == [q EXCEPT ![r][n] = @ + 1]

(* Worker w is at a place of its task and goes on to another.              *)
At(w, pc) == worker[w].pc = pc
Goes(w, pc) == worker' = [worker EXCEPT ![w].pc = pc]
-----------------------------------------------------------------------------
(* Faulty versions, which the properties tell from the ones below.         *)

(* A lost worker's message that is not put back (task_acks_late off).      *)
WorkerLost_Drops(w) ==
    /\ worker[w] # Idle /\ faults < MaxFaults
    /\ worker' = [worker EXCEPT ![w] = Idle]
    /\ faults' = faults + 1
    /\ UNCHANGED <<status, mc, api, results, queue, letters>>

(* A retry that keeps the retry count of the attempt.                      *)
Retry_SameCount(w) ==
    LET t == worker[w]
    IN  /\ At(w, "retry") \/ At(w, "unrecorded")
        /\ Goes(w, "ack")
        /\ queue' = Enqueued(queue, t.run, t.try)
        /\ UNCHANGED <<status, mc, api, results, letters, faults>>

(* The two statements of the last transaction without a transaction, the   *)
(* status first; here a failure in between them.                           *)
MarkSucceeded_StatusFirst(w) ==
    LET r == worker[w].run
    IN  /\ At(w, "finish")
        /\ SetStatus(r, "succeeded")
        /\ \/ Insert(r, "mc") /\ Goes(w, "ack")
           \/ UNCHANGED artifacts /\ Goes(w, "fail")
        /\ UNCHANGED <<mc, api, stored, queue, letters, faults>>

(* A status outside the table's check constraint.                          *)
MarkFailed_Retrying(w) ==
    /\ At(w, "fail") /\ Goes(w, "retry")
    /\ SetStatus(worker[w].run, "retrying")
    /\ UNCHANGED <<mc, api, results, queue, letters, faults>>
-----------------------------------------------------------------------------
(* create_run, first transaction: the baseline is active, the row is new.  *)
create_run(r, mc_enabled) ==
    /\ ApiGoes(r, "idle", IF mc_enabled THEN "publish" ELSE "engine")
    /\ SetStatus(r, IF mc_enabled THEN "queued" ELSE "running")
    /\ mc' = IF mc_enabled THEN mc \cup {r} ELSE mc
    /\ UNCHANGED <<results, broker>>

(* apply_async; the broker may refuse it (ApiFails).                       *)
Publish(r) ==
    /\ ApiGoes(r, "publish", "task_id")
    /\ queue' = Enqueued(queue, r, 0)
    /\ UNCHANGED <<status, mc, results, worker, letters, faults>>

SaveTaskId(r) ==
    /\ ApiGoes(r, "task_id", "done")
    /\ UNCHANGED <<status, mc, results, broker>>

(* The engine, in the request; an EngineError or an imbalance marks the    *)
(* run failed and answers 422.                                             *)
RunEngine(r) ==
    /\ \/ ApiGoes(r, "engine", "store") /\ UNCHANGED status
       \/ ApiGoes(r, "engine", "error") /\ SetStatus(r, "failed")
    /\ UNCHANGED <<mc, results, broker>>

(* One transaction for the status, the artifact rows, the notifications.   *)
StoreResults(r) ==
    /\ ApiGoes(r, "store", "done")
    /\ Store(r, "statements") /\ Insert(r, "statements")
    /\ SetStatus(r, "succeeded")
    /\ UNCHANGED <<mc, broker>>

(* The config in the store is not there (404), or does not validate.       *)
NoConfig(r) ==
    /\ ApiGoes(r, "engine", "error")
    /\ UNCHANGED <<status, mc, results, broker>>

(* The transaction rolls back; what was saved in the store stays.          *)
StoreResultsFails(r) ==
    /\ Faulty /\ ApiGoes(r, "store", "error")
    /\ Store(r, "statements")
    /\ UNCHANGED <<status, mc, artifacts, broker>>

(* The broker refuses the task, another exception, the end of the process. *)
ApiFails(r) ==
    /\ Faulty
    /\ \E pc \in {"publish", "task_id", "engine", "store"} : ApiGoes(r, pc, "error")
    /\ UNCHANGED <<status, mc, results, broker>>
-----------------------------------------------------------------------------
(* A worker is given a message; it stays unacknowledged until Ack.         *)
Take(w, r, n) ==
    /\ At(w, "idle") /\ queue[r][n] > 0
    /\ queue' = [queue EXCEPT ![r][n] = @ - 1]
    /\ worker' = [worker EXCEPT ![w] = [run |-> r, try |-> n, pc |-> "statements"]]
    /\ UNCHANGED <<status, mc, api, results, letters, faults>>

(* Load the config, run the engine, save the statements.                   *)
SaveStatements(w) ==
    /\ At(w, "statements") /\ Goes(w, "start")
    /\ Save(worker[w].run, "statements")
    /\ UNCHANGED <<status, mc, api, artifacts, queue, letters, faults>>

(* Connect, SET app.tenant_id, and the first transaction.                  *)
MarkRunning(w) ==
    /\ BindInSet
    /\ At(w, "start") /\ Goes(w, "simulate")
    /\ SetStatus(worker[w].run, "running")
    /\ Insert(worker[w].run, "statements")
    /\ UNCHANGED <<mc, api, stored, queue, letters, faults>>

SaveMonteCarlo(w) ==
    /\ At(w, "simulate") /\ Goes(w, "finish")
    /\ Save(worker[w].run, "mc")
    /\ UNCHANGED <<status, mc, api, artifacts, queue, letters, faults>>

(* The last transaction; closing the connection after it may still raise.  *)
MarkSucceeded(w) ==
    LET r == worker[w].run
    IN  /\ At(w, "finish")
        /\ Goes(w, "ack") \/ (Faulty /\ Goes(w, "fail"))
        /\ SetStatus(r, "succeeded") /\ Insert(r, "mc")
        /\ UNCHANGED <<mc, api, stored, queue, letters, faults>>

(* No artifact, an engine error, too many simulations, the store, the      *)
(* database; and a SET that the server does not take.                      *)
AttemptFails(w) ==
    /\ \/ Faulty /\ worker[w].pc \in {"statements", "start", "simulate", "finish"}
       \/ ~BindInSet /\ At(w, "start")
    /\ Goes(w, "fail")
    /\ UNCHANGED <<status, mc, api, results, queue, letters, faults>>

(* _run_mc_fail_async, whose own failure is logged.                        *)
MarkFailed(w) ==
    /\ At(w, "fail")
    /\ \/ BindInSet /\ SetStatus(worker[w].run, "failed") /\ Goes(w, "retry")
       \/ (Faulty \/ ~BindInSet) /\ UNCHANGED status /\ Goes(w, "unrecorded")
    /\ UNCHANGED <<mc, api, results, queue, letters, faults>>

(* push_to_dlq: LPUSH, then LTRIM, whose failure leaves the list longer.   *)
Trimmed(s) == IF Len(s) > DLQ_MAX_ENTRIES THEN SubSeq(s, 1, DLQ_MAX_ENTRIES) ELSE s
push_to_dlq(entry) ==
    \/ dlq' = Trimmed(<<entry>> \o dlq)
    \/ Faulty /\ dlq' = <<entry>> \o dlq

(* autoretry_for publishes the next attempt; without one left, on_failure  *)
(* files the task in the DLQ.  Redis may refuse either: a retry that is    *)
(* not published is rejected without a requeue, a dead letter that is not  *)
(* written is logged, and the message is acknowledged all the same.        *)
Retry(w) ==
    LET t == worker[w]
    IN  /\ At(w, "retry") \/ At(w, "unrecorded")
        /\ Goes(w, "ack")
        /\ \/ /\ t.try < MaxRetries
              /\ queue' = Enqueued(queue, t.run, t.try + 1)
              /\ UNCHANGED letters
           \/ /\ t.try = MaxRetries
              /\ push_to_dlq(t.run)
              /\ UNCHANGED <<queue, lost>>
           \/ /\ Faulty
              /\ lost' = IF At(w, "unrecorded") THEN lost \cup {t.run} ELSE lost
              /\ UNCHANGED <<queue, dlq>>
        /\ UNCHANGED <<status, mc, api, results, faults>>

(* Another task of the base class DLQTask uses up its retries.             *)
OtherTaskFails ==
    /\ faults < MaxFaults
    /\ push_to_dlq(None)
    /\ faults' = faults + 1
    /\ UNCHANGED <<status, mc, api, results, queue, worker, lost>>

Ack(w) ==
    /\ At(w, "ack")
    /\ worker' = [worker EXCEPT ![w] = Idle]
    /\ UNCHANGED <<status, mc, api, results, queue, letters, faults>>

(* The worker process dies: its message is ready again, with its count.    *)
WorkerLost(w) ==
    /\ worker[w] # Idle /\ faults < MaxFaults
    /\ queue' = Enqueued(queue, worker[w].run, worker[w].try)
    /\ worker' = [worker EXCEPT ![w] = Idle]
    /\ faults' = faults + 1
    /\ UNCHANGED <<status, mc, api, results, letters>>

(* The visibility timeout of the broker passes: the message is ready again *)
(* although the worker goes on.                                            *)
Redeliver(w) ==
    /\ worker[w] # Idle /\ faults < MaxFaults
    /\ queue' = Enqueued(queue, worker[w].run, worker[w].try)
    /\ faults' = faults + 1
    /\ UNCHANGED <<status, mc, api, results, worker, letters>>
-----------------------------------------------------------------------------
ApiStep(r) ==
    Publish(r) \/ SaveTaskId(r) \/ RunEngine(r) \/ NoConfig(r)
        \/ StoreResults(r) \/ StoreResultsFails(r) \/ ApiFails(r)

WorkerStep(w) ==
    SaveStatements(w) \/ MarkRunning(w) \/ SaveMonteCarlo(w) \/ MarkSucceeded(w)
        \/ AttemptFails(w) \/ MarkFailed(w) \/ Retry(w) \/ Ack(w)

TakeSome(r, n) == \E w \in Worker : Take(w, r, n)

Next ==
    \/ \E r \in Run : \/ \E mc_enabled \in BOOLEAN : create_run(r, mc_enabled)
                      \/ ApiStep(r)
                      \/ \E n \in Attempt : TakeSome(r, n)
    \/ \E w \in Worker : WorkerStep(w) \/ WorkerLost(w) \/ Redeliver(w)
    \/ OtherTaskFails

Spec == Init /\ [][Next]_vars

(* Workers run on, and a message that is ready again and again while a     *)
(* worker is free is delivered.  Nothing makes clients or requests go on.  *)
FairSpec ==
    /\ Spec
    /\ \A w \in Worker : WF_vars(WorkerStep(w))
    /\ \A r \in Run, n \in Attempt : SF_vars(TakeSome(r, n))
-----------------------------------------------------------------------------
TypeOK ==
    /\ status \in [Run -> Status]
    /\ mc \subseteq Run
    /\ api \in [Run -> ApiPc]
    /\ stored \in [Run -> SUBSET Object] /\ artifacts \in [Run -> SUBSET Object]
    /\ queue \in [Run -> [Attempt -> Nat]]
    /\ worker \in [Worker -> [run : Run \cup {None}, try : Attempt, pc : WorkerPc]]
    /\ \A w \in Worker : worker[w].pc # "idle" => worker[w].run \in Run
    /\ dlq \in DeadLetters /\ lost \subseteq Run
    /\ faults \in Nat

(* A run that says succeeded has all of its results, as rows and as stored *)
(* objects, whatever was retried, delivered twice or cut off by a crash.   *)
SucceededHasResults ==
    \A r \in Run : status[r] = "succeeded" =>
        LET needed == IF r \in mc THEN Object ELSE {"statements"}
        IN  needed \subseteq artifacts[r] /\ artifacts[r] \subseteq stored[r]

InFlight(r) ==
    \/ \E n \in Attempt : queue[r][n] > 0
    \/ \E w \in Worker : worker[w].run = r

(* Where a task is on file that is over and done with, or why it is not:   *)
(* the trimming of a full list dropped it, or neither the database nor     *)
(* Redis took its failure.                                                 *)
OnFile(r) ==
    \/ status[r] \in {"succeeded", "failed"}
    \/ \E i \in 1 .. Len(dlq) : dlq[i] = r
    \/ Len(dlq) >= DLQ_MAX_ENTRIES
    \/ r \in lost

(* A published task is not lost by a crash, a repeated delivery or any one *)
(* write that fails: while its run is neither succeeded nor failed the     *)
(* broker or a worker has it, or it is in the DLQ; unless the DLQ is full, *)
(* or the database and Redis refused one and the same failure.             *)
NoTaskLost == \A r \in mc : api[r] \in {"task_id", "done"} => InFlight(r) \/ OnFile(r)

(* Every published task ends: no poisoned run is retried for ever, and its *)
(* run does not stay queued or running unless its task is in the DLQ, or   *)
(* lost to it as above.                                                    *)
TasksEnd == \A r \in Run : [](InFlight(r) => <>(~InFlight(r) /\ OnFile(r)))

(* README.md:35, "Failed jobs after retries are appended to a Redis DLQ    *)
(* list": not when Redis refuses the entry, nor once the list is trimmed.  *)
FailedTasksAreListed ==
    \A r \in mc : api[r] \in {"task_id", "done"} /\ status[r] # "succeeded" =>
        InFlight(r) \/ \E i \in 1 .. Len(dlq) : dlq[i] = r
=============================================================================
