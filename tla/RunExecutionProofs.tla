------------------------- MODULE RunExecutionProofs -------------------------
(***************************************************************************)
(* The inductive invariant of RunExecution, and what follows from it for   *)
(* any number of runs and workers, retries, lost workers and repeated      *)
(* deliveries: a run that says succeeded has its results (while uploads    *)
(* are not lost), and no published task is lost.                           *)
(***************************************************************************)
EXTENDS RunExecution, SequenceTheorems, TLAPS

USE RunConstants DEF letters

(* The request and the mode of its run agree: only the request of a Monte  *)
(* Carlo run comes to publish, only that of another one to the engine.     *)
RequestMatchesMode ==
    \A r \in Run :
        /\ api[r] = "idle" => status[r] = "none" /\ r \notin mc
        /\ api[r] \in {"publish", "task_id"} => r \in mc
        /\ api[r] \in {"engine", "store"} => r \notin mc

(* Only Monte Carlo runs have messages, and only a busy worker has a run.  *)
MessagesOfTasks ==
    /\ \A r \in Run, n \in Attempt : queue[r][n] > 0 => r \in mc
    /\ \A w \in Worker : worker[w] = Idle \/ (worker[w].run \in mc /\ ~At(w, "idle"))

(* The rows an attempt has behind it.                                      *)
RowsWritten ==
    /\ \A w \in Worker : worker[w].pc \in {"simulate", "finish"} =>
                            "statements" \in artifacts[worker[w].run]
    /\ \A r \in Run : status[r] = "succeeded" =>
            (IF r \in mc THEN Object ELSE {"statements"}) \subseteq artifacts[r]

(* The objects an attempt has behind it; every row names a stored object.  *)
ObjectsStored ==
    /\ \A w \in Worker :
        /\ worker[w].pc \in {"start", "simulate", "finish"} =>
                "statements" \in stored[worker[w].run]
        /\ At(w, "finish") => "mc" \in stored[worker[w].run]
    /\ \A r \in Run : artifacts[r] \subseteq stored[r]

(* Somebody still has the task of the run in hand: the broker, or a worker *)
(* that has not come to its acknowledgement, nor recorded that it failed.  *)
(* InFlight alone would not do: of two workers that are about to           *)
(* acknowledge, or to lose their retry, each could stand for the other.    *)
Pending(r) ==
    \/ \E n \in Attempt : queue[r][n] > 0
    \/ \E w \in Worker : worker[w].run = r /\ worker[w].pc \notin {"retry", "ack"}

PublishedIsPending ==
    \A r \in mc : api[r] \in {"task_id", "done"} => Pending(r) \/ OnFile(r)

IInv ==
    /\ TypeOK
    /\ RequestMatchesMode
    /\ MessagesOfTasks
    /\ RowsWritten
    /\ ~LoseUploads => ObjectsStored
    /\ PublishedIsPending
-----------------------------------------------------------------------------
(* What the operators of the model do to one run, message or worker.       *)

Moved(w, pc) ==
    /\ worker' \in [Worker -> [run : Run \cup {None}, try : Attempt, pc : WorkerPc]]
    /\ worker[w].run \in mc
    /\ worker'[w].run = worker[w].run /\ worker'[w].pc = pc
    /\ worker'[w].try = worker[w].try /\ worker[w].try \in Attempt
    /\ \A v \in Worker : v # w => worker'[v] = worker[v]

LEMMA GoesFacts ==
    ASSUME TypeOK, MessagesOfTasks, NEW w \in Worker, NEW pc \in WorkerPc,
           ~At(w, "idle"), Goes(w, pc)
    PROVE  Moved(w, pc)
  BY DEF TypeOK, MessagesOfTasks, Goes, At, Idle, Moved

LEMMA EnqueuedFacts ==
    ASSUME TypeOK, NEW r \in Run, NEW n \in Attempt, queue' = Enqueued(queue, r, n)
    PROVE  /\ queue' \in [Run -> [Attempt -> Nat]]
           /\ queue'[r][n] > 0
           /\ \A s \in Run, m \in Attempt :
                /\ queue[s][m] > 0 => queue'[s][m] > 0
                /\ s # r => queue'[s][m] = queue[s][m]
  BY DEF TypeOK, Enqueued

LEMMA ObjectFacts ==
    ASSUME NEW S \in SUBSET Object, NEW x \in Object
    PROVE  S \cup {x} \in SUBSET Object
  OBVIOUS

LEMMA StoreFacts ==
    ASSUME TypeOK, NEW r \in Run, NEW x \in Object, Store(r, x)
    PROVE  /\ stored' \in [Run -> SUBSET Object]
           /\ x \in stored'[r]
           /\ \A s \in Run : stored[s] \subseteq stored'[s]
           /\ \A s \in Run : s # r => stored'[s] = stored[s]
  BY ObjectFacts DEF TypeOK, Store

LEMMA InsertFacts ==
    ASSUME TypeOK, NEW r \in Run, NEW x \in Object, Insert(r, x)
    PROVE  /\ artifacts' \in [Run -> SUBSET Object]
           /\ artifacts'[r] = artifacts[r] \cup {x}
           /\ \A s \in Run : artifacts[s] \subseteq artifacts'[s]
           /\ \A s \in Run : s # r => artifacts'[s] = artifacts[s]
  BY ObjectFacts DEF TypeOK, Insert

(* What is filed in the dead letter list, and what was in it before, is in *)
(* it afterwards, or the list is full.                                     *)
LEMMA LetterFacts ==
    ASSUME TypeOK, NEW e \in Run \cup {None}, push_to_dlq(e)
    PROVE  /\ dlq' \in DeadLetters
           /\ \E i \in 1 .. Len(dlq') : dlq'[i] = e
           /\ \/ Len(dlq') >= DLQ_MAX_ENTRIES
              \/ /\ Len(dlq) < DLQ_MAX_ENTRIES
                 /\ \A i \in 1 .. Len(dlq) : dlq'[i + 1] = dlq[i] /\ i + 1 \in 1 .. Len(dlq')
  <1> DEFINE s == <<e>> \o dlq
  <1>1. dlq \in Seq(Run \cup {None}) /\ <<e>> \in Seq(Run \cup {None})
    BY DEF TypeOK, DeadLetters
  <1>2. /\ s \in Seq(Run \cup {None}) /\ Len(s) = 1 + Len(dlq) /\ s[1] = e
        /\ \A i \in 1 .. Len(dlq) : s[i + 1] = dlq[i]
    BY <1>1, ConcatProperties
  <1>3. Len(dlq) \in Nat
    BY <1>1, LenProperties
  <1> HIDE DEF s
  <1>4. dlq' = Trimmed(s) \/ dlq' = s
    BY DEF push_to_dlq, s
  <1>5. CASE dlq' = s
    BY <1>2, <1>3, <1>5 DEF DeadLetters
  <1>6. CASE dlq' = SubSeq(s, 1, DLQ_MAX_ENTRIES) /\ Len(s) > DLQ_MAX_ENTRIES
    <2>1. /\ dlq' \in DeadLetters /\ Len(dlq') = DLQ_MAX_ENTRIES
          /\ dlq'[1] = s[1]
      BY <1>2, <1>3, <1>6, SubSeqProperties DEF DeadLetters
    <2>2. QED
      BY <2>1, <1>2 DEF DeadLetters
  <1>7. QED
    BY <1>4, <1>5, <1>6 DEF Trimmed

(* What is on file stays on file, as long as the statuses stay.            *)
LEMMA FiledFacts ==
    ASSUME TypeOK, NEW e \in Run \cup {None}, push_to_dlq(e) \/ dlq' = dlq,
           UNCHANGED status, lost \subseteq lost'
    PROVE  /\ dlq' \in DeadLetters
           /\ \A r \in Run : OnFile(r) => OnFile(r)'
           /\ push_to_dlq(e) => OnFile(e)'
  <1>1. CASE dlq' = dlq /\ ~push_to_dlq(e)
    BY <1>1 DEF TypeOK, OnFile
  <1>2. CASE push_to_dlq(e)
    BY <1>2, LetterFacts DEF OnFile
  <1>3. QED
    BY <1>1, <1>2

LEMMA StaysOnFile ==
    ASSUME NEW r \in Run, UNCHANGED <<dlq, lost>>,
           status'[r] = status[r] \/ status'[r] \in {"succeeded", "failed"}
    PROVE  OnFile(r) => OnFile(r)'
  BY DEF OnFile

LEMMA ObjectNames == "statements" \in Object /\ "mc" \in Object
  BY DEF Object

(* The initial states.                                                     *)
LEMMA InitHolds == Init => IInv
  <1> SUFFICES ASSUME Init PROVE IInv
    OBVIOUS
  <1>1. TypeOK
    BY DEF Init, TypeOK, DeadLetters, Idle, Attempt, Status, ApiPc, WorkerPc
  <1>2. RequestMatchesMode /\ MessagesOfTasks /\ PublishedIsPending
    BY DEF Init, RequestMatchesMode, MessagesOfTasks, PublishedIsPending
  <1>3. RowsWritten /\ ObjectsStored
    BY DEF Init, RowsWritten, ObjectsStored, Idle, At
  <1>4. QED
    BY <1>1, <1>2, <1>3 DEF IInv

(* The steps of a request.                                                 *)
LEMMA CreateKeeps ==
    ASSUME IInv, NEW r \in Run, NEW e \in BOOLEAN, create_run(r, e)
    PROVE  IInv'
  <1> USE DEF IInv
  <1>1. TypeOK'
    BY DEF TypeOK, create_run, ApiGoes, SetStatus, results, broker, Status, ApiPc
  <1>2. RequestMatchesMode'
    BY DEF RequestMatchesMode, TypeOK, create_run, ApiGoes, SetStatus
  <1>3. MessagesOfTasks'
    BY DEF MessagesOfTasks, create_run, broker, At
  <1>4. RowsWritten' /\ (ObjectsStored => ObjectsStored')
    BY DEF RowsWritten, ObjectsStored, TypeOK, create_run, SetStatus, ApiGoes,
           results, broker, At
  <1>5. PublishedIsPending'
    <2>1. /\ \A s \in mc' : api'[s] \in {"task_id", "done"} =>
                    s \in mc /\ s # r /\ api[s] = api'[s] /\ status'[s] = status[s]
          /\ UNCHANGED <<queue, worker, dlq, lost>>
      BY DEF TypeOK, create_run, SetStatus, ApiGoes, broker
    <2>2. \A s \in Run : status'[s] = status[s] /\ OnFile(s) => OnFile(s)'
      BY <2>1, StaysOnFile
    <2>3. \A s \in Run : Pending(s) => Pending(s)'
      BY <2>1 DEF Pending
    <2>4. QED
      BY <2>1, <2>2, <2>3 DEF PublishedIsPending, TypeOK
  <1>6. QED
    BY <1>1, <1>2, <1>3, <1>4, <1>5

LEMMA PublishKeeps ==
    ASSUME IInv, NEW r \in Run, Publish(r)
    PROVE  IInv'
  <1> USE DEF IInv
  <1>1. /\ r \in mc /\ mc' = mc /\ 0 \in Attempt
        /\ api' = [api EXCEPT ![r] = "task_id"]
        /\ queue' = Enqueued(queue, r, 0)
        /\ UNCHANGED <<status, stored, artifacts, worker, dlq, lost, faults>>
    BY DEF Publish, ApiGoes, RequestMatchesMode, Attempt, results
  <1>2. TypeOK'
    BY <1>1, EnqueuedFacts DEF TypeOK, ApiPc
  <1>3. RequestMatchesMode'
    BY <1>1 DEF RequestMatchesMode, TypeOK
  <1>4. MessagesOfTasks'
    BY <1>1, EnqueuedFacts DEF MessagesOfTasks, At
  <1>5. RowsWritten' /\ (ObjectsStored => ObjectsStored')
    BY <1>1 DEF RowsWritten, ObjectsStored, At
  <1>6. PublishedIsPending'
    <2>1. Pending(r)'
      BY <1>1, EnqueuedFacts DEF Pending
    <2>2. ASSUME NEW s \in mc, Pending(s) PROVE Pending(s)'
      BY <2>2, <1>1, EnqueuedFacts DEF Pending, TypeOK, At
    <2>3. QED
      BY <2>1, <2>2, <1>1 DEF PublishedIsPending, OnFile, TypeOK
  <1>7. QED
    BY <1>2, <1>3, <1>4, <1>5, <1>6

LEMMA ApiStepKeeps ==
    ASSUME IInv, NEW r \in Run, ApiStep(r)
    PROVE  IInv'
  <1> USE DEF IInv
  <1>1. CASE Publish(r)
    BY <1>1, PublishKeeps
  <1>2. CASE SaveTaskId(r)
    <2> USE <1>2 DEF SaveTaskId, ApiGoes, results, broker
    <2>1. TypeOK' /\ RequestMatchesMode' /\ MessagesOfTasks'
      BY DEF TypeOK, ApiPc, RequestMatchesMode, MessagesOfTasks, At
    <2>2. RowsWritten' /\ (ObjectsStored => ObjectsStored') /\ PublishedIsPending'
      BY DEF TypeOK, RowsWritten, ObjectsStored, PublishedIsPending, OnFile, Pending, At
    <2>3. QED
      BY <2>1, <2>2
  <1>3. CASE RunEngine(r) \/ NoConfig(r) \/ ApiFails(r)
    <2>1. /\ UNCHANGED <<mc, stored, artifacts, queue, worker, dlq, lost, faults>>
          /\ \E pc \in {"store", "error"} : api' = [api EXCEPT ![r] = pc]
          /\ api'[r] = "store" => r \notin mc
          /\ api[r] # "idle"
          /\ status' = status \/ (r \notin mc /\ status' = [status EXCEPT ![r] = "failed"])
      BY <1>3 DEF RunEngine, NoConfig, ApiFails, ApiGoes, SetStatus, results, broker,
                  RequestMatchesMode, TypeOK
    <2>2. TypeOK' /\ RequestMatchesMode' /\ MessagesOfTasks'
      BY <2>1 DEF TypeOK, ApiPc, Status, RequestMatchesMode, MessagesOfTasks, At
    <2>3. RowsWritten' /\ (ObjectsStored => ObjectsStored') /\ PublishedIsPending'
      BY <2>1 DEF TypeOK, RowsWritten, ObjectsStored, PublishedIsPending, OnFile, Pending, At
    <2>4. QED
      BY <2>2, <2>3
  <1>4. CASE StoreResults(r) \/ StoreResultsFails(r)
    <2>1. /\ UNCHANGED <<mc, queue, worker, dlq, lost, faults>>
          /\ r \notin mc
          /\ Store(r, "statements")
          /\ \/ /\ api' = [api EXCEPT ![r] = "done"]
                /\ status' = [status EXCEPT ![r] = "succeeded"]
                /\ Insert(r, "statements")
             \/ /\ api' = [api EXCEPT ![r] = "error"]
                /\ UNCHANGED <<status, artifacts>>
      BY <1>4 DEF StoreResults, StoreResultsFails, ApiGoes, SetStatus,
                  broker, RequestMatchesMode, TypeOK
    <2>2. TypeOK'
      <3>1. /\ stored' \in [Run -> SUBSET Object]
            /\ artifacts' \in [Run -> SUBSET Object]
        BY <2>1, StoreFacts, InsertFacts, ObjectNames DEF TypeOK
      <3>2. status' \in [Run -> Status] /\ api' \in [Run -> ApiPc]
        BY <2>1 DEF TypeOK, ApiPc, Status
      <3>3. QED
        BY <2>1, <3>1, <3>2 DEF TypeOK
    <2>3. RequestMatchesMode' /\ MessagesOfTasks'
      BY <2>1 DEF TypeOK, RequestMatchesMode, MessagesOfTasks, At
    <2>4. RowsWritten' /\ (ObjectsStored => ObjectsStored')
      <3>1. \A s \in Run : stored[s] \subseteq stored'[s] /\ artifacts[s] \subseteq artifacts'[s]
        BY <2>1, StoreFacts, InsertFacts, ObjectNames
      <3>2. \A w \in Worker : worker[w].pc # "idle" => worker[w].run \in Run
        BY DEF TypeOK
      <3>3. RowsWritten'
        BY <2>1, <3>1, <3>2, InsertFacts, ObjectNames DEF TypeOK, RowsWritten
      <3>4. ObjectsStored => ObjectsStored'
        BY <2>1, <3>1, <3>2, StoreFacts, InsertFacts, ObjectNames DEF ObjectsStored, At
      <3>5. QED
        BY <3>3, <3>4
    <2>5. PublishedIsPending'
      BY <2>1 DEF TypeOK, PublishedIsPending, OnFile, Pending, At
    <2>6. QED
      BY <2>2, <2>3, <2>4, <2>5
  <1>5. QED
    BY <1>1, <1>2, <1>3, <1>4 DEF ApiStep
-----------------------------------------------------------------------------
(* The steps of a worker.                                                  *)

LEMMA TakeKeeps ==
    ASSUME IInv, NEW r \in Run, NEW n \in Attempt, NEW w \in Worker, Take(w, r, n)
    PROVE  IInv'
  <1> USE DEF IInv
  <1>1. /\ r \in mc
        /\ queue[r][n] > 0 /\ queue' = [queue EXCEPT ![r][n] = @ - 1]
        /\ worker' = [worker EXCEPT ![w] = [run |-> r, try |-> n, pc |-> "statements"]]
        /\ worker[w] = Idle
        /\ UNCHANGED <<status, mc, api, stored, artifacts, dlq, lost, faults>>
    BY DEF Take, At, results, MessagesOfTasks
  <1>2. /\ queue' \in [Run -> [Attempt -> Nat]]
        /\ \A s \in Run, m \in Attempt :
              /\ queue'[s][m] > 0 => queue[s][m] > 0
              /\ s # r => queue'[s][m] = queue[s][m]
    BY <1>1 DEF TypeOK
  <1>3. TypeOK'
    BY <1>1, <1>2 DEF TypeOK, WorkerPc
  <1>4. RequestMatchesMode' /\ MessagesOfTasks'
    BY <1>1, <1>2, <1>3 DEF RequestMatchesMode, MessagesOfTasks, At, TypeOK
  <1>5. RowsWritten' /\ (ObjectsStored => ObjectsStored')
    BY <1>1 DEF RowsWritten, ObjectsStored, At, TypeOK
  <1>6. PublishedIsPending'
    <2>1. Pending(r)'
      BY <1>1 DEF Pending, At, TypeOK
    <2>2. ASSUME NEW s \in mc, s # r, Pending(s) PROVE Pending(s)'
      BY <2>2, <1>1, <1>2 DEF Pending, At, TypeOK, Idle
    <2>3. QED
      BY <2>1, <2>2, <1>1 DEF PublishedIsPending, OnFile
  <1>7. QED
    BY <1>3, <1>4, <1>5, <1>6
(* A worker's step that leaves the broker alone keeps the runs of workers  *)
(* and messages; and the task is pending until it is acknowledged.         *)
LEMMA WorkerFrame ==
    ASSUME IInv, NEW w \in Worker, NEW pc \in WorkerPc \ {"idle"},
           Moved(w, pc), mc' = mc, queue' = queue
    PROVE  /\ MessagesOfTasks'
           /\ \A r \in mc : r # worker[w].run /\ Pending(r) => Pending(r)'
           /\ \A r \in mc : pc \notin {"retry", "ack"} /\ r = worker[w].run => Pending(r)'
  <1>1. TypeOK /\ MessagesOfTasks
    BY DEF IInv
  <1>2. MessagesOfTasks'
    BY <1>1 DEF MessagesOfTasks, Moved, At, Idle
  <1>3. \A r \in mc : r # worker[w].run /\ Pending(r) => Pending(r)'
    BY <1>1 DEF Pending, Moved, At
  <1>4. \A r \in mc : pc \notin {"retry", "ack"} /\ r = worker[w].run => Pending(r)'
    BY <1>1 DEF Pending, Moved, At
  <1>5. QED
    BY <1>2, <1>3, <1>4

LEMMA SaveStatementsKeeps ==
    ASSUME IInv, NEW w \in Worker, SaveStatements(w)
    PROVE  IInv'
  <1> USE DEF IInv
  <1> DEFINE r == worker[w].run
  <1>1. /\ Goes(w, "start") /\ ~At(w, "idle") /\ "start" \in WorkerPc \ {"idle"}
        /\ Store(r, "statements") \/ (LoseUploads /\ stored' = stored)
        /\ UNCHANGED <<status, mc, api, artifacts, queue, dlq, lost, faults>>
    BY DEF SaveStatements, At, Save, WorkerPc
  <1>2. Moved(w, "start") /\ r \in mc /\ r \in Run
    BY <1>1, GoesFacts DEF Moved, TypeOK
  <1>3. /\ stored' \in [Run -> SUBSET Object]
        /\ \A s \in Run : stored[s] \subseteq stored'[s]
        /\ ~LoseUploads => "statements" \in stored'[r]
    BY <1>1, <1>2, StoreFacts, ObjectNames DEF TypeOK
  <1>4. TypeOK'
    BY <1>1, <1>2, <1>3 DEF TypeOK, Moved
  <1>5. RequestMatchesMode' /\ MessagesOfTasks'
    BY <1>1, <1>2, WorkerFrame DEF RequestMatchesMode
  <1>6. RowsWritten'
    BY <1>1, <1>2 DEF RowsWritten, Moved
  <1>7. ~LoseUploads => ObjectsStored'
    BY <1>1, <1>2, <1>3 DEF ObjectsStored, Moved, At, TypeOK
  <1>8. PublishedIsPending'
    BY <1>1, <1>2, WorkerFrame DEF PublishedIsPending, OnFile
  <1>9. QED
    BY <1>4, <1>5, <1>6, <1>7, <1>8

LEMMA MarkRunningKeeps ==
    ASSUME IInv, NEW w \in Worker, MarkRunning(w)
    PROVE  IInv'
  <1> USE DEF IInv
  <1> DEFINE r == worker[w].run
  <1>1. /\ At(w, "start") /\ Goes(w, "simulate") /\ ~At(w, "idle")
        /\ "simulate" \in WorkerPc \ {"idle"}
        /\ status' = [status EXCEPT ![r] = "running"]
        /\ Insert(r, "statements")
        /\ UNCHANGED <<mc, api, stored, queue, dlq, lost, faults>>
    BY DEF MarkRunning, At, SetStatus, WorkerPc
  <1>2. Moved(w, "simulate") /\ r \in mc /\ r \in Run
    BY <1>1, GoesFacts DEF Moved, TypeOK
  <1>3. /\ artifacts' \in [Run -> SUBSET Object]
        /\ artifacts'[r] = artifacts[r] \cup {"statements"}
        /\ \A s \in Run : artifacts[s] \subseteq artifacts'[s]
        /\ \A s \in Run : s # r => artifacts'[s] = artifacts[s]
    BY <1>1, <1>2, InsertFacts, ObjectNames
  <1>4. TypeOK'
    BY <1>1, <1>2, <1>3 DEF TypeOK, Moved, Status
  <1>5. RequestMatchesMode' /\ MessagesOfTasks'
    BY <1>1, <1>2, WorkerFrame DEF RequestMatchesMode, TypeOK
  <1>6. RowsWritten'
    BY <1>1, <1>2, <1>3, ZenonT(30) DEF RowsWritten, Moved, TypeOK
  <1>7. ObjectsStored => ObjectsStored'
    BY <1>1, <1>2, <1>3 DEF ObjectsStored, Moved, At
  <1>8. PublishedIsPending'
    <2>1. \A s \in mc : s = r \/ Pending(s) => Pending(s)'
      BY <1>1, <1>2, WorkerFrame
    <2>2. \A s \in mc : s = r \/ status'[s] = status[s]
      BY <1>1 DEF TypeOK
    <2>3. QED
      BY <1>1, <2>1, <2>2 DEF PublishedIsPending, OnFile
  <1>9. QED
    BY <1>4, <1>5, <1>6, <1>7, <1>8
LEMMA SaveMonteCarloKeeps ==
    ASSUME IInv, NEW w \in Worker, SaveMonteCarlo(w)
    PROVE  IInv'
  <1> USE DEF IInv
  <1> DEFINE r == worker[w].run
  <1>1. /\ At(w, "simulate") /\ Goes(w, "finish") /\ ~At(w, "idle")
        /\ "finish" \in WorkerPc \ {"idle"}
        /\ Store(r, "mc") \/ (LoseUploads /\ stored' = stored)
        /\ UNCHANGED <<status, mc, api, artifacts, queue, dlq, lost, faults>>
    BY DEF SaveMonteCarlo, At, Save, WorkerPc
  <1>2. Moved(w, "finish") /\ r \in mc /\ r \in Run
    BY <1>1, GoesFacts DEF Moved, TypeOK
  <1>3. /\ stored' \in [Run -> SUBSET Object]
        /\ \A s \in Run : stored[s] \subseteq stored'[s]
        /\ ~LoseUploads => "mc" \in stored'[r]
    BY <1>1, <1>2, StoreFacts, ObjectNames DEF TypeOK
  <1>4. TypeOK'
    BY <1>1, <1>2, <1>3 DEF TypeOK, Moved
  <1>5. RequestMatchesMode' /\ MessagesOfTasks'
    BY <1>1, <1>2, WorkerFrame DEF RequestMatchesMode
  <1>6. RowsWritten'
    BY <1>1, <1>2 DEF RowsWritten, Moved, At
  <1>7. ~LoseUploads => ObjectsStored'
    BY <1>1, <1>2, <1>3, SMTT(30) DEF ObjectsStored, Moved, At, TypeOK
  <1>8. PublishedIsPending'
    BY <1>1, <1>2, WorkerFrame DEF PublishedIsPending, OnFile
  <1>9. QED
    BY <1>4, <1>5, <1>6, <1>7, <1>8

LEMMA MarkSucceededKeeps ==
    ASSUME IInv, NEW w \in Worker, MarkSucceeded(w)
    PROVE  IInv'
  <1> USE DEF IInv
  <1> DEFINE r == worker[w].run
  <1>1. PICK pc \in {"ack", "fail"} :
            /\ At(w, "finish") /\ Goes(w, pc) /\ ~At(w, "idle")
            /\ status' = [status EXCEPT ![r] = "succeeded"]
            /\ Insert(r, "mc")
            /\ UNCHANGED <<mc, api, stored, queue, dlq, lost, faults>>
    BY DEF MarkSucceeded, At, SetStatus
  <1>2. pc \in WorkerPc \ {"idle"} /\ Moved(w, pc) /\ r \in mc /\ r \in Run
    BY <1>1, GoesFacts DEF Moved, TypeOK, WorkerPc
  <1>3. /\ artifacts' \in [Run -> SUBSET Object]
        /\ artifacts'[r] = artifacts[r] \cup {"mc"}
        /\ \A s \in Run : artifacts[s] \subseteq artifacts'[s]
        /\ \A s \in Run : s # r => artifacts'[s] = artifacts[s]
    BY <1>1, <1>2, InsertFacts, ObjectNames
  <1>4. TypeOK'
    BY <1>1, <1>2, <1>3 DEF TypeOK, Moved, Status
  <1>5. RequestMatchesMode' /\ MessagesOfTasks'
    BY <1>1, <1>2, WorkerFrame DEF RequestMatchesMode, TypeOK
  <1>6. RowsWritten'
    <2>1. Object \subseteq artifacts'[r]
      BY <1>1, <1>3 DEF RowsWritten, At, Object
    <2>2. ASSUME NEW v \in Worker, worker'[v].pc \in {"simulate", "finish"}
          PROVE  "statements" \in artifacts'[worker'[v].run]
      <3>1. worker'[v] = worker[v] /\ worker[v].run \in Run
        BY <1>1, <1>2, <2>2 DEF Moved, MessagesOfTasks, TypeOK, Idle
      <3>2. QED
        BY <1>3, <2>2, <3>1 DEF RowsWritten
    <2>3. ASSUME NEW s \in Run, status'[s] = "succeeded"
          PROVE  (IF s \in mc THEN Object ELSE {"statements"}) \subseteq artifacts'[s]
      <3>1. CASE s = r
        BY <1>2, <2>1, <3>1
      <3>2. CASE s # r
        BY <1>1, <1>3, <2>3, <3>2 DEF RowsWritten, TypeOK
      <3>3. QED
        BY <3>1, <3>2
    <2>4. QED
      BY <1>1, <2>2, <2>3 DEF RowsWritten
  <1>7. ObjectsStored => ObjectsStored'
    BY <1>1, <1>2, <1>3 DEF ObjectsStored, Moved, At
  <1>8. PublishedIsPending'
    <2>1. \A s \in mc : s # r /\ Pending(s) => Pending(s)'
      BY <1>1, <1>2, WorkerFrame
    <2>2. \A s \in mc : IF s = r THEN status'[s] = "succeeded" ELSE status'[s] = status[s]
      BY <1>1 DEF TypeOK
    <2>3. QED
      BY <1>1, <2>1, <2>2 DEF PublishedIsPending, OnFile
  <1>9. QED
    BY <1>4, <1>5, <1>6, <1>7, <1>8

(* The steps of an attempt that has failed.                                *)
LEMMA FailureKeeps ==
    ASSUME IInv, NEW w \in Worker, AttemptFails(w) \/ MarkFailed(w)
    PROVE  IInv'
  <1> USE DEF IInv
  <1>0. PICK r : r = worker[w].run
    OBVIOUS
  <1>1. PICK pc \in {"fail", "retry", "unrecorded"} :
            /\ Goes(w, pc) /\ ~At(w, "idle")
            /\ status' = status \/ status' = [status EXCEPT ![r] = "failed"]
            /\ pc = "retry" => status' = [status EXCEPT ![r] = "failed"]
            /\ UNCHANGED <<mc, api, stored, artifacts, queue, dlq, lost, faults>>
    BY <1>0 DEF AttemptFails, MarkFailed, At, SetStatus, results
  <1>2. pc \in WorkerPc \ {"idle"} /\ Moved(w, pc) /\ r \in mc /\ r \in Run
    BY <1>0, <1>1, GoesFacts DEF Moved, TypeOK, WorkerPc
  <1>3. \A s \in Run : status'[s] = status[s] \/ (s = r /\ status'[s] = "failed")
    BY <1>0, <1>1 DEF TypeOK
  <1>4. TypeOK'
    BY <1>0, <1>1, <1>2 DEF TypeOK, Moved, Status
  <1>5. RequestMatchesMode' /\ MessagesOfTasks'
    BY <1>0, <1>1, <1>2, <1>3, WorkerFrame DEF RequestMatchesMode, TypeOK
  <1>6. RowsWritten' /\ (ObjectsStored => ObjectsStored')
    BY <1>0, <1>1, <1>2, <1>3 DEF RowsWritten, ObjectsStored, Moved, At
  <1>7. PublishedIsPending'
    <2>1. \A s \in mc : s # r /\ Pending(s) => Pending(s)'
      BY <1>0, <1>1, <1>2, WorkerFrame
    <2>2. Pending(r)' \/ OnFile(r)'
      <3>1. CASE pc = "retry"
        BY <1>0, <1>1, <1>2, <3>1 DEF OnFile, TypeOK
      <3>2. CASE pc # "retry"
        BY <1>0, <1>1, <1>2, <3>2, WorkerFrame
      <3>3. QED
        BY <3>1, <3>2
    <2>3. \A s \in mc : s # r /\ OnFile(s) => OnFile(s)'
      BY <1>0, <1>1, <1>3 DEF OnFile, TypeOK
    <2>4. QED
      BY <1>0, <1>1, <2>1, <2>2, <2>3 DEF PublishedIsPending
  <1>8. QED
    BY <1>4, <1>5, <1>6, <1>7

(* A message more, and a worker that goes on or is idle again.             *)
LEMMA EnqueueKeeps ==
    ASSUME IInv, NEW w \in Worker, NEW n \in Attempt, ~At(w, "idle"),
           queue' = Enqueued(queue, worker[w].run, n),
           Goes(w, "ack") \/ worker' = worker \/ worker' = [worker EXCEPT ![w] = Idle],
           faults' \in Nat,
           UNCHANGED <<status, mc, api, stored, artifacts, dlq, lost>>
    PROVE  IInv'
  <1> USE DEF IInv
  <1>1. PICK r \in mc : r = worker[w].run /\ r \in Run /\ 0 \in Attempt
    BY DEF MessagesOfTasks, Idle, At, TypeOK, Attempt
  <1>2. /\ queue' \in [Run -> [Attempt -> Nat]]
        /\ queue'[r][n] > 0
        /\ \A s \in Run, m \in Attempt :
             /\ queue[s][m] > 0 => queue'[s][m] > 0
             /\ s # r => queue'[s][m] = queue[s][m]
    BY <1>1, EnqueuedFacts DEF TypeOK
  <1>3. /\ worker' \in [Worker -> [run : Run \cup {None}, try : Attempt, pc : WorkerPc]]
        /\ \/ worker'[w] = worker[w]
           \/ worker'[w] = Idle
           \/ worker'[w].run = r /\ worker'[w].pc = "ack"
        /\ \A v \in Worker : v # w => worker'[v] = worker[v]
    <2>1. CASE Goes(w, "ack")
      BY <1>1, <2>1, GoesFacts DEF Moved, WorkerPc
    <2>2. CASE worker' = worker \/ worker' = [worker EXCEPT ![w] = Idle]
      <3>1. worker \in [Worker -> [run : Run \cup {None}, try : Attempt, pc : WorkerPc]]
        BY DEF TypeOK
      <3>2. Idle \in [run : Run \cup {None}, try : Attempt, pc : WorkerPc]
        BY <1>1 DEF Idle, WorkerPc
      <3>3. QED
        BY <2>2, <3>1, <3>2
    <2>3. QED
      BY <2>1, <2>2
  <1>4. TypeOK'
    <2>1. \A v \in Worker : worker'[v].pc # "idle" => worker'[v].run \in Run
      BY <1>1, <1>3 DEF TypeOK, Idle
    <2>2. UNCHANGED <<status, mc, api, stored, artifacts, dlq, lost>>
      OBVIOUS
    <2>3. QED
      BY <1>2, <1>3, <2>1, <2>2 DEF TypeOK
  <1>5. RequestMatchesMode'
    <2>1. RequestMatchesMode /\ UNCHANGED <<status, mc, api>>
      OBVIOUS
    <2>2. QED
      BY ONLY <2>1 DEF RequestMatchesMode
  <1>6. MessagesOfTasks'
    <2>1. \A s \in Run, m \in Attempt : queue'[s][m] > 0 => s \in mc
      BY <1>1, <1>2 DEF MessagesOfTasks
    <2>2. \A v \in Worker : worker'[v] = Idle \/ (worker'[v].run \in mc /\ worker'[v].pc # "idle")
      BY <1>1, <1>3 DEF MessagesOfTasks, At
    <2>3. QED
      BY <2>1, <2>2 DEF MessagesOfTasks, At
  <1>7. RowsWritten' /\ (ObjectsStored => ObjectsStored')
    BY <1>1, <1>3 DEF RowsWritten, ObjectsStored, At, Idle
  <1>8. PublishedIsPending'
    <2>1. Pending(r)'
      BY <1>2 DEF Pending
    <2>2. ASSUME NEW s \in mc, s # r, Pending(s) PROVE Pending(s)'
      <3>1. CASE \E m \in Attempt : queue[s][m] > 0
        BY <3>1, <1>2 DEF TypeOK, Pending
      <3>2. CASE \E v \in Worker : worker[v].run = s /\ worker[v].pc \notin {"retry", "ack"}
        BY <3>2, <2>2, <1>1, <1>3 DEF Pending, At
      <3>3. QED
        BY <2>2, <3>1, <3>2 DEF Pending
    <2>3. QED
      BY <2>1, <2>2 DEF PublishedIsPending, OnFile
  <1>9. QED
    BY <1>4, <1>5, <1>6, <1>7, <1>8

(* The end of a failed attempt.  The next attempt, or its dead letter; and *)
(* when Redis takes neither, the run is failed or its failure is lost.     *)
LEMMA RetryKeeps ==
    ASSUME IInv, NEW w \in Worker, Retry(w)
    PROVE  IInv'
  <1> USE DEF IInv
  <1>0. PICK r, n : r = worker[w].run /\ n = worker[w].try
    OBVIOUS
  <1>1. /\ At(w, "retry") \/ At(w, "unrecorded")
        /\ ~At(w, "idle") /\ Goes(w, "ack") /\ "ack" \in WorkerPc \ {"idle"}
        /\ \/ n < MaxRetries /\ queue' = Enqueued(queue, r, n + 1) /\ UNCHANGED <<dlq, lost>>
           \/ push_to_dlq(r) /\ UNCHANGED <<queue, lost>>
           \/ /\ lost' = IF At(w, "unrecorded") THEN lost \cup {r} ELSE lost
              /\ UNCHANGED <<queue, dlq>>
        /\ UNCHANGED <<status, mc, api, stored, artifacts, faults>>
    BY <1>0 DEF Retry, At, results, WorkerPc
  <1>2. Moved(w, "ack") /\ r \in mc /\ r \in Run /\ n \in Attempt
    BY <1>0, <1>1, GoesFacts DEF Moved, TypeOK
  <1>3. CASE n < MaxRetries /\ queue' = Enqueued(queue, r, n + 1) /\ UNCHANGED <<dlq, lost>>
    <2>1. n + 1 \in Attempt
      BY <1>2, <1>3 DEF Attempt
    <2>2. faults' \in Nat
      BY <1>0, <1>1 DEF TypeOK
    <2>3. QED
      BY <1>0, <1>1, <1>3, <2>1, <2>2, EnqueueKeeps
  <1>4. CASE \/ push_to_dlq(r) /\ UNCHANGED <<queue, lost>>
             \/ /\ lost' = IF At(w, "unrecorded") THEN lost \cup {r} ELSE lost
                /\ UNCHANGED <<queue, dlq>>
    <2>1. /\ push_to_dlq(r) \/ dlq' = dlq
          /\ lost \subseteq lost' /\ lost' \subseteq Run
          /\ push_to_dlq(r) \/ At(w, "retry") \/ r \in lost'
      BY <1>0, <1>1, <1>2, <1>4 DEF TypeOK
    <2>2. /\ dlq' \in DeadLetters
          /\ \A s \in Run : OnFile(s) => OnFile(s)'
          /\ push_to_dlq(r) => OnFile(r)'
      BY <1>0, <1>1, <1>2, <2>1, FiledFacts
    <2>3. TypeOK'
      BY <1>0, <1>1, <1>2, <1>4, <2>1, <2>2 DEF TypeOK, Moved
    <2>4. RequestMatchesMode' /\ MessagesOfTasks'
      BY <1>0, <1>1, <1>2, <1>4, WorkerFrame DEF RequestMatchesMode
    <2>5. RowsWritten' /\ (ObjectsStored => ObjectsStored')
      BY <1>0, <1>1, <1>2 DEF RowsWritten, ObjectsStored, Moved, At
    <2>6. PublishedIsPending'
      <3>1. \A s \in mc : s # r /\ Pending(s) => Pending(s)'
        BY <1>0, <1>1, <1>2, <1>4, WorkerFrame
      <3>2. At(w, "retry") /\ Pending(r) => Pending(r)'
        BY <1>0, <1>1, <1>2, <1>4 DEF Pending, Moved, At
      <3>3. ~At(w, "retry") => OnFile(r)'
        BY <2>1, <2>2 DEF OnFile
      <3>4. QED
        BY <1>0, <1>1, <1>2, <2>2, <3>1, <3>2, <3>3 DEF PublishedIsPending, TypeOK
    <2>7. QED
      BY <2>3, <2>4, <2>5, <2>6
  <1>5. QED
    BY <1>1, <1>3, <1>4

(* A dead letter of another task.                                          *)
LEMMA OtherTaskFailsKeeps ==
    ASSUME IInv, OtherTaskFails
    PROVE  IInv'
  <1> USE DEF IInv
  <1>1. /\ push_to_dlq(None) /\ faults' \in Nat
        /\ UNCHANGED <<status, mc, api, stored, artifacts, queue, worker, lost>>
    BY DEF OtherTaskFails, results, TypeOK
  <1>2. /\ dlq' \in DeadLetters
        /\ \A s \in Run : OnFile(s) => OnFile(s)'
    BY <1>1, FiledFacts
  <1>3. TypeOK' /\ RequestMatchesMode' /\ MessagesOfTasks'
    BY <1>1, <1>2 DEF TypeOK, RequestMatchesMode, MessagesOfTasks, At
  <1>4. RowsWritten' /\ (ObjectsStored => ObjectsStored')
    BY <1>1 DEF RowsWritten, ObjectsStored, At
  <1>5. PublishedIsPending'
    BY <1>1, <1>2 DEF PublishedIsPending, Pending, TypeOK
  <1>6. QED
    BY <1>3, <1>4, <1>5

LEMMA AckKeeps ==
    ASSUME IInv, NEW w \in Worker, Ack(w)
    PROVE  IInv'
  <1> USE DEF IInv
  <1>1. /\ At(w, "ack")
        /\ worker' = [worker EXCEPT ![w] = Idle]
        /\ UNCHANGED <<status, mc, api, stored, artifacts, queue, dlq, lost, faults>>
    BY DEF Ack, results
  <1>2. /\ worker'[w] = Idle /\ \A v \in Worker : v # w => worker'[v] = worker[v]
        /\ worker' \in [Worker -> [run : Run \cup {None}, try : Attempt, pc : WorkerPc]]
    BY <1>1 DEF TypeOK, Idle, WorkerPc, Attempt
  <1>3. TypeOK' /\ RequestMatchesMode' /\ MessagesOfTasks'
    BY <1>1, <1>2 DEF TypeOK, RequestMatchesMode, MessagesOfTasks, At, Idle
  <1>4. RowsWritten' /\ (ObjectsStored => ObjectsStored')
    BY <1>1, <1>2 DEF RowsWritten, ObjectsStored, At, Idle
  <1>5. PublishedIsPending'
    <2>1. \A s \in mc : Pending(s) => Pending(s)'
      BY <1>1, <1>2 DEF Pending, At
    <2>2. QED
      BY <1>1, <2>1 DEF PublishedIsPending, OnFile
  <1>6. QED
    BY <1>3, <1>4, <1>5

(* A lost worker, and a message delivered although its worker goes on.     *)
LEMMA FaultKeeps ==
    ASSUME IInv, NEW w \in Worker, WorkerLost(w) \/ Redeliver(w)
    PROVE  IInv'
  <1>1. /\ ~At(w, "idle") /\ worker[w].try \in Attempt /\ faults' \in Nat
    BY DEF IInv, WorkerLost, Redeliver, MessagesOfTasks, TypeOK
  <1>2. QED
    BY <1>1, EnqueueKeeps DEF WorkerLost, Redeliver, results
-----------------------------------------------------------------------------
(* The invariant of the specification.                                     *)
THEOREM Inductive == Spec => []IInv
  <1>1. ASSUME IInv, [Next]_vars PROVE IInv'
    <2>1. ASSUME NEW r \in Run, NEW e \in BOOLEAN, create_run(r, e) PROVE IInv'
      BY <1>1, <2>1, CreateKeeps
    <2>2. ASSUME NEW r \in Run, ApiStep(r) PROVE IInv'
      BY <1>1, <2>2, ApiStepKeeps
    <2>3. ASSUME NEW r \in Run, NEW n \in Attempt, TakeSome(r, n) PROVE IInv'
      BY <1>1, <2>3, TakeKeeps DEF TakeSome
    <2>4. ASSUME NEW w \in Worker, WorkerStep(w) PROVE IInv'
      BY <1>1, <2>4, SaveStatementsKeeps, MarkRunningKeeps, SaveMonteCarloKeeps,
         MarkSucceededKeeps, FailureKeeps, RetryKeeps, AckKeeps DEF WorkerStep
    <2>5. ASSUME NEW w \in Worker, WorkerLost(w) \/ Redeliver(w) PROVE IInv'
      BY <1>1, <2>5, FaultKeeps
    <2>8. CASE OtherTaskFails
      BY <1>1, <2>8, OtherTaskFailsKeeps
    <2>6. CASE UNCHANGED vars
      BY <1>1, <2>6 DEF vars, IInv, TypeOK, RequestMatchesMode, MessagesOfTasks,
                        RowsWritten, ObjectsStored, PublishedIsPending, OnFile, Pending, At
    <2>7. QED
      BY <1>1, <2>1, <2>2, <2>3, <2>4, <2>5, <2>6, <2>8 DEF Next
  <1>2. QED
    BY InitHolds, <1>1, PTL DEF Spec

(* create_run and run_mc_execute: a run that says succeeded has all of its *)
(* results, as rows and as stored objects, whatever was retried, delivered *)
(* twice or cut off.  The uploads must not be lost: with a store that may  *)
(* fail the task goes on without its object (StoresResults).               *)
THEOREM ResultsOfSucceeded ==
    ASSUME ~LoseUploads
    PROVE  Spec => []SucceededHasResults
  <1>1. IInv => SucceededHasResults
    BY DEF IInv, RowsWritten, ObjectsStored, SucceededHasResults
  <1>2. QED
    BY Inductive, <1>1, PTL

(* acks_late, reject_on_worker_lost, the order of retry and                *)
(* acknowledgement, and the dead letter list: a published task of a run    *)
(* that neither succeeded nor failed is at the broker, at a worker, or in  *)
(* the list, whatever crashes and whichever single write fails.  Two       *)
(* things drop it, and only they: a list of DLQ_MAX_ENTRIES, and a failure *)
(* that neither the database nor Redis took.                               *)
THEOREM TasksNotLost == Spec => []NoTaskLost
  <1>1. IInv => NoTaskLost
    BY DEF IInv, PublishedIsPending, Pending, NoTaskLost, InFlight
  <1>2. QED
    BY Inductive, <1>1, PTL

(* What a task needs to be lost: Faulty, which is Redis or the database    *)
(* refusing a write.  Without it every failed attempt of a published run   *)
(* is recorded, retried or on the list, even where the server takes no     *)
(* SET app.tenant_id and the database records nothing.                     *)
THEOREM NoneLostWithoutFaults == ASSUME ~Faulty PROVE Spec => [](lost = {})
  <1>1. Init => lost = {}
    BY DEF Init
  <1>2. lost = {} /\ [Next]_vars => (lost = {})'
    BY DEF Next, vars, create_run, ApiStep, Publish, SaveTaskId, RunEngine, NoConfig,
           StoreResults, StoreResultsFails, ApiFails, TakeSome, Take, WorkerStep,
           SaveStatements, MarkRunning, SaveMonteCarlo, MarkSucceeded, AttemptFails,
           MarkFailed, Retry, Ack, WorkerLost, Redeliver, OtherTaskFails, broker
  <1>3. QED
    BY <1>1, <1>2, PTL DEF Spec
=============================================================================
