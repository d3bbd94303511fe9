----------------------------- MODULE BoardPacks -----------------------------
(***************************************************************************)
(* Board packs, their narratives, and the schedules that generate and mail *)
(* them (routers/board_packs.py, routers/board_pack_schedules.py,          *)
(* services/email.py).                                                     *)
(*                                                                         *)
(* A pack is generated across several connections: its status is read,     *)
(* set to generating, and, after the language model has answered, set to   *)
(* ready or error.  The cron endpoint and run-now create a pack, generate  *)
(* it with the same code and write its row of pack_generation_history;     *)
(* cron also mails it and then advances next_run_at.  Nothing holds a      *)
(* lock, so calls overlap, and any of them may fail between two steps.     *)
(*                                                                         *)
(* One tenant.  A pack id is never used twice; a scheduled pack has one    *)
(* history row, kept under the pack's id.  Texts and branding are left     *)
(* out; a narrative is the set of who wrote into it.                       *)
(***************************************************************************)
EXTENDS Naturals

CONSTANTS
    Pack,           \* pack ids uuid4 may produce (bounds the run)
    Schedule,
    Req,            \* requests, cron calls among them, in flight together
    CronExpr,       \* periods of the cron expressions, None is an invalid one
    MaxTime,        \* the clock stops here (bounds the run)
    MaxEdits,       \* what users ask for altogether (bounds the run)
    None

VARIABLES
    pack,           \* rows of board_packs
    sched,          \* rows of pack_schedules
    hist,           \* rows of pack_generation_history, by pack
    mailed,         \* packs SendGrid has accepted a mail of
    clock,
    edits,          \* what users have asked for so far
    req

vars == <<pack, sched, hist, mailed, clock, edits, req>>
-----------------------------------------------------------------------------
NoPack == [status |-> "none", narrative |-> {}]
Draft == [status |-> "draft", narrative |-> {}]
PackRow == [status : {"none", "draft", "generating", "ready", "error", "deleted"},
            narrative : SUBSET {"llm", "user"}]

NoSchedule == [state |-> "none"]
DeletedSchedule == [state |-> "deleted"]
ScheduleRow == {NoSchedule, DeletedSchedule} \cup
    [state : {"enabled", "disabled"}, cron : CronExpr, next : Nat \cup {None}]

NoHistory == [status |-> "none"]
HistoryRow == {NoHistory} \cup
    [status : {"ready", "failed", "distributed"}, sched : Schedule, due : 0..MaxTime]

(* A schedule as a caller has read it.                                     *)
ReadRow == [id : Schedule, cron : CronExpr]

Idle == [pc |-> "idle"]
Kind == {"user", "now", "cron", "distribute"}
Request == {Idle} \cup
    [pc : {"next", "read", "mark", "llm", "failed", "record", "mail",
           "mailed", "advance"},
     kind : Kind, pack : Pack \cup {None}, row : ReadRow \cup {None}, now : 0..MaxTime,
     todo : SUBSET ReadRow]

Init ==
    /\ pack = [p \in Pack |-> NoPack]
    /\ sched = [s \in Schedule |-> NoSchedule]
    /\ hist = [p \in Pack |-> NoHistory]
    /\ mailed = {}
    /\ clock = 0
    /\ edits = 0
    /\ req = [r \in Req |-> Idle]

Goes(r, pc) == req' = [req EXCEPT ![r].pc = pc]
UserAsks == edits < MaxEdits /\ edits' = edits + 1
Ends(r) == req' = [req EXCEPT ![r] = Idle]

(* An UPDATE of a row that has been deleted changes nothing.               *)
Exists(p) == pack[p].status \notin {"none", "deleted"}
UpdatePack(p, row) == pack' = IF Exists(p) THEN [pack EXCEPT ![p] = row] ELSE pack
HasSchedule(s) == sched[s] \notin {NoSchedule, DeletedSchedule}
SetStatus(p, status) == UpdatePack(p, [pack[p] EXCEPT !.status = status])

(* compute_next_run: None for an expression croniter refuses.              *)
compute_next_run(cron, base) == IF cron = None THEN None ELSE (base \div cron + 1) * cron

(* The history row of a request's pack; due is the time, now_ts, that the  *)
(* request has generated it for.                                           *)
Record(r, status) ==
    hist' = [hist EXCEPT ![req[r].pack] =
               [status |-> status, sched |-> req[r].row.id,
                due |-> IF status = "ready" THEN req[r].now ELSE 0]]

(* cron goes on with the next schedule, the other callers are done.        *)
AfterPack(r) == IF req[r].kind = "cron" THEN Goes(r, "next") ELSE Ends(r)
-----------------------------------------------------------------------------
(* Faulty versions, which the properties tell from the ones below.         *)

(* next_run_at advanced when generation has failed, too.                   *)
RecordFailed_Advances(r) ==
    /\ req[r].pc = "failed"
    /\ Record(r, "failed")
    /\ IF req[r].kind = "cron" THEN Goes(r, "advance") ELSE Ends(r)
    /\ UNCHANGED <<pack, sched, mailed, clock, edits>>

(* Marked as distributed whatever SendGrid has answered.                   *)
SendMail_Hopes(r) ==
    /\ req[r].pc = "mail"
    /\ mailed' \in {mailed, mailed \cup {req[r].pack}}
    /\ Goes(r, "mailed")
    /\ UNCHANGED <<pack, sched, hist, clock, edits>>
-----------------------------------------------------------------------------
(* Board packs.                                                            *)

create_board_pack(p) ==
    /\ UserAsks
    /\ pack[p] = NoPack
    /\ pack' = [pack EXCEPT ![p] = Draft]
    /\ UNCHANGED <<sched, hist, mailed, clock, req>>

(* One UPDATE merges the sections into the narrative, in any status.       *)
patch_board_pack(p) ==
    /\ UserAsks
    /\ Exists(p)
    /\ pack' = [pack EXCEPT ![p].narrative = @ \cup {"user"}]
    /\ UNCHANGED <<sched, hist, mailed, clock, req>>

delete_board_pack(p) ==
    /\ UserAsks
    /\ Exists(p)
    /\ pack' = [pack EXCEPT ![p] = [status |-> "deleted", narrative |-> {}]]
    /\ UNCHANGED <<sched, hist, mailed, clock, req>>

generate_board_pack(r, p) ==
    /\ UserAsks
    /\ req[r] = Idle
    /\ req' = [req EXCEPT ![r] = [pc |-> "read", kind |-> "user", pack |-> p,
                                  row |-> None, now |-> 0, todo |-> {}]]
    /\ UNCHANGED <<pack, sched, hist, mailed, clock>>
-----------------------------------------------------------------------------
(* generate_board_pack_impl.                                               *)

(* What its caller does when it raises: run-now records HTTPExceptions,    *)
(* cron every exception.                                                   *)
Raises(r, http) ==
    IF req[r].kind = "cron" \/ (req[r].kind = "now" /\ http) THEN Goes(r, "failed")
    ELSE Ends(r)

(* 404, 400 unless draft or error, 404 or another error without results.   *)
ReadPack(r) ==
    /\ req[r].pc = "read"
    /\ \/ pack[req[r].pack].status \in {"draft", "error"} /\ Goes(r, "mark")
       \/ \E http \in BOOLEAN : Raises(r, http)
    /\ UNCHANGED <<pack, sched, hist, mailed, clock, edits>>

MarkGenerating(r) ==
    /\ req[r].pc = "mark"
    /\ SetStatus(req[r].pack, "generating")
    /\ Goes(r, "llm")
    /\ UNCHANGED <<sched, hist, mailed, clock, edits>>

(* The model has answered: the narrative is replaced, what users have      *)
(* written meanwhile with it.                                              *)
WriteReady(r) ==
    /\ req[r].pc = "llm"
    /\ UpdatePack(req[r].pack, [status |-> "ready", narrative |-> {"llm"}])
    /\ IF req[r].kind = "user" THEN Ends(r) ELSE Goes(r, "record")
    /\ UNCHANGED <<sched, hist, mailed, clock, edits>>

(* An LLMError.                                                            *)
WriteError(r) ==
    /\ req[r].pc = "llm"
    /\ SetStatus(req[r].pack, "error")
    /\ Raises(r, TRUE)
    /\ UNCHANGED <<sched, hist, mailed, clock, edits>>

(* Any other exception: the pack stays generating.                         *)
ModelRaises(r) ==
    /\ req[r].pc = "llm"
    /\ Raises(r, FALSE)
    /\ UNCHANGED <<pack, sched, hist, mailed, clock, edits>>
-----------------------------------------------------------------------------
(* Schedules.                                                              *)

create_schedule(s) ==
    /\ UserAsks
    /\ sched[s] = NoSchedule
    /\ \E c \in CronExpr :
        sched' = [sched EXCEPT ![s] = [state |-> "enabled", cron |-> c,
                                       next |-> compute_next_run(c, clock)]]
    /\ UNCHANGED <<pack, hist, mailed, clock, req>>

(* A new expression also sets next_run_at; enabling does not.              *)
patch_schedule(s) ==
    /\ UserAsks
    /\ HasSchedule(s)
    /\ \/ \E c \in CronExpr :
            sched' = [sched EXCEPT ![s].cron = c, ![s].next = compute_next_run(c, clock)]
       \/ \E x \in {"enabled", "disabled"} : sched' = [sched EXCEPT ![s].state = x]
    /\ UNCHANGED <<pack, hist, mailed, clock, req>>

delete_schedule(s) ==
    /\ UserAsks
    /\ HasSchedule(s)
    /\ sched' = [sched EXCEPT ![s] = DeletedSchedule]
    /\ UNCHANGED <<pack, hist, mailed, clock, req>>

AsRead(s) == [id |-> s, cron |-> sched[s].cron]

run_schedule_now(r, s) ==
    /\ UserAsks
    /\ req[r] = Idle /\ HasSchedule(s)
    /\ req' = [req EXCEPT ![r] = [pc |-> "next", kind |-> "now", pack |-> None,
                                  row |-> None, now |-> clock, todo |-> {AsRead(s)}]]
    /\ UNCHANGED <<pack, sched, hist, mailed, clock>>

IsDue(s) ==
    /\ HasSchedule(s) /\ sched[s].state = "enabled"
    /\ sched[s].next # None /\ sched[s].next <= clock

(* cron_execute_schedules reads all the schedules that are due at once ... *)
cron_execute_schedules(r) ==
    /\ req[r] = Idle
    /\ req' = [req EXCEPT ![r] = [pc |-> "next", kind |-> "cron", pack |-> None,
                                  row |-> None, now |-> clock,
                                  todo |-> {AsRead(s) : s \in {x \in Schedule : IsDue(x)}}]]
    /\ UNCHANGED <<pack, sched, hist, mailed, clock, edits>>

(* ... and takes them one after the other; each gets a new pack.           *)
NextSchedule(r) ==
    /\ req[r].pc = "next"
    /\ \/ /\ req[r].todo = {} /\ Ends(r)
          /\ UNCHANGED pack
       \/ \E row \in req[r].todo, p \in Pack :
            /\ pack[p] = NoPack
            /\ pack' = [pack EXCEPT ![p] = Draft]
            /\ req' = [req EXCEPT ![r].pc = "read", ![r].pack = p, ![r].row = row,
                                  ![r].todo = @ \ {row}]
    /\ UNCHANGED <<sched, hist, mailed, clock, edits>>

(* A failed pack does not advance next_run_at: cron takes it again.        *)
RecordFailed(r) ==
    /\ req[r].pc = "failed"
    /\ Record(r, "failed")
    /\ AfterPack(r)
    /\ UNCHANGED <<pack, sched, mailed, clock, edits>>

RecordReady(r) ==
    /\ req[r].pc = "record"
    /\ Record(r, "ready")
    /\ IF req[r].kind = "now" THEN Ends(r) ELSE Goes(r, "mail")
    /\ UNCHANGED <<pack, sched, mailed, clock, edits>>

(* distribute_pack: any history row, whatever its status.                  *)
distribute_pack(r, p) ==
    /\ UserAsks
    /\ req[r] = Idle /\ hist[p] # NoHistory
    /\ req' = [req EXCEPT ![r] = [pc |-> "mail", kind |-> "distribute", pack |-> p,
                                  row |-> None, now |-> 0, todo |-> {}]]
    /\ UNCHANGED <<pack, sched, hist, mailed, clock>>

(* send_board_pack_email: sent, or not (no recipients, no API key, or an   *)
(* EmailError, which cron logs).                                           *)
SendMail(r) ==
    /\ req[r].pc = "mail"
    /\ \/ mailed' = mailed \cup {req[r].pack} /\ Goes(r, "mailed")
       \/ /\ IF req[r].kind = "cron" THEN Goes(r, "advance") ELSE Ends(r)
          /\ UNCHANGED mailed
    /\ UNCHANGED <<pack, sched, hist, clock, edits>>

MarkDistributed(r) ==
    /\ req[r].pc = "mailed"
    /\ hist' = [hist EXCEPT ![req[r].pack].status = "distributed"]
    /\ IF req[r].kind = "cron" THEN Goes(r, "advance") ELSE Ends(r)
    /\ UNCHANGED <<pack, sched, mailed, clock, edits>>

(* By the expression that was read, whatever it is by now.                 *)
AdvanceNextRun(r) ==
    /\ req[r].pc = "advance"
    /\ LET s == req[r].row.id IN
        sched' = IF HasSchedule(s)
                 THEN [sched EXCEPT ![s].next = compute_next_run(req[r].row.cron, req[r].now)]
                 ELSE sched
    /\ Goes(r, "next")
    /\ UNCHANGED <<pack, hist, mailed, clock, edits>>
-----------------------------------------------------------------------------
(* A statement fails, which cron catches for each schedule, or the server  *)
(* stops.                                                                  *)
Fail(r) ==
    /\ req[r] # Idle
    /\ AfterPack(r) \/ Ends(r)
    /\ UNCHANGED <<pack, sched, hist, mailed, clock, edits>>

Tick ==
    /\ clock < MaxTime
    /\ clock' = clock + 1
    /\ UNCHANGED <<pack, sched, hist, mailed, req, edits>>

Next ==
    \/ Tick
    \/ \E p \in Pack :
        create_board_pack(p) \/ patch_board_pack(p) \/ delete_board_pack(p)
    \/ \E s \in Schedule : create_schedule(s) \/ patch_schedule(s) \/ delete_schedule(s)
    \/ \E r \in Req :
        \/ \E p \in Pack : generate_board_pack(r, p) \/ distribute_pack(r, p)
        \/ \E s \in Schedule : run_schedule_now(r, s)
        \/ cron_execute_schedules(r) \/ NextSchedule(r)
        \/ ReadPack(r) \/ MarkGenerating(r) \/ WriteReady(r) \/ WriteError(r) \/ ModelRaises(r)
        \/ RecordFailed(r) \/ RecordReady(r) \/ SendMail(r) \/ MarkDistributed(r)
        \/ AdvanceNextRun(r) \/ Fail(r)

Spec == Init /\ [][Next]_vars
-----------------------------------------------------------------------------
TypeOK ==
    /\ pack \in [Pack -> PackRow]
    /\ sched \in [Schedule -> ScheduleRow]
    /\ hist \in [Pack -> HistoryRow]
    /\ mailed \subseteq Pack
    /\ clock \in 0..MaxTime /\ edits \in 0..MaxEdits
    /\ req \in [Req -> Request]

(* What a reader of a pack or of the history may rely on, however calls    *)
(* overlap and wherever they fail: a ready pack has a generated narrative, *)
(* and a distributed one was mailed.                                       *)
PacksAreWhatTheySay ==
    \A p \in Pack :
        /\ pack[p].status = "ready" => "llm" \in pack[p].narrative
        /\ hist[p].status = "distributed" => p \in mailed

(* No occurrence of a schedule is skipped: a cron call moves next_run_at   *)
(* past a time that has come only when a pack of this schedule was         *)
(* generated for it, however cron calls overlap and fail.  (It may be      *)
(* generated twice, never left out.)  This is claimed while the call goes  *)
(* by the expression the schedule has, and next_run_at does: a call that   *)
(* overlaps a change of the expression writes an occurrence of the old one.*)
Later(t, u) == t = None \/ t > u
Occurs(t, cron) == cron # None /\ \E n \in 0..t : t = n * cron
NoOccurrenceSkipped ==
    [][\A r \in Req : LET s == req[r].row.id IN
        (/\ req[r].pc = "advance" /\ req'[r].pc = "next"
         /\ IsDue(s) /\ req[r].row.cron = sched[s].cron
         /\ Occurs(sched[s].next, sched[s].cron)
         /\ Later(sched'[s].next, sched[s].next)) =>
            \E p \in Pack : /\ hist[p] # NoHistory /\ hist[p].sched = s
                            /\ hist[p].status # "failed"
                            /\ hist[p].due >= sched[s].next]_vars
=============================================================================
