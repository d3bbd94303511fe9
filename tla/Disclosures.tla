----------------------------- MODULE Disclosures -----------------------------
(***************************************************************************)
(* An engagement of the annual financial statements: routers/afs/          *)
(* engagements.py, ingestion.py, disclosure.py, review.py and outputs.py,  *)
(* with services/afs/rollforward.py.  A user uploads a trial balance, has  *)
(* sections drafted by a model, revises and locks them, submits them to    *)
(* reviews, and generates the document from the locked ones.  A new        *)
(* engagement may roll the sections of last year's forward.                *)
(*                                                                         *)
(* Connections have no transaction: every statement commits by itself and  *)
(* the model's answer is awaited between them, so that two requests may    *)
(* interleave at each.  A text is a number given once.  Reading endpoints  *)
(* change nothing and are left out, and so are titles and comments.        *)
(***************************************************************************)
EXTENDS Naturals, FiniteSets

CONSTANTS
    Section,  \* the identities sections may be given
    Prior,    \* the section numbers of the prior engagement
    Review,   \* the identities reviews may be given
    Req,      \* requests that may be running at once
    MaxEdits, \* bound of the texts written
    MaxCalls, \* bound of the other user operations
    None

VARIABLES
    status,   \* afs_engagements.status
    tb,       \* what the trial balance uploaded last is: this year's or last year's
    sections, \* afs_sections
    history,  \* afs_section_history
    reviews,  \* afs_reviews
    outputs,  \* afs_outputs, each with the sections it was generated from
    req,      \* the requests that are running
    texts, calls,
    unrecorded \* sections with an edit whose history was never written

vars == <<status, tb, sections, history, reviews, outputs, req, texts, calls, unrecorded>>

Stage == {"preparer_review", "manager_review", "partner_signoff"}
EngagementStatus == {"setup", "ingestion", "drafting", "review", "approved", "published"}
NoSection == [number |-> 0, status |-> "none", version |-> 0, text |-> 0, needs_review |-> FALSE]
NoReview == [stage |-> "preparer_review", status |-> "none"]
Idle == [pc |-> "idle", section |-> None, review |-> None, seen |-> "none", number |-> 0, text |-> 0]

TypeOK ==
    /\ status \in EngagementStatus
    /\ tb \in {"none", "upload", "va_baseline"}
    /\ \A s \in Section : /\ sections[s].status \in {"none", "draft", "locked"}
                          /\ sections[s].version \in 0..(MaxEdits + 1) /\ sections[s].text \in 0..MaxEdits
    /\ history \subseteq [section : Section, version : 1..(MaxEdits + 1), text : 0..MaxEdits]
    /\ \A v \in Review : reviews[v].status \in {"none", "pending", "approved", "rejected"}
    /\ \A r \in Req : req[r].pc \in {"idle", "draft", "insert", "edit", "history", "submit",
                                     "decide", "engagement", "roll"}
    /\ unrecorded \subseteq Section /\ texts \in 0..MaxEdits /\ calls \in 0..MaxCalls

Init ==
    /\ status = "setup" /\ tb = "none"
    /\ sections = [s \in Section |-> NoSection]
    /\ history = {}
    /\ reviews = [v \in Review |-> NoReview]
    /\ outputs = {}
    /\ req = [r \in Req |-> Idle]
    /\ texts = 0 /\ calls = 0
    /\ unrecorded = {}

Exists(s) == sections[s].status # "none"
Numbers == {sections[s].number : s \in {t \in Section : Exists(t)}}
Call == calls < MaxCalls /\ calls' = calls + 1

-----------------------------------------------------------------------------
(* Faulty versions, which the properties tell from the ones below. *)

Recorded_OldVersion(r) == [section |-> req[r].section, version |-> req[r].number - 1, text |-> req[r].text]
Pending_Any(v) == reviews[v].status # "none"

-----------------------------------------------------------------------------
(* Setup: the engagement is patched, the trial balance uploaded. *)

update_engagement(st) ==
    /\ Call
    /\ status' = st
    /\ UNCHANGED <<tb, sections, history, reviews, outputs, req, texts, unrecorded>>

upload_trial_balance ==
    /\ Call
    /\ tb' = "upload"
    /\ UNCHANGED <<status, sections, history, reviews, outputs, req, texts, unrecorded>>

-----------------------------------------------------------------------------
(* Sections are drafted and edited. *)

draft_new_section(r) ==
    /\ req[r].pc = "idle" /\ texts < MaxEdits
    /\ texts' = texts + 1
    /\ req' = [req EXCEPT ![r] = [Idle EXCEPT !.pc = "draft", !.text = texts + 1]]
    /\ UNCHANGED <<status, tb, sections, history, reviews, outputs, calls, unrecorded>>

(* The model answered, and the next section number is read. *)
NextNumber(r) ==
    /\ req[r].pc = "draft"
    /\ req' = [req EXCEPT ![r].pc = "insert",
                          ![r].number = 1 + CHOOSE n \in Numbers \cup {0} : \A m \in Numbers : m <= n]
    /\ UNCHANGED <<status, tb, sections, history, reviews, outputs, texts, calls, unrecorded>>

(* The number is unique in an engagement: a second insert of it raises. *)
InsertSection(r) ==
    /\ req[r].pc = "insert"
    /\ IF req[r].number \in Numbers
       THEN req' = [req EXCEPT ![r] = Idle] /\ UNCHANGED <<sections, unrecorded>>
       ELSE \E s \in Section :
               /\ ~Exists(s)
               /\ sections' = [sections EXCEPT ![s] = [number |-> req[r].number, status |-> "draft", version |-> 1,
                                                       text |-> req[r].text, needs_review |-> FALSE]]
               /\ req' = [req EXCEPT ![r] = [@ EXCEPT !.pc = "history", !.section = s, !.number = 1]]
               /\ UNCHANGED unrecorded
    /\ UNCHANGED <<status, tb, history, reviews, outputs, texts, calls>>

(* A lock is looked for before the model is asked, and not again after. *)
update_section(r, s) ==
    /\ req[r].pc = "idle" /\ texts < MaxEdits
    /\ sections[s].status = "draft"
    /\ texts' = texts + 1
    /\ req' = [req EXCEPT ![r] = [Idle EXCEPT !.pc = "edit", !.section = s, !.text = texts + 1,
                                              !.number = sections[s].version + 1]]
    /\ UNCHANGED <<status, tb, sections, history, reviews, outputs, calls, unrecorded>>

WriteSection(r) ==
    /\ req[r].pc = "edit"
    /\ sections' = [sections EXCEPT ![req[r].section] = [@ EXCEPT !.version = req[r].number, !.text = req[r].text]]
    /\ req' = [req EXCEPT ![r].pc = "history"]
    /\ UNCHANGED <<status, tb, history, reviews, outputs, texts, calls, unrecorded>>

Recorded(r) == [section |-> req[r].section, version |-> req[r].number, text |-> req[r].text]

RecordHistory(r) ==
    /\ req[r].pc = "history"
    /\ history' = history \cup {Recorded(r)}
    /\ req' = [req EXCEPT ![r] = Idle]
    /\ UNCHANGED <<status, tb, sections, reviews, outputs, texts, calls, unrecorded>>

lock_section(s, st) ==
    /\ Call /\ Exists(s)
    /\ sections' = [sections EXCEPT ![s].status = st]
    /\ UNCHANGED <<status, tb, history, reviews, outputs, req, texts, unrecorded>>

-----------------------------------------------------------------------------
(* The prior engagement is rolled forward, a section at a time. *)

rollforward_engagement(r) ==
    /\ Call /\ req[r].pc = "idle"
    /\ req' = [req EXCEPT ![r] = [Idle EXCEPT !.pc = "roll", !.number = 1]]
    /\ UNCHANGED <<status, tb, sections, history, reviews, outputs, texts, unrecorded>>

(* A number that exists already is left as it is.  The copy has no text of  *)
(* this year, needs a review, and gets no history.                          *)
rollforward_sections(r) ==
    LET n == req[r].number
    IN  /\ req[r].pc = "roll" /\ n \in Prior
        /\ req' = [req EXCEPT ![r].number = n + 1]
        /\ IF n \in Numbers THEN UNCHANGED sections
           ELSE \E s \in Section :
                   /\ ~Exists(s)
                   /\ sections' = [sections EXCEPT ![s] = [number |-> n, status |-> "draft", version |-> 1,
                                                           text |-> 0, needs_review |-> TRUE]]
        /\ UNCHANGED <<status, tb, history, reviews, outputs, texts, calls, unrecorded>>

(* Last year's trial balance becomes the one uploaded last. *)
rollforward_comparatives(r) ==
    /\ req[r].pc = "roll" /\ req[r].number \notin Prior
    /\ tb' = "va_baseline"
    /\ req' = [req EXCEPT ![r] = Idle]
    /\ UNCHANGED <<status, sections, history, reviews, outputs, texts, calls, unrecorded>>

-----------------------------------------------------------------------------
(* Reviews *)

PendingFor(stage) == \E v \in Review : reviews[v].stage = stage /\ reviews[v].status = "pending"

submit_review(r, v, stage) ==
    /\ Call /\ req[r].pc = "idle" /\ reviews[v].status = "none"
    /\ \A s \in Section : sections[s].status # "draft"
    /\ ~PendingFor(stage)
    /\ req' = [req EXCEPT ![r] = [Idle EXCEPT !.pc = "submit", !.review = v, !.seen = stage]]
    /\ UNCHANGED <<status, tb, sections, history, reviews, outputs, texts, unrecorded>>

InsertReview(r) ==
    /\ req[r].pc = "submit"
    /\ reviews[req[r].review].status = "none"
    /\ reviews' = [reviews EXCEPT ![req[r].review] = [stage |-> req[r].seen, status |-> "pending"]]
    /\ req' = [req EXCEPT ![r].pc = "engagement", ![r].seen = "review"]
    /\ UNCHANGED <<status, tb, sections, history, outputs, texts, calls, unrecorded>>

Pending(v) == reviews[v].status = "pending"

(* approve_review and reject_review *)
decide_review(r, v, decision) ==
    /\ Call /\ req[r].pc = "idle" /\ Pending(v)
    /\ req' = [req EXCEPT ![r] = [Idle EXCEPT !.pc = "decide", !.review = v, !.seen = decision]]
    /\ UNCHANGED <<status, tb, sections, history, reviews, outputs, texts, unrecorded>>

Decide(r) ==
    LET v == req[r].review
    IN  /\ req[r].pc = "decide"
        /\ reviews' = [reviews EXCEPT ![v].status = req[r].seen]
        /\ req' = [req EXCEPT ![r] = IF req[r].seen = "approved" /\ reviews[v].stage = "partner_signoff"
                                     THEN [@ EXCEPT !.pc = "engagement"] ELSE Idle]
        /\ UNCHANGED <<status, tb, sections, history, outputs, texts, calls, unrecorded>>

SetEngagement(r) ==
    /\ req[r].pc = "engagement"
    /\ status' = req[r].seen
    /\ req' = [req EXCEPT ![r] = Idle]
    /\ UNCHANGED <<tb, sections, history, reviews, outputs, texts, calls, unrecorded>>

-----------------------------------------------------------------------------
(* The document, from the sections that are locked now; whatever the        *)
(* engagement's status and the reviews say.                                 *)
generate_output ==
    LET locked == {s \in Section : sections[s].status = "locked"}
    IN  /\ Call /\ locked # {}
        /\ outputs' = outputs \cup {{sections[s] : s \in locked}}
        /\ UNCHANGED <<status, tb, sections, history, reviews, req, texts, unrecorded>>

(* A statement or the model fails, or the server stops. *)
Fail(r) ==
    /\ req[r].pc # "idle" /\ Call
    /\ unrecorded' = unrecorded \cup IF req[r].pc = "history" THEN {req[r].section} ELSE {}
    /\ req' = [req EXCEPT ![r] = Idle]
    /\ UNCHANGED <<status, tb, sections, history, reviews, outputs, texts>>

Next ==
    \/ \E st \in EngagementStatus : update_engagement(st)
    \/ upload_trial_balance
    \/ \E r \in Req : draft_new_section(r)
    \/ \E r \in Req : NextNumber(r)
    \/ \E r \in Req : InsertSection(r)
    \/ \E r \in Req, s \in Section : update_section(r, s)
    \/ \E r \in Req : WriteSection(r)
    \/ \E r \in Req : RecordHistory(r)
    \/ \E s \in Section, st \in {"draft", "locked"} : lock_section(s, st)
    \/ \E r \in Req : rollforward_engagement(r)
    \/ \E r \in Req : rollforward_sections(r)
    \/ \E r \in Req : rollforward_comparatives(r)
    \/ \E r \in Req, v \in Review, stage \in Stage : submit_review(r, v, stage)
    \/ \E r \in Req : InsertReview(r)
    \/ \E r \in Req, v \in Review, d \in {"approved", "rejected"} : decide_review(r, v, d)
    \/ \E r \in Req : Decide(r)
    \/ \E r \in Req : SetEngagement(r)
    \/ generate_output
    \/ \E r \in Req : Fail(r)

Spec == Init /\ [][Next]_vars

-----------------------------------------------------------------------------
(* The text a section has now, with its version, is in its history, however *)
(* edits overlap, once those that are under way have written theirs; a      *)
(* section rolled forward has none until it is edited, and an edit that     *)
(* fails between its two statements leaves a gap (update_section).          *)
HistoryIsWhole ==
    \A s \in Section \ unrecorded :
        \/ sections[s].text = 0
        \/ \E r \in Req : req[r].pc = "history" /\ req[r].section = s
        \/ [section |-> s, version |-> sections[s].version, text |-> sections[s].text] \in history

(* A review that was decided, with no other decision under way that read it *)
(* while it was pending, is final: no later call of any kind decides it     *)
(* again (approve_review, reject_review; two calls that overlap may, and    *)
(* then the engagement may be approved by a review that reads rejected).    *)
Final(v) == /\ reviews[v].status \in {"approved", "rejected"}
            /\ \A r \in Req : req[r].pc = "decide" => req[r].review # v
DecisionsAreFinal == [][\A v \in Review : Final(v) => Final(v)' /\ reviews'[v] = reviews[v]]_vars

(* What is published was reviewed: the column needs_review says that a       *)
(* section rolled forward "requires human review before publication", and    *)
(* nothing reads it (generate_output).                                       *)
PublishedWasReviewed == \A parts \in outputs : \A p \in parts : ~p.needs_review

=============================================================================
