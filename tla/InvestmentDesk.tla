--------------------------- MODULE InvestmentDesk ---------------------------
(***************************************************************************)
(* What the investment routers keep: private-equity assessments with their *)
(* computed figures (routers/pim_pe.py), portfolio runs with their         *)
(* holdings (routers/pim_portfolio.py, persist_run), and the commentary of *)
(* a stored backtest (routers/pim_backtest.py).  None of the handlers      *)
(* opens a transaction: each statement commits on its own, and a handler   *)
(* may stop between two of them.                                           *)
(*                                                                         *)
(* The cash flows of an assessment are a version number, 0 the empty list; *)
(* computed figures are the versions they were computed from.  The         *)
(* arithmetic of the figures is in Investment.                             *)
(***************************************************************************)
EXTENDS Naturals, FiniteSets

CONSTANTS
    Fund, Company, Request,
    MaxEdits,   \* bound of the versions of an assessment and of user calls
    None

VARIABLES
    fund,      \* pim_pe_assessments
    gone,      \* history: identifiers that were deleted; none is given twice
    run,       \* pim_portfolio_runs with their holdings, one a request
    text,      \* the commentary of a stored backtest
    req,       \* the requests in progress and their answers
    edits,     \* history: the versions written and the calls made so far
    overtaken  \* history: assessments whose cash flows changed under a compute

vars == <<fund, gone, run, text, req, edits, overtaken>>

NoFigures == [flows |-> None, nav |-> None]
Idle == [pc |-> "idle", of |-> None, saw |-> NoFigures, todo |-> {}]

Version == 0..MaxEdits
Figures == [flows : Version, nav : Version] \cup {NoFigures}
Assessment == [flows : Version, nav : Version, figures : Figures, irr_computed_at : BOOLEAN]

TypeOK ==
    /\ \A f \in Fund : fund[f] = None \/ fund[f] \in Assessment
    /\ gone \subseteq Fund
    /\ \A r \in Request : run[r] = None \/ run[r] \in
          [n_holdings : 0..Cardinality(Company), holdings : SUBSET Company]
    /\ text \in Request \cup {"none", "empty"}
    /\ \A r \in Request :
          /\ req[r].pc \in {"idle", "computing", "memo", "told", "building", "built", "writing", "read"}
          /\ req[r].of \in Fund \cup Request \cup {None, "empty"}
          /\ req[r].saw \in Figures
          /\ req[r].todo \subseteq Company
    /\ edits \in 0..MaxEdits
    /\ overtaken \subseteq Fund

Init ==
    /\ fund = [f \in Fund |-> None]
    /\ gone = {}
    /\ run = [r \in Request |-> None]
    /\ text = "none"
    /\ req = [r \in Request |-> Idle]
    /\ edits = 0
    /\ overtaken = {}

Edit == edits < MaxEdits /\ edits' = edits + 1

(* A request that has been answered stays with its answer. *)
Becomes(r, state) == req' = [req EXCEPT ![r] = state]

-----------------------------------------------------------------------------
(* Faulty versions, which the properties tell from the ones below. *)

Invalidated_Never(row) == row
Unsaved_LeavesOne(todo) == {S \in SUBSET todo : Cardinality(S) = 1}

-----------------------------------------------------------------------------
(* Private-equity assessments. *)

create_pe_assessment(f) ==
    /\ Edit
    /\ fund[f] = None /\ f \notin gone
    /\ \E flows, nav \in {0, edits'} :
          fund' = [fund EXCEPT ![f] = [flows |-> flows, nav |-> nav, figures |-> NoFigures,
                                       irr_computed_at |-> FALSE]]
    /\ UNCHANGED <<gone, run, text, req, overtaken>>

(* Changed cash flows take the stamp away.  The figures stay, and a new net *)
(* asset value takes nothing away.                                          *)
Invalidated(row) == [row EXCEPT !.irr_computed_at = FALSE]

update_pe_assessment(f) ==
    /\ Edit
    /\ fund[f] # None
    /\ \/ /\ \E flows \in {0, edits'} :
                fund' = [fund EXCEPT ![f] = [Invalidated(@) EXCEPT !.flows = flows]]
          /\ overtaken' = IF \E r \in Request : req[r].pc = "computing" /\ req[r].of = f
                             THEN overtaken \cup {f}
                             ELSE overtaken
       \/ fund' = [fund EXCEPT ![f].nav = edits'] /\ UNCHANGED overtaken
    /\ UNCHANGED <<gone, run, text, req>>

delete_pe_assessment(f) ==
    /\ Edit
    /\ fund[f] # None
    /\ fund' = [fund EXCEPT ![f] = None]
    /\ gone' = gone \cup {f}
    /\ UNCHANGED <<run, text, req, overtaken>>

(* compute_pe_assessment reads the inputs, computes, and writes the figures *)
(* with their stamp over whatever the row holds by then.                    *)
ReadInputs(r, f) ==
    /\ req[r].pc = "idle"
    /\ fund[f] # None
    /\ Becomes(r, [Idle EXCEPT !.pc = "computing", !.of = f,
                               !.saw = [flows |-> fund[f].flows, nav |-> fund[f].nav]])
    /\ UNCHANGED <<fund, gone, run, text, edits, overtaken>>

compute_pe_assessment(r) ==
    /\ req[r].pc = "computing"
    /\ fund' = IF fund[req[r].of] = None THEN fund
               ELSE [fund EXCEPT ![req[r].of].figures = req[r].saw,
                                 ![req[r].of].irr_computed_at = TRUE]
    /\ Becomes(r, Idle)
    /\ UNCHANGED <<gone, run, text, edits, overtaken>>

(* The memo asks only that a multiple is there, and with no money paid in   *)
(* there is none.  Nothing asks for the stamp.                              *)
HasMultiples(row) == row.figures # NoFigures /\ row.figures.flows # 0

generate_pe_memo(r, f) ==
    /\ req[r].pc = "idle"
    /\ fund[f] # None /\ HasMultiples(fund[f])
    /\ Becomes(r, [Idle EXCEPT !.pc = "memo", !.of = f, !.saw = fund[f].figures])
    /\ UNCHANGED <<fund, gone, run, text, edits, overtaken>>

TellMemo(r) ==
    /\ req[r].pc = "memo"
    /\ Becomes(r, [req[r] EXCEPT !.pc = "told"])
    /\ UNCHANGED <<fund, gone, run, text, edits, overtaken>>

-----------------------------------------------------------------------------
(* Portfolio runs: the run is inserted with the number of its holdings,     *)
(* then each holding by a statement of its own.                             *)

build_portfolio_endpoint(r) ==
    /\ Edit
    /\ req[r].pc = "idle" /\ run[r] = None
    /\ \E chosen \in SUBSET Company :
          /\ run' = [run EXCEPT ![r] = [n_holdings |-> Cardinality(chosen), holdings |-> {}]]
          /\ Becomes(r, [Idle EXCEPT !.pc = "building", !.of = r, !.todo = chosen])
    /\ UNCHANGED <<fund, gone, text, overtaken>>

(* The holdings still to be inserted when the loop ends. *)
Unsaved(todo) == {{}}

persist_holding(r, c) ==
    /\ req[r].pc = "building" /\ c \in req[r].todo
    /\ IF run[r] = None
          THEN Becomes(r, Idle) /\ UNCHANGED run  \* the holding's foreign key refuses it
          ELSE /\ run' = [run EXCEPT ![r].holdings = @ \cup {c}]
               /\ Becomes(r, [req[r] EXCEPT !.todo = @ \ {c}])
    /\ UNCHANGED <<fund, gone, text, edits, overtaken>>

AnswerBuild(r) ==
    /\ req[r].pc = "building" /\ req[r].todo \in Unsaved(req[r].todo)
    /\ Becomes(r, [req[r] EXCEPT !.pc = "built", !.todo = {}])
    /\ UNCHANGED <<fund, gone, run, text, edits, overtaken>>

(* The holdings go with their run. *)
delete_portfolio_run(r) ==
    /\ Edit
    /\ run[r] # None
    /\ run' = [run EXCEPT ![r] = None]
    /\ UNCHANGED <<fund, gone, text, req, overtaken>>

-----------------------------------------------------------------------------
(* The commentary: stored text is answered; without any, or with an empty   *)
(* one, the model is asked and its text written over what is there by then. *)

Stored == text \notin {"none", "empty"}

get_backtest_commentary(r) ==
    /\ req[r].pc = "idle"
    /\ Becomes(r, IF Stored THEN [Idle EXCEPT !.pc = "read", !.of = text]
                  ELSE [Idle EXCEPT !.pc = "writing"])
    /\ UNCHANGED <<fund, gone, run, text, edits, overtaken>>

WriteCommentary(r) ==
    /\ req[r].pc = "writing"
    /\ text' \in {r, "empty"}
    /\ Becomes(r, [Idle EXCEPT !.pc = "read", !.of = text'])
    /\ UNCHANGED <<fund, gone, run, edits, overtaken>>

-----------------------------------------------------------------------------
(* The model fails (the request answers 502 or 503), or the process or its  *)
(* connection is lost: what was written stays.                              *)
Fail(r) ==
    /\ req[r].pc \in {"computing", "memo", "building", "writing"}
    /\ Becomes(r, Idle)
    /\ UNCHANGED <<fund, gone, run, text, edits, overtaken>>

(* The client has its answer and the request's name is free again. *)
Leave(r) ==
    /\ req[r].pc \in {"told", "built", "read"}
    /\ Becomes(r, Idle)
    /\ UNCHANGED <<fund, gone, run, text, edits, overtaken>>

Next ==
    \/ \E f \in Fund : create_pe_assessment(f) \/ update_pe_assessment(f) \/ delete_pe_assessment(f)
    \/ \E r \in Request, f \in Fund : ReadInputs(r, f) \/ generate_pe_memo(r, f)
    \/ \E r \in Request : compute_pe_assessment(r) \/ TellMemo(r)
    \/ \E r \in Request : build_portfolio_endpoint(r) \/ AnswerBuild(r) \/ delete_portfolio_run(r)
    \/ \E r \in Request, c \in Company : persist_holding(r, c)
    \/ \E r \in Request : get_backtest_commentary(r) \/ WriteCommentary(r)
    \/ \E r \in Request : Fail(r) \/ Leave(r)

Spec == Init /\ [][Next]_vars

-----------------------------------------------------------------------------
(* An assessment that carries the stamp irr_computed_at shows the figures  *)
(* of the cash flows it holds, unless they were changed while a compute was*)
(* between its read and its write: no sequence of edits, computes, failures*)
(* and deletions, whatever their order, leaves another way to a stamp on   *)
(* old figures.                                                            *)
StampedFiguresAreCurrent ==
    \A f \in Fund : fund[f] # None /\ fund[f].irr_computed_at /\ f \notin overtaken
                    => fund[f].figures.flows = fund[f].flows

(* The same without the exception, which is what the router's comment       *)
(* "Invalidate IRR when cash flows change" is for: a compute that read the  *)
(* old cash flows puts the stamp back after the update took it away.        *)
StampedIsCurrent ==
    \A f \in Fund : fund[f] # None /\ fund[f].irr_computed_at
                    => fund[f].figures.flows = fund[f].flows

(* A portfolio run whose build was answered holds as many companies as it   *)
(* says: a build that stops between two of its inserts leaves a short run   *)
(* behind, but never answers.                                               *)
AnsweredRunsAreWhole ==
    \A r \in Request : req[r].pc = "built" /\ run[r] # None
                       => Cardinality(run[r].holdings) = run[r].n_holdings

(* A stored commentary is what every later reader gets: "if commentary has  *)
(* already been generated and stored, return it".  Two readers who both     *)
(* found none both generate one, and the second replaces the first.         *)
CommentaryStays == [][Stored => UNCHANGED text]_vars

=============================================================================
