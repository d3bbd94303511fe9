---------------------------- MODULE BudgetFigures ----------------------------
(***************************************************************************)
(* The figures of a budget: line items, actuals and allocations, and the   *)
(* views of them (routers/budgets/periods.py, analytics.py, crud.py,       *)
(* templates.py; _fetch_budget_variance_summary of board_packs.py).        *)
(*                                                                         *)
(* One budget at a time and the lines of its current version; cloning and  *)
(* creating from a template go on with the new budget.  A reforecast reads *)
(* in two steps and waits for the model with its transaction open, at READ *)
(* COMMITTED and with the budget's row locked, which holds up neither      *)
(* imports nor edits.  Amounts are integers and a percentage is compared   *)
(* without being divided out; what a line is called, and whether it is     *)
(* revenue, which no total depends on, are left out.  Who may write,       *)
(* versions and statuses, and reforecasts that overlap, are in             *)
(* BudgetApproval.                                                         *)
(***************************************************************************)
EXTENDS Integers, FiniteSets, Sequences, SequencesExt, FiniteSetsExt

CONSTANTS
    Account, Period, Department,
    Amount,         \* amounts and limits users enter, from zero
    AnyAmount,      \* amounts of actuals and of the model, which no check bounds
    MaxLines,       \* lines of a version (bounds the run)
    MaxEdits,       \* writes altogether, and versions (bounds the run)
    None            \* no amount for the period

VARIABLES
    lines,          \* budget_line_items of the current version, with amounts
    actuals,        \* budget_actuals: amount by period, account, department
    allocations,    \* budget_department_allocations: limit by department
    version,        \* how often a version was made
    edits,
    reforecast,     \* the reforecast under way: what it has read
    imported        \* history: what was imported since it read the actuals

vars == <<lines, actuals, allocations, version, edits, reforecast, imported>>
-----------------------------------------------------------------------------
\* A line has an id that no other line gets, its account and an amount by period.
Line(id) == [id : {id}, account : Account, amounts : [Period -> Amount \cup {None}]]
Key == Period \X Account \X Department

Resting == [pc |-> "idle", periods |-> {}, rows |-> <<>>]

Init ==
    /\ lines = <<>>
    /\ actuals = [k \in Key |-> None]
    /\ allocations = [d \in Department |-> None]
    /\ version = 1
    /\ edits = 0
    /\ reforecast = Resting /\ imported = {}

Value(a) == IF a = None THEN 0 ELSE a
Abs(n) == IF n < 0 THEN -n ELSE n

(* get_version_line_item_totals, and what the dashboard sums by period.    *)
PeriodTotal(per) == SumFunction([i \in DOMAIN lines |-> Value(lines[i].amounts[per])])
total_budget == SumFunction([per \in Period |-> PeriodTotal(per)])

Actual(per, account) == SumFunction([d \in Department |-> Value(actuals[<<per, account, d>>])])
HasActual(per, account) == \E d \in Department : actuals[<<per, account, d>>] # None
periods_with_actuals == {per \in Period : \E a \in Account : HasActual(per, a)}
-----------------------------------------------------------------------------
(* Faulty versions, which the properties tell from the ones below.         *)

(* A period is locked for the accounts that have an actual in it only.     *)
Locked_OwnActuals(account, periods, amounts) ==
    [account |-> account, amounts |-> [per \in Period |->
        IF HasActual(per, account) THEN Actual(per, account) ELSE amounts[per]]]

(* A difference without a budget is no variance.                           *)
Material_Budgeted(budget, actual, pct) ==
    budget # 0 /\ 100 * Abs(actual - budget) >= pct * Abs(budget)
-----------------------------------------------------------------------------
(* Line items.                                                             *)

Edit == edits < MaxEdits /\ edits' = edits + 1

add_line_item ==
    /\ Edit
    /\ Len(lines) < MaxLines
    /\ \E line \in Line(<<edits', 1>>) : lines' = Append(lines, line)
    /\ UNCHANGED <<actuals, allocations, version, reforecast, imported>>

(* The amounts that are given are replaced, the others stay.               *)
update_line_item(i) ==
    /\ Edit
    /\ \E per \in Period, a \in Amount : lines' = [lines EXCEPT ![i].amounts[per] = a]
    /\ UNCHANGED <<actuals, allocations, version, reforecast, imported>>

remove_line_item(i) ==
    /\ Edit
    /\ lines' = RemoveAt(lines, i)
    /\ UNCHANGED <<actuals, allocations, version, reforecast, imported>>

(* 400 when the limits exceed a budget that has a total.                   *)
set_department_allocations ==
    /\ Edit
    /\ \E new \in [Department -> Amount \cup {None}] :
        /\ total_budget > 0 => SumFunction([d \in Department |-> Value(new[d])]) <= total_budget
        /\ allocations' = new
    /\ UNCHANGED <<lines, actuals, version, reforecast, imported>>

import_actuals ==
    /\ Edit
    /\ \E k \in Key, a \in AnyAmount :
        /\ actuals' = [actuals EXCEPT ![k] = a]
        /\ imported' = IF reforecast.pc = "model" THEN imported \cup {<<k[1], k[2]>>} ELSE imported
    /\ UNCHANGED <<lines, allocations, version, reforecast>>
-----------------------------------------------------------------------------
(* reforecast_budget.                                                      *)

(* It reads which periods have actuals, of any account, and the lines.     *)
reforecast_budget ==
    /\ reforecast.pc = "idle" /\ version + edits <= MaxEdits
    /\ reforecast' = [pc |-> "read", periods |-> periods_with_actuals,
                      rows |-> [i \in DOMAIN lines |-> [id |-> lines[i].id, account |-> lines[i].account]]]
    /\ UNCHANGED <<lines, actuals, allocations, version, edits, imported>>

(* The amounts that a line it knows has by now, none once it is removed.   *)
AmountsNow(id) ==
    LET same == {i \in DOMAIN lines : lines[i].id = id}
    IN  [per \in Period |-> IF same = {} THEN None ELSE lines[CHOOSE i \in same : TRUE].amounts[per]]

(* In a period with actuals a line gets its account's, 0 if it has none.   *)
Locked(account, periods, amounts) ==
    [account |-> account, amounts |-> [per \in Period |->
        IF per \in periods THEN Actual(per, account) ELSE amounts[per]]]

(* With the new version's row written it reads amounts and sums of actuals *)
(* and sends them to the model.                                            *)
ReadAmounts ==
    /\ reforecast.pc = "read"
    /\ LET rows == reforecast.rows
           copy == [i \in DOMAIN rows |-> Locked(rows[i].account, reforecast.periods, AmountsNow(rows[i].id))]
       IN  reforecast' = [pc |-> "model", periods |-> reforecast.periods, rows |-> copy]
    /\ UNCHANGED <<lines, actuals, allocations, version, edits, imported>>

(* What the model has revised, in the periods it was asked about (one      *)
(* figure for those of an account, or none).                               *)
Revised(amounts, periods, revised) ==
    [per \in Period |->
        IF per \in periods \/ amounts[per] = None \/ revised = None THEN amounts[per] ELSE revised]

AccountsAsked == {reforecast.rows[i].account : i \in DOMAIN reforecast.rows}

(* The model has answered: the new version is written from what was read   *)
(* and becomes the current one.                                            *)
CommitReforecast ==
    /\ reforecast.pc = "model"
    /\ \E revised \in [AccountsAsked -> AnyAmount \cup {None}] :
        lines' = [i \in DOMAIN reforecast.rows |->
            LET row == reforecast.rows[i]
            IN  [id |-> <<0, version, i>>, account |-> row.account,
                 amounts |-> Revised(row.amounts, reforecast.periods, revised[row.account])]]
    /\ allocations' = [d \in Department |-> None]
    /\ version' = version + 1
    /\ reforecast' = Resting /\ imported' = {}
    /\ UNCHANGED <<actuals, edits>>

(* 429 or 503: nothing is written.                                         *)
ModelFails ==
    /\ reforecast.pc = "model"
    /\ reforecast' = Resting /\ imported' = {}
    /\ UNCHANGED <<lines, actuals, allocations, version, edits>>
-----------------------------------------------------------------------------
(* Other budgets, which the behaviour goes on with.                        *)

(* The current version's lines and allocations, and no actuals.            *)
clone_budget ==
    /\ Edit
    /\ actuals' = [k \in Key |-> None]
    /\ version' = 1
    /\ reforecast' = Resting /\ imported' = {}
    /\ UNCHANGED <<lines, allocations>>

(* The lines the model proposes, the wrong ones left out.                  *)
create_budget_from_template_impl ==
    /\ Edit
    /\ \E a, b \in Account, x, y \in AnyAmount :
        lines' = <<[id |-> <<edits', 1>>, account |-> a, amounts |-> [per \in Period |-> x]],
                   [id |-> <<edits', 2>>, account |-> b, amounts |-> [per \in Period |-> y]]>>
    /\ actuals' = [k \in Key |-> None]
    /\ allocations' = [d \in Department |-> None]
    /\ version' = 1
    /\ reforecast' = Resting /\ imported' = {}

Next ==
    \/ add_line_item
    \/ \E i \in DOMAIN lines : update_line_item(i) \/ remove_line_item(i)
    \/ set_department_allocations
    \/ import_actuals
    \/ reforecast_budget \/ ReadAmounts \/ CommitReforecast \/ ModelFails
    \/ clone_budget
    \/ create_budget_from_template_impl

Spec == Init /\ [][Next]_vars
-----------------------------------------------------------------------------
(* The views.                                                              *)

Material(budget, actual, pct) ==
    IF budget # 0 THEN 100 * Abs(actual - budget) >= pct * Abs(budget)
    ELSE actual # budget /\ 100 >= pct

(* budget_by_key keeps one line of an account, whichever comes last.       *)
Kept(account, per) ==
    {i \in DOMAIN lines : lines[i].account = account /\ lines[i].amounts[per] # None}
InView(account, per) == Kept(account, per) # {} \/ HasActual(per, account)
BudgetOf(account, per) ==
    LET kept == Kept(account, per)
    IN  IF kept = {} THEN 0
        ELSE lines[CHOOSE i \in kept : \A j \in kept : j <= i].amounts[per]

(* get_budget_variance.                                                    *)
get_budget_variance(pct) ==
    {[account |-> x[1], period |-> x[2], budget |-> BudgetOf(x[1], x[2]), actual |-> Actual(x[2], x[1]),
      material |-> Material(BudgetOf(x[1], x[2]), Actual(x[2], x[1]), pct)] :
        x \in {y \in Account \X Period : InView(y[1], y[2])}}

(* get_budget_dashboard: the trend, and whether utilisation is at 90%.     *)
PeriodActual(per) == SumFunction([a \in Account |-> Actual(per, a)])
variance_trend ==
    {[period |-> per, budget |-> PeriodTotal(per),
      actual |-> PeriodActual(per)] :
        per \in {p \in Period : \E a \in Account : InView(a, p)}}
utilisation_alert ==
    LET used == SumFunction([per \in Period |-> PeriodActual(per)])
    IN  \/ total_budget > 0 /\ 100 * used >= 90 * total_budget
        \/ total_budget < 0 /\ 100 * used <= 90 * total_budget

(* The lines of the board pack's summary.                                  *)
_fetch_budget_variance_summary ==
    {x \in Account \X Period :
        InView(x[1], x[2]) /\ Material(BudgetOf(x[1], x[2]), Actual(x[2], x[1]), 5)}
-----------------------------------------------------------------------------
TypeOK ==
    /\ Len(lines) <= MaxLines
    /\ \A i \in DOMAIN lines : lines[i].account \in Account
                               /\ lines[i].amounts \in [Period -> Int \cup {None}]
    /\ actuals \in [Key -> AnyAmount \cup {None}]
    /\ allocations \in [Department -> Amount \cup {None}]
    /\ version \in 1..(MaxEdits + 1) /\ edits \in 0..MaxEdits
    /\ reforecast.pc \in {"idle", "read", "model"} /\ reforecast.periods \subseteq Period
    /\ imported \subseteq Period \X Account

(* As long as no account has two lines, the CFO's dashboard, the variance  *)
(* analysis and the board pack tell the same story: they add up to the     *)
(* same totals, and where a period's totals differ by more than a          *)
(* twentieth of its budgets, an account that says so is in both lists.     *)
OneLineEach == \A i, j \in DOMAIN lines : lines[i].account = lines[j].account => i = j
ViewsAgree ==
    OneLineEach =>
        LET all == get_budget_variance(5)
            summary == _fetch_budget_variance_summary
            of(per) == {v \in all : v.period = per}
        IN  /\ \A t \in variance_trend :
                /\ t.budget = SumFunction([v \in of(t.period) |-> v.budget])
                /\ t.actual = SumFunction([v \in of(t.period) |-> v.actual])
                /\ 20 * Abs(t.actual - t.budget) > SumFunction([v \in of(t.period) |-> Abs(v.budget)]) =>
                     \E v \in of(t.period) : v.material
                                             /\ <<v.account, t.period>> \in summary
            /\ \A v \in all : v.material <=> <<v.account, v.period>> \in summary
            /\ utilisation_alert => periods_with_actuals # {}

(* analytics.py:482, "actuals locked": in a period that had actuals when a *)
(* reforecast began, no account of its new version shows a variance but    *)
(* one that was imported while the model was asked, whatever was edited,   *)
(* imported before the sums were read, or removed meanwhile.               *)
Differs(v) == v.budget # v.actual /\ \E i \in DOMAIN lines : lines[i].account = v.account
ActualsLocked ==
    [][version' > version =>
        \A v \in get_budget_variance(5)' :
            v.period \in reforecast.periods /\ <<v.period, v.account>> \notin imported => ~Differs(v)']_vars

(* The same without the exception, as the docstring has it: it is not so,  *)
(* as what is imported while the model is asked is not in the sums.        *)
ActualsAreLocked ==
    [][version' > version =>
        \A v \in get_budget_variance(5)' : v.period \in periods_with_actuals' => ~Differs(v)']_vars
=============================================================================
