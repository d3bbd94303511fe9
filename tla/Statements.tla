----------------------------- MODULE Statements -----------------------------
(***************************************************************************)
(* The three statements of a run: debt schedule, income statement, balance *)
(* sheet, cash flow and funding waterfall (shared/fm_shared/model:         *)
(* debt.py, statements.py, funding_waterfall.py).                          *)
(*                                                                         *)
(* Pure functions of a configuration.  Amounts are integers; a share of an *)
(* amount (tax, interest, payout) is a half, rounded down, which no        *)
(* identity below depends on, days of working capital are whole periods,   *)
(* and PIK is all of the interest or none.  The periods counted as current *)
(* debt are Year, twelve in the code.                                      *)
(***************************************************************************)
EXTENDS Integers, Sequences, FiniteSets, FiniteSetsExt

CONSTANTS
    Horizon, Year,
    None            \* no month, no policy

ASSUME HorizonAssumption == Horizon \in Nat \ {0} /\ Year \in Nat \ {0}

Month == 1..Horizon

(* The sequence of F(1), ..., F(n), and of the F(t) of every month.        *)
Each(F(_), n) == <<>> \o [i \in 1..n |-> F(i)]
Series(F(_)) == Each(F, Horizon)

Zero == Series(LAMBDA t : 0)
Share(amount) == amount \div 2
Positive(n) == IF n > 0 THEN n ELSE 0
Least(a, b) == IF a < b THEN a ELSE b
Total(F(_), S) == SumFunctionOnSet([x \in S |-> F(x)], S)
Before(series, t) == IF t > 1 THEN series[t - 1] ELSE 0
Change(series, t) == series[t] - Before(series, t)
-----------------------------------------------------------------------------
(* Faulty versions, which the properties tell from the ones below.         *)

(* The balance is what was drawn and not paid, without the limit.          *)
Clamp_Floor(n, limit) == Positive(n)

(* Retained earnings forget the dividends.                                 *)
RetainedStep_NoDividend(is, raised, t) == is[t].net_income + raised[t]

(* A loss is carried forward whether or not it was just set off.           *)
CarriedForward_Keeps(nol, used, ebt) == nol + Positive(-ebt)

(* What is available does not count what was drawn in earlier periods.     *)
Available_Fresh(f, balance, t, assets) == f.limit
-----------------------------------------------------------------------------
(* debt.py.  A scheduled facility: limit, pik, grace, converts and the     *)
(* amounts drawn and repaid by month.                                      *)

Clamp(n, limit) == Positive(Least(limit, n))

Converting(f, t) == f.converts # None /\ t >= f.converts
Repaid(f, t) == IF t <= f.grace THEN 0 ELSE f.repays[t - f.grace]

Asked(f, before, t) == before + f.draws[t] - Repaid(f, t)
Capitalised(f, principal) == IF f.pik THEN Share(principal) ELSE 0

(* _repayments_due_next_12_months reads the schedule as it is, without the *)
(* grace period that moves it.                                             *)
DueNextYear(f, t) == Total(LAMBDA m : f.repays[m], {m \in Month : t < m /\ m <= t + Year})

DebtRow(f, before, t) ==
    LET principal == Clamp(Asked(f, before, t), f.limit)
        balance == principal + Capitalised(f, principal)
    IN  IF Converting(f, t)
        THEN [balance |-> 0, interest |-> 0, draw |-> 0, current |-> 0,
              repaid |-> IF t = f.converts THEN before ELSE 0]
        ELSE [balance |-> balance, interest |-> Share(principal) - Capitalised(f, principal),
              draw |-> f.draws[t], current |-> Least(balance, DueNextYear(f, t)),
              repaid |-> Repaid(f, t)]

Schedule(f) ==
    LET balance[t \in 0..Horizon] == IF t = 0 THEN 0 ELSE DebtRow(f, balance[t - 1], t).balance
    IN  Series(LAMBDA t : DebtRow(f, balance[t - 1], t))

calculate_debt_schedule(fs) ==
    LET schedules == Each(LAMBDA i : Schedule(fs[i]), Len(fs))
        sum(field) == Series(LAMBDA t : Total(LAMBDA i : schedules[i][t][field], DOMAIN fs))
        balance == sum("balance")
        current == sum("current")
    IN  [schedules |-> schedules, interest |-> sum("interest"), draws |-> sum("draw"),
         repayments |-> sum("repaid"), current |-> current,
         non_current |-> Series(LAMBDA t : balance[t] - current[t])]

(* What converts is the balance before, or the first month's draws.        *)
Converted(f, schedule, t) ==
    IF f.converts # t THEN 0 ELSE IF t > 1 THEN schedule[t - 1].balance ELSE f.draws[1]

_compute_equity_raises_per_period(c, debt) ==
    Series(LAMBDA t : (IF c.raise = t THEN c.raised ELSE 0)
        + Total(LAMBDA i : Converted(c.facilities[i], debt.schedules[i], t), DOMAIN c.facilities))
-----------------------------------------------------------------------------
(* statements.py.                                                          *)

_compute_da_per_period(c) ==
    Series(LAMBDA t : Total(LAMBDA i :
        IF i.month <= t /\ t < i.month + i.life THEN i.amount \div i.life ELSE 0, c.capex))

CarriedForward(nol, used, ebt) == nol - used + Positive(-ebt)

Dividend(c, net_income) ==
    CASE c.dividends = "fixed_amount" -> 1
      [] c.dividends = "payout_ratio" -> Positive(Share(net_income))
      [] OTHER -> 0

IncomeRow(c, nol, da, interest, t) ==
    LET ebt == c.revenue[t] - c.cogs[t] - c.opex[t] - da - interest
        used == IF c.nol /\ ebt > 0 THEN Least(nol, ebt) ELSE 0
        taxable == Positive(ebt - used)
        net == ebt - Share(taxable)
    IN  [ebt |-> ebt, da |-> da, nol_offset |-> used, taxable_income |-> taxable,
         net_income |-> net, dividends |-> Dividend(c, net),
         nol_balance |-> IF c.nol THEN CarriedForward(nol, used, ebt) ELSE 0]

(* The income statement given the interest of each month: what is built at *)
(* first and what the waterfall loop builds again.                         *)
_build_income_statement(c, interest) ==
    LET da == _compute_da_per_period(c)
        nol[t \in 0..Horizon] ==
            IF t = 0 THEN 0 ELSE IncomeRow(c, nol[t - 1], da[t], interest[t], t).nol_balance
    IN  Series(LAMBDA t : IncomeRow(c, nol[t - 1], da[t], interest[t], t))

RetainedStep(is, raised, t) == is[t].net_income - is[t].dividends + raised[t]

_accumulate_re(c, is, raised) ==
    Series(LAMBDA t : c.initial_equity + Total(LAMBDA k : RetainedStep(is, raised, k), 1..t))

(* Cash is what makes the sheet balance.                                   *)
SheetRow(c, re, accumulated, debt, waterfall_debt, t) ==
    LET ppe == Total(LAMBDA i : IF i.month <= t THEN i.amount ELSE 0, c.capex)
        ar == c.ar * c.revenue[t]
        ap == c.ap * c.cogs[t]
        inv == c.inv * c.cogs[t]
        liabilities == ap + debt.current[t] + debt.non_current[t] + waterfall_debt
    IN  [cash |-> liabilities + re - (ar + inv + ppe - accumulated),
         ar |-> ar, ap |-> ap, inv |-> inv, ppe_gross |-> ppe,
         total_liabilities |-> liabilities, total_equity |-> re]

_build_balance_sheet(c, is, debt, raised, waterfall_debt) ==
    LET re == _accumulate_re(c, is, raised)
    IN  Series(LAMBDA t : SheetRow(c, re[t], Total(LAMBDA k : is[k].da, 1..t), debt,
                                   waterfall_debt[t], t))

(* Financing is what is left of the change in cash; the lines that should  *)
(* explain it are read off the debt schedule and the income statement as   *)
(* first built: the waterfall's passes refresh the totals and not these.   *)
CashRow(c, is, declared, bs, debt, raised, t) ==
    LET line(name) == [k \in Month |-> bs[k][name]]
        opening == IF t = 1 THEN c.initial_cash ELSE bs[t - 1].cash
        operating == is[t].net_income + is[t].da - Change(line("ar"), t)
                     - Change(line("inv"), t) + Change(line("ap"), t)
        investing == -Change(line("ppe_gross"), t)
    IN  [operating |-> operating, investing |-> investing,
         opening_cash |-> opening, closing_cash |-> bs[t].cash,
         financing |-> bs[t].cash - opening - operating - investing,
         debt_draws |-> debt.draws[t], debt_repayments |-> debt.repayments[t],
         dividends_paid |-> declared[t].dividends, equity_raised |-> raised[t]]

_build_cash_flow(c, is, declared, bs, debt, raised) ==
    Series(LAMBDA t : CashRow(c, is, declared, bs, debt, raised, t))
-----------------------------------------------------------------------------
(* funding_waterfall.py.  The plugs are in the order they are drawn, that  *)
(* of their types; they are repaid only out of what this pass has drawn.   *)

Available(f, balance, t, assets) ==
    Positive((IF f.linked THEN Least(f.limit, assets[t]) ELSE f.limit) - balance)

DrawInTurn(plugs, balance, t, shortfall, assets) ==
    LET drawn(n, short) == Least(short, Available(plugs[n], balance[n], t, assets))
        left[n \in 0..Len(plugs)] ==
            IF n = 0 THEN shortfall ELSE left[n - 1] - drawn(n, left[n - 1])
    IN  Each(LAMBDA n : drawn(n, left[n - 1]), Len(plugs))

(* _sort_repay_order: the later type is repaid first; the sort is stable,  *)
(* so of one type the plug that was drawn first.                           *)
RepaidBefore(plugs, k, i) ==
    \/ plugs[k].type > plugs[i].type
    \/ plugs[k].type = plugs[i].type /\ k < i

RepayInTurn(plugs, balance, excess) ==
    Each(LAMBDA i :
        LET owed_first == Total(LAMBDA k : balance[k], {k \in DOMAIN balance : RepaidBefore(plugs, k, i)})
        IN  Least(balance[i], Positive(excess - owed_first)), Len(balance))

PassRow(plugs, balance, cash, minimum, assets, t) ==
    LET none == Each(LAMBDA i : 0, Len(plugs))
        drawn == IF cash < minimum
                 THEN DrawInTurn(plugs, balance, t, minimum - cash, assets) ELSE none
        repaid == IF cash > minimum THEN RepayInTurn(plugs, balance, cash - minimum) ELSE none
    IN  [drawn |-> drawn,
         balance |-> Each(LAMBDA i : balance[i] + drawn[i] - repaid[i], Len(plugs))]

apply_funding_waterfall(cash, plugs, minimum, assets) ==
    LET row(t, balance) == PassRow(plugs, balance, cash[t], minimum, assets, t)
        balance[t \in 0..Horizon] ==
            IF t = 0 THEN Each(LAMBDA i : 0, Len(plugs)) ELSE row(t, balance[t - 1]).balance
    IN  Series(LAMBDA t : row(t, balance[t - 1]))

Owed(pass, t) == Total(LAMBDA i : pass[t].balance[i], DOMAIN pass[t].balance)
Idle(pass) ==
    \A t \in Month : Owed(pass, t) = 0 /\ \A i \in DOMAIN pass[t].drawn : pass[t].drawn[i] = 0

(* Every pass starts from facilities with nothing drawn, and adds its debt *)
(* and interest to those of the passes before it.                          *)
_apply_waterfall_loop(c, debt, raised) ==
    LET sheet(s) ==
            LET is == _build_income_statement(c, Series(LAMBDA t : debt.interest[t] + s.interest[t]))
            IN  [is |-> is, bs |-> _build_balance_sheet(c, is, debt, raised, s.wf), wf |-> s.wf]
        pass(bs) == apply_funding_waterfall(Series(LAMBDA t : bs[t].cash), c.plugs, c.minimum,
                                            Series(LAMBDA t : bs[t].ar))
        added(s, p) == IF Idle(p) THEN [s EXCEPT !.done = TRUE]
                       ELSE [wf |-> Series(LAMBDA t : s.wf[t] + Owed(p, t)), done |-> FALSE,
                             interest |-> Series(LAMBDA t : s.interest[t] + Share(Owed(p, t)))]
        loop[n \in 0..5] ==
            IF n = 0 THEN [wf |-> Zero, interest |-> Zero, done |-> FALSE]
            ELSE LET s == loop[n - 1] IN IF s.done THEN s ELSE added(s, pass(sheet(s).bs))
    IN  sheet(loop[5])

generate_statements(c) ==
    LET debt == calculate_debt_schedule(c.facilities)
        raised == _compute_equity_raises_per_period(c, debt)
        plain == _build_income_statement(c, debt.interest)
        s == IF c.plugs # <<>> /\ c.minimum > 0 THEN _apply_waterfall_loop(c, debt, raised)
             ELSE [is |-> plain, wf |-> Zero,
                   bs |-> _build_balance_sheet(c, plain, debt, raised, Zero)]
    IN  [is |-> s.is, bs |-> s.bs, wf |-> s.wf, debt |-> debt,
         cf |-> _build_cash_flow(c, s.is, plain, s.bs, debt, raised)]
-----------------------------------------------------------------------------
(* Properties.                                                             *)

(* The schedule asks for nothing the balance cannot follow, and interest   *)
(* is paid in cash.                                                        *)
Followed(f, schedule) ==
    /\ ~f.pik
    /\ \A t \in Month : Converting(f, t) \/
         Asked(f, IF t = 1 THEN 0 ELSE schedule[t - 1].balance, t) \in 0..f.limit

(* What the code's own reconciliation cannot see, since it computes        *)
(* financing as the difference: every month the financing cash flow is the *)
(* draws less repayments plus equity less dividends (and the change in     *)
(* what the waterfall owes), and in the first month the gap between the    *)
(* opening equity and the opening cash besides.                            *)
FinancingIsExplained(c, s) ==
    (\A i \in DOMAIN c.facilities : Followed(c.facilities[i], s.debt.schedules[i])) =>
        \A t \in Month :
            s.cf[t].financing = s.cf[t].debt_draws - s.cf[t].debt_repayments
                + s.cf[t].equity_raised - s.is[t].dividends + Change(s.wf, t)
                + IF t = 1 THEN c.initial_equity - c.initial_cash ELSE 0

(* Over the months, the profits that are taxed are the profits less the    *)
(* losses but for those still carried forward: a loss is set off once,     *)
(* also after the waterfall has computed the statement again.              *)
LossesSetOffOnce(c, s) ==
    c.nol => /\ Total(LAMBDA t : s.is[t].ebt, Month)
                  = Total(LAMBDA t : s.is[t].taxable_income, Month) - s.is[Horizon].nol_balance
             /\ \A t \in Month : s.is[t].nol_balance >= 0

(* A balance stays between nothing and the limit (interest that            *)
(* capitalises may lead above it), and nothing is owed once the debt has   *)
(* become equity; current and non-current debt make up the balances, with  *)
(* no part of either negative.                                             *)
DebtHasItsBounds(c, s) ==
    /\ \A i \in DOMAIN c.facilities, t \in Month :
         LET f == c.facilities[i]
             row == s.debt.schedules[i][t]
         IN  /\ row.balance >= 0
             /\ Converting(f, t) => row.balance = 0
             /\ ~f.pik => row.balance <= f.limit
    /\ \A t \in Month :
         /\ s.debt.current[t] >= 0 /\ s.debt.non_current[t] >= 0
         /\ s.debt.current[t] + s.debt.non_current[t]
              = Total(LAMBDA i : s.debt.schedules[i][t].balance, DOMAIN c.facilities)

(* In one pass of the waterfall no facility is drawn beyond its limit, one *)
(* that comes later only when those before it are exhausted, and cash      *)
(* stays short of the minimum only when there is nothing left to draw.     *)
DrawnInOrder(cash, plugs, minimum, assets) ==
    LET pass == apply_funding_waterfall(cash, plugs, minimum, assets)
        spare(i, t) == (IF plugs[i].linked THEN Least(plugs[i].limit, assets[t])
                        ELSE plugs[i].limit) - pass[t].balance[i]
    IN \A t \in Month :
         /\ \A i \in DOMAIN plugs :
              /\ pass[t].balance[i] \in 0..plugs[i].limit
              /\ pass[t].drawn[i] > 0 => \A k \in 1..(i - 1) : spare(k, t) <= 0
         /\ \/ cash[t] + Total(LAMBDA i : pass[t].drawn[i], DOMAIN plugs) >= minimum
            \/ \A i \in DOMAIN plugs : spare(i, t) <= 0

(* In one pass of the waterfall a facility's balance falls only when those *)
(* that are to be repaid before it owe nothing.                            *)
RepaidInOrder(cash, plugs, minimum, assets) ==
    LET pass == apply_funding_waterfall(cash, plugs, minimum, assets)
    IN \A t \in Month, i, k \in DOMAIN plugs :
         t > 1 /\ pass[t].balance[i] < pass[t - 1].balance[i] /\ RepaidBefore(plugs, k, i) =>
             pass[t].balance[k] = 0

(* The dividends of the cash flow are those of the income statement (they  *)
(* are not: the loop's comment says "Recompute RE, BS, and CF with updated *)
(* IS", and dividends_paid is left as it was when a payout ratio meets a   *)
(* waterfall that changes the income).                                     *)
DividendsShown(c, s) == \A t \in Month : s.cf[t].dividends_paid = s.is[t].dividends

(* What the passes add up to stays within the limits of the plugs (it does *)
(* not: every pass of statements.py's loop starts from facilities with     *)
(* nothing drawn, test_revolver_capped_at_limit tries one pass).           *)
PlugLimitsHold(c, s) ==
    \A t \in Month : s.wf[t] <= Total(LAMBDA i : c.plugs[i].limit, DOMAIN c.plugs)
=============================================================================
