------------------------------ MODULE Analysis ------------------------------
(***************************************************************************)
(* What is computed around a run: Monte Carlo simulation, sweeps, heat     *)
(* maps and the tornado chart (shared/fm_shared/analysis, routers/runs.py), *)
(* valuation, key figures and the covenants checked on them (model/kpis.py, *)
(* db/covenants.py).  The drivers and their overrides are those of         *)
(* ModelEngine.                                                            *)
(*                                                                         *)
(* A model's answer is abstracted to what the figures here need: a         *)
(* simulation answers the value of its drivers, a sweep a metric that      *)
(* tells its parameters apart, a run's cash flow the sum of its drivers.   *)
(* Random numbers and discount factors are inputs.  Ratios are in percent. *)
(***************************************************************************)
EXTENDS ModelEngine

CONSTANT MonthsPerYear   \* 12 in the code

SumOver(F(_), n) == SumFunctionOnSet([i \in 1..n |-> F(i)], 1..n)
-----------------------------------------------------------------------------
(* Faulty versions, which the properties tell from the ones below. *)

InOrder_ScenarioFirst(sampled, scenario) == scenario \o sampled
CellIndex_ByColumn(i, j, rows, columns) == (j - 1) * rows + i
Projected_All(series, years) == Len(series)
_is_breach_Within(actual, operator, threshold) ==
    IF operator \in {"<", "<="} THEN actual <= threshold ELSE actual >= threshold
BaseFcf_Stale(drivers, scenario) == 0
-----------------------------------------------------------------------------
(* monte_carlo.py, distributions.py                                        *)

(* The factor of a positive definite correlation of two, in tenths; None   *)
(* stands for the LinAlgError, which a correlation of 1 or -1 raises too.  *)
Cholesky(rho) ==
    CASE rho \in {-10, 10} -> None
      [] rho \in {-6, 6} -> <<rho, 8>>
      [] OTHER -> <<rho, 10>>

(* A draw z in tenths of a standard deviation around the mean.  The other  *)
(* families draw by other formulas, which nothing here tells apart.         *)
sample(dist, z) == dist.mean + (dist.std * z) \div 10

sample_correlated(dists, rho, z) ==
    LET factor == Cholesky(rho)
        y == IF factor = None THEN z ELSE <<z[1], (factor[1] * z[1] + factor[2] * z[2]) \div 10>>
    IN  [i \in DOMAIN dists |-> sample(dists[i], y[i])]

Value(ref, v) == [ref |-> ref, field |-> "value", value |-> v]

_prepare_sim_args(dists, rho, z) ==
    IF rho # None /\ Len(dists) > 1
       THEN [i \in DOMAIN dists |-> Value(dists[i].ref, sample_correlated(dists, rho, z)[i])]
       ELSE [i \in DOMAIN dists |-> Value(dists[i].ref, sample(dists[i], z[i]))]

InOrder(sampled, scenario) == sampled \o scenario

(* One simulation answers the value of each driver once every override of  *)
(* its reference has been applied, in turn.                                *)
_run_single_sim(drivers, sampled, scenario) ==
    [ref \in DOMAIN drivers |->
        ApplyOverrides(drivers[ref], SelectSeq(InOrder(sampled, scenario), LAMBDA ov : ov.ref = ref))]

(* The progress told, each with the simulations that were done by then: a  *)
(* sequential run tells of a simulation before it runs it.                 *)
Reports(n, parallel) ==
    LET every == IF n \div 20 > 1 THEN n \div 20 ELSE 1
        told == SelectSeq([i \in 1..n |-> i], LAMBDA i : i % every = 0)
    IN  [k \in DOMAIN told |-> [told |-> told[k], done |-> IF parallel THEN told[k] ELSE told[k] - 1]]
        \o <<[told |-> n, done |-> n]>>

run_monte_carlo(drivers, dists, rho, draws, scenario, parallel) ==
    [sims |-> [s \in DOMAIN draws |->
                  _run_single_sim(drivers, _prepare_sim_args(dists, rho, draws[s]), scenario)],
     progress |-> Reports(Len(draws), parallel)]
-----------------------------------------------------------------------------
(* sensitivity.py: a configuration maps each of its paths to a number, or  *)
(* to None if it is frozen; any other path is denied or missing.           *)

Settable(config, path) == path \in DOMAIN config /\ config[path] # None

_set_nested(config, path, v) == [config EXCEPT ![path] = v]

(* Any metric that tells its parameters apart.                             *)
_extract_metric(config) == 7 * config["a"] + config["b"] + config["a"] * config["b"]

Steps(low, high, n) == [i \in 1..n |-> low + ((i - 1) * (high - low)) \div (n - 1)]

(* None stands for the error the router answers with 400.                  *)
run_sensitivity(config, path, low, high, steps) ==
    IF ~Settable(config, path) THEN None
    ELSE [values |-> Steps(low, high, steps),
          metric_values |-> [i \in 1..steps |->
              _extract_metric(_set_nested(config, path, Steps(low, high, steps)[i]))]]

Cell(config, a, va, b, vb) == _extract_metric(_set_nested(_set_nested(config, a, va), b, vb))

_run_heatmap_sequential(config, a, values_a, b, values_b) ==
    [i \in DOMAIN values_a |-> [j \in DOMAIN values_b |-> Cell(config, a, values_a[i], b, values_b[j])]]

(* In a pool the cells are one list, row after row, cut up again after.    *)
CellIndex(i, j, rows, columns) == (i - 1) * columns + j

InPool(config, a, values_a, b, values_b) ==
    LET rows == Len(values_a)
        columns == Len(values_b)
        flat == [k \in 1..(rows * columns) |->
                    Cell(config, a, values_a[(k - 1) \div columns + 1], b, values_b[((k - 1) % columns) + 1])]
    IN  [i \in 1..rows |-> [j \in 1..columns |-> flat[CellIndex(i, j, rows, columns)]]]

_PARALLEL_THRESHOLD == 4

run_heatmap(config, a, range_a, b, range_b, breaks) ==
    LET values_a == Steps(range_a[1], range_a[2], range_a[3])
        values_b == Steps(range_b[1], range_b[2], range_b[3])
    IN  IF ~Settable(config, a) \/ ~Settable(config, b) THEN None
        ELSE IF range_a[3] * range_b[3] >= _PARALLEL_THRESHOLD /\ ~breaks
                THEN InPool(config, a, values_a, b, values_b)
                ELSE _run_heatmap_sequential(config, a, values_a, b, values_b)

(* The tornado chart: the cash flow the run stored, which its scenario is  *)
(* part of, against runs without a scenario that scale one driver each.    *)
Fcf(drivers) == MapThenSumSet(LAMBDA ref : drivers[ref].value, DOMAIN drivers)
Plain(drivers, overrides) == _run_single_sim(drivers, overrides, <<>>)
BaseFcf(drivers, scenario) == Fcf(Plain(drivers, scenario))

get_run_sensitivity(drivers, scenario, ref, by) ==
    LET scaled(m) == Fcf(Plain(drivers, <<[ref |-> ref, field |-> "multiplier", value |-> m]>>))
    IN  [impact_low |-> BaseFcf(drivers, scenario) - scaled(1 - by),
         impact_high |-> scaled(1 + by) - BaseFcf(drivers, scenario)]
-----------------------------------------------------------------------------
(* valuation.py                                                            *)

Projected(series, years) ==
    IF years = 0 \/ Len(series) < years * MonthsPerYear THEN Len(series) ELSE years * MonthsPerYear

(* What the last year of a series comes to, scaled up if it is shorter.    *)
Annual(series) ==
    LET n == Len(series)
        months == IF n < MonthsPerYear THEN n ELSE MonthsPerYear
    IN  (MonthsPerYear * SumOver(LAMBDA i : series[n - months + i], months)) \div months

(* The discount of the month t and of the end of the projection are given. *)
(* With growth as high as the discount rate and no multiple there is no    *)
(* terminal value; an exit multiple counts all of the EBITDA series.       *)
TerminalValue(fcf, ebitda, cfg) ==
    IF cfg.growth # None /\ cfg.wacc > cfg.growth
       THEN (Annual(fcf) * (100 + cfg.growth)) \div (cfg.wacc - cfg.growth)
    ELSE IF cfg.multiple # None /\ cfg.multiple > 0
       THEN cfg.multiple * Annual(IF ebitda # <<>> THEN ebitda ELSE fcf)
    ELSE 0

dcf_valuation(series, ebitda, cfg, discount) ==
    LET n == Projected(series, cfg.years)
        fcf == SubSeq(series, 1, n)
    IN  IF series = <<>> \/ cfg.wacc <= 0 THEN 0
        ELSE SumOver(LAMBDA t : series[t] * discount[t], n) + TerminalValue(fcf, ebitda, cfg) * discount[n]

(* The enterprise values the comparables imply; a price-earnings multiple  *)
(* implies one of a profit only.                                           *)
Implied(metrics, comparables) ==
    UNION {{metrics[m] * c[m] : m \in {x \in DOMAIN c : c[x] # None /\ metrics[x] # 0
                                                        /\ (x = "p_e" => metrics[x] > 0)}} : c \in comparables}
multiples_valuation(metrics, comparables) ==
    LET evs == Implied(metrics, comparables)
    IN  IF evs = {} THEN <<0, 0>> ELSE <<Min(evs), Max(evs)>>
-----------------------------------------------------------------------------
(* kpis.py and db/covenants.py: the ratios a covenant is most often about. *)

Percent(a, b) == IF b > 0 THEN (100 * a) \div b ELSE (100 * (0 - a)) \div (0 - b)

calculate_kpis(s) ==
    LET debt == s.debt_current + s.debt_non_current
        current == IF s.current_liabilities # 0 THEN s.current_liabilities ELSE s.payables
        service == s.interest + s.repaid
    IN  [current_ratio |-> IF current = 0 THEN 0 ELSE Percent(s.current_assets, current),
         debt_equity |-> IF s.equity = 0 \/ debt = 0 THEN None ELSE Percent(debt, s.equity),
         dscr |-> IF service = 0 THEN None ELSE Percent(s.ebitda, service),
         roe |-> IF s.equity = 0 THEN 0 ELSE Percent(s.income, s.equity)]

_is_breach(actual, operator, threshold) ==
    CASE operator = "<" -> actual >= threshold
      [] operator = ">" -> actual <= threshold
      [] operator = "<=" -> actual > threshold
      [] operator = ">=" -> actual < threshold

(* The covenants the last period breaks; an unknown ratio breaks none.     *)
check_covenants(kpis, definitions) ==
    LET last == kpis[Len(kpis)]
    IN  IF kpis = <<>> THEN {}
        ELSE {d \in definitions : last[d.metric_ref] # None
                                  /\ _is_breach(last[d.metric_ref], d.operator, d.threshold_value)}
-----------------------------------------------------------------------------
(* Every simulation runs the scenario it was asked for over its own draws: *)
(* a driver the scenario sets has the scenario's value whatever was drawn, *)
(* one it scales has its draw scaled, and the simulations come in the      *)
(* order of their draws, in a pool or not.  What is told of the progress   *)
(* never runs back, ends with the whole, and is ahead of the work by one   *)
(* simulation at most.                                                     *)
SimulationsFollowTheScenario(drivers, dists, rho, draws, scenario, parallel) ==
    LET result == run_monte_carlo(drivers, dists, rho, draws, scenario, parallel)
        of(ref, field) == SelectSeq(scenario, LAMBDA ov : ov.ref = ref /\ ov.field = field)
        drawn(s, ref) == LET i == CHOOSE i \in DOMAIN dists : dists[i].ref = ref
                         IN  sample_correlated(dists, IF rho = None THEN 0 ELSE rho, draws[s])[i]
    IN  /\ \A s \in DOMAIN draws, ref \in {dists[i].ref : i \in DOMAIN dists} :
              /\ of(ref, "value") # <<>> /\ of(ref, "multiplier") = <<>>
                 => result.sims[s][ref].value = of(ref, "value")[Len(of(ref, "value"))].value
              /\ of(ref, "value") = <<>>
                 => result.sims[s][ref].value = FoldLeft(LAMBDA acc, ov : acc * ov.value,
                                                        drawn(s, ref), of(ref, "multiplier"))
        /\ \A i, j \in DOMAIN result.progress :
              /\ i < j => result.progress[i].told <= result.progress[j].told
              /\ result.progress[i].told - result.progress[i].done \in {0, 1}
              /\ i = Len(result.progress) => result.progress[i].told = Len(draws)

(* A heat map's row i and column j show the metric at the i-th value of    *)
(* the first parameter and the j-th of the second, whether its cells were  *)
(* computed one by one, in a pool, or again after the pool broke; a sweep  *)
(* is the row of a map that varies the same parameter only.                *)
MatrixIsItsCells(config, a, range_a, b, range_b, breaks) ==
    LET matrix == run_heatmap(config, a, range_a, b, range_b, breaks)
        sweep == run_sensitivity(config, b, range_b[1], range_b[2], range_b[3])
    IN  matrix # None =>
            /\ matrix = _run_heatmap_sequential(config, a, Steps(range_a[1], range_a[2], range_a[3]),
                                                b, Steps(range_b[1], range_b[2], range_b[3]))
            /\ range_a[1] = config[a] => matrix[1] = sweep.metric_values

(* The tornado chart of a run without a scenario is centred on the run: a  *)
(* constant driver moves the cash flow as far down as up, by its share of  *)
(* it, and any other driver does not move it.                              *)
TornadoIsCentred(drivers, scenario, ref, by) ==
    LET chart == get_run_sensitivity(drivers, scenario, ref, by)
    IN  /\ chart.impact_low = chart.impact_high
        /\ chart.impact_high = IF drivers[ref].value_type = "constant" THEN by * drivers[ref].value ELSE 0

(* What happens after the projected years has no part in a valuation by    *)
(* perpetual growth, and more cash in a projected month never lowers it.   *)
OnlyProjectedMonthsCount(series, ebitda, cfg, discount, t) ==
    LET more == [series EXCEPT ![t] = @ + 1]
        before == dcf_valuation(series, ebitda, cfg, discount)
        after == dcf_valuation(more, ebitda, cfg, discount)
    IN  cfg.growth # None /\ cfg.wacc > cfg.growth =>
            IF cfg.years > 0 /\ t > cfg.years * MonthsPerYear THEN after = before ELSE after >= before

(* The range a valuation by multiples answers holds every enterprise value *)
(* the comparables imply.                                                  *)
RangeHoldsTheImplied(metrics, comparables) ==
    LET range == multiples_valuation(metrics, comparables)
    IN  \A ev \in Implied(metrics, comparables) : range[1] <= ev /\ ev <= range[2]

(* With positive equity a company cannot borrow its way out of a breach: a *)
(* limit on leverage that is broken stays broken with more debt, a floor   *)
(* on debt service cover that is broken stays broken with less EBITDA.     *)
MoreDebtNeverCures(s, more, operator, limit) ==
    LET leverage == [metric_ref |-> "debt_equity", operator |-> operator, threshold_value |-> limit]
        cover == [metric_ref |-> "dscr", operator |-> IF operator = "<" THEN ">" ELSE ">=", threshold_value |-> limit]
        worse == [s EXCEPT !.debt_non_current = @ + more, !.ebitda = @ - more]
    IN  s.equity > 0 =>
            \A d \in {leverage, cover} :
                /\ check_covenants(<<calculate_kpis(s)>>, {d}) # {}
                   => check_covenants(<<calculate_kpis(worse)>>, {d}) # {}
                /\ calculate_kpis(s)[d.metric_ref] # None
                   => (check_covenants(<<calculate_kpis(s)>>, {d}) = {})
                      = (CASE d.operator = "<" -> calculate_kpis(s).debt_equity < limit
                           [] d.operator = "<=" -> calculate_kpis(s).debt_equity <= limit
                           [] d.operator = ">" -> calculate_kpis(s).dscr > limit
                           [] d.operator = ">=" -> calculate_kpis(s).dscr >= limit)

(* A limit on leverage is broken by a company whose equity is gone.  It is  *)
(* not: the ratio is negative, or unknown when the equity is nought.       *)
NoEquityIsABreach(s, limit) ==
    s.equity <= 0 /\ s.debt_current + s.debt_non_current > 0 =>
        check_covenants(<<calculate_kpis(s)>>,
            {[metric_ref |-> "debt_equity", operator |-> "<=", threshold_value |-> limit]}) # {}

=============================================================================
