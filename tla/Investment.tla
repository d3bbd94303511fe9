----------------------------- MODULE Investment -----------------------------
(***************************************************************************)
(* The arithmetic of portfolio and investment analysis                     *)
(* (apps/api/app/services/pim/ and apps/api/app/routers/pim_peer.py):      *)
(* the economic regime, the composite investment score (CIS), the greedy   *)
(* portfolio, the walk-forward backtest, the multiples and the J-curve of  *)
(* a private equity fund and its rank among its peers.                     *)
(*                                                                         *)
(* Percentages, scores and multiples are integers, means are rounded down; *)
(* the search for the internal rate of return, correlations, deviations    *)
(* and texts written by the language model are left out.                   *)
(***************************************************************************)
EXTENDS Integers, Sequences, FiniteSets, SequencesExt

CONSTANTS None

Total(s) == FoldLeft(LAMBDA sum, x : sum + x, 0, s)

Least(x, y) == IF x < y THEN x ELSE y
Most(x, y) == IF x > y THEN x ELSE y

(***************************************************************************)
(* The regime of the economy (services/pim/regime.py).  An indicator's     *)
(* signal is "expansion", "neutral", "contraction" or "missing".           *)
(***************************************************************************)
CountOf(signals, kind) == Cardinality({i \in DOMAIN signals : signals[i] = kind})

classify_regime(signals) ==
    LET up == CountOf(signals, "expansion")
        down == CountOf(signals, "contraction")
        available == Cardinality(DOMAIN signals) - CountOf(signals, "missing")
    IN  CASE up > down /\ up * 2 > available -> "expansion"
          [] down > up /\ down * 2 > available -> "contraction"
          [] OTHER -> "transition"

(***************************************************************************)
(* The composite score (services/pim/cis.py).  A company is a record of    *)
(* raw figures, each of them possibly None; the sub-scores are percents.   *)
(***************************************************************************)
\* Faulty versions, which the properties tell from the ones below.
AvailableWeight_All(scores, weights) == Total(weights)
Indebted_Raw(ratio) == Most(0, Least(100, ratio * 5))

_clamp(x) == Most(0, Least(100, x))

\* Debt to equity in tenths: none is best, twice the equity or more is worst.
Indebted(ratio) == _clamp(100 - Least(ratio * 5, 100))

Known(s) == SelectSeq(s, LAMBDA x : x # None)

MeanKnown(s) == IF Known(s) = <<>> THEN None ELSE Total(Known(s)) \div Len(Known(s))

\* The default table: sectors that follow the cycle and sectors that resist it.
_sector_regime_alignment(sector, regime) ==
    IF sector = None \/ regime = None THEN None
    ELSE CASE sector = "technology" -> [expansion |-> 80, transition |-> 50, contraction |-> 35][regime]
           [] sector = "utilities" -> [expansion |-> 35, transition |-> 60, contraction |-> 80][regime]
           [] OTHER -> 50

_trend_to_momentum_score(trend) ==
    CASE trend = "improving" -> 75 [] trend = "stable" -> 50 [] trend = "declining" -> 25 [] OTHER -> None

_sentiment_to_score(sentiment) == IF sentiment = None THEN None ELSE (sentiment + 100) \div 2

Scaled(x, f(_)) == IF x = None THEN None ELSE f(x)

compute_factor_scores(company, regime) ==
    <<MeanKnown(<<Scaled(company.dcf_upside, LAMBDA x : _clamp(x + 50)),
                  Scaled(company.roe, LAMBDA x : _clamp(x * 5)),
                  Scaled(company.debt_to_equity, Indebted)>>),
      MeanKnown(<<Scaled(company.revenue_growth, LAMBDA x : _clamp(((x + 20) * 100) \div 40)),
                  Scaled(company.margin_change, LAMBDA x : _clamp((x + 10) * 5))>>),
      _sentiment_to_score(company.sentiment),
      _trend_to_momentum_score(company.trend),
      _sector_regime_alignment(company.sector, regime)>>

Present(scores) == SelectSeq(<<1, 2, 3, 4, 5>>, LAMBDA i : scores[i] # None)

AvailableWeight(scores, weights) ==
    Total([i \in DOMAIN Present(scores) |-> weights[Present(scores)[i]]])

\* None: the weights of the factors that are there add up to nothing, and it raises.
compute_cis(scores, weights) ==
    LET there == Present(scores)
        weight == AvailableWeight(scores, weights)
    IN  IF there = <<>> THEN 50
        ELSE IF weight = 0 THEN None
        ELSE _clamp(Total([i \in DOMAIN there |-> scores[there[i]] * weights[there[i]]]) \div weight)
-----------------------------------------------------------------------------
(***************************************************************************)
(* The greedy portfolio (services/pim/portfolio.py).  A candidate is a     *)
(* record [id, score, sector, cap]; limits a record [top_n, max_sector,    *)
(* max_weight, min_score, min_liquidity].                                  *)
(***************************************************************************)
\* Faulty versions, which the properties tell from the ones below.
Fits_Ever(s, chosen, i, limits) ==
    (Cardinality({j \in ToSet(chosen) : s[j].sector = s[i].sector}) + 1) * 100
        <= limits.max_sector * (Len(chosen) + 1)

\* The positions of s by falling score; equal scores keep their order.
ByScore(s) ==
    SetToSortSeq(DOMAIN s, LAMBDA i, j : s[i].score > s[j].score \/ (s[i].score = s[j].score /\ i < j))

eligible(candidates, limits) ==
    SelectSeq(candidates, LAMBDA c : /\ c.score >= limits.min_score
                                     /\ \/ limits.min_liquidity = None
                                        \/ c.cap = None
                                        \/ c.cap >= limits.min_liquidity)

\* One more of the sector stays within its share of the places.
Fits(s, chosen, i, limits) ==
    (Cardinality({j \in ToSet(chosen) : s[j].sector = s[i].sector}) + 1) * 100
        <= limits.max_sector * limits.top_n

selected(s, limits) ==
    LET Pick(chosen, i) == IF Len(chosen) < limits.top_n /\ Fits(s, chosen, i, limits)
                           THEN Append(chosen, i)
                           ELSE chosen
        chosen == FoldLeft(Pick, <<>>, ByScore(s))
    IN  [n \in DOMAIN chosen |-> s[chosen[n]]]

\* <<n, d>>: every holding weighs n / d of the portfolio.
WeightOf(n, limits) == IF 100 <= n * limits.max_weight
                       THEN <<1, n>>
                       ELSE <<limits.max_weight, n * limits.max_weight>>

build_portfolio(candidates, limits) ==
    LET chosen == selected(eligible(candidates, limits), limits)
    IN  [n \in DOMAIN chosen |-> [rank |-> n, id |-> chosen[n].id, score |-> chosen[n].score,
                                  sector |-> chosen[n].sector, weight |-> WeightOf(Len(chosen), limits)]]

\* The rows kept by ON CONFLICT (tenant_id, run_id, company_id) DO NOTHING.
persist_run(holdings) ==
    SelectSeq(holdings, LAMBDA h : \A g \in ToSet(holdings) : g.id = h.id => g.rank >= h.rank)
-----------------------------------------------------------------------------
(***************************************************************************)
(* The walk-forward backtest (services/pim/backtester.py).  A record is    *)
(* [date, id, score, sector, ret], ret the return after its date or None;  *)
(* a configuration [freq_days, top_n, max_sector].                         *)
(***************************************************************************)
\* Faulty versions, which the properties tell from the ones below.
LaterReturn_Last(records, next, id) ==
    LET late == SelectSeq(records, LAMBDA r : r.id = id /\ r.date >= next /\ r.ret # None)
    IN  IF late = <<>> THEN None ELSE late[Len(late)].ret

On(records, date) == SelectSeq(records, LAMBDA r : r.date = date)

Dates(records) == SetToSortSeq({records[i].date : i \in DOMAIN records}, <)

\* The return the company's record of the next date holds; of two records the later one.
LaterReturn(records, next, id) ==
    LET same == SelectSeq(On(records, next), LAMBDA r : r.id = id)
    IN  IF same = <<>> THEN None ELSE same[Len(same)].ret

ReturnOf(records, next, r) == IF r.ret # None THEN r.ret ELSE LaterReturn(records, next, r.id)

\* n times the covariance: its sign is that of the information coefficient,
\* which needs two observations that differ in score and in return.
compute_ic(scores, returns) ==
    IF Len(scores) < 2 \/ Cardinality(ToSet(scores)) = 1 \/ Cardinality(ToSet(returns)) = 1
    THEN None
    ELSE Len(scores) * Total([i \in DOMAIN scores |-> scores[i] * returns[i]])
             - Total(scores) * Total(returns)

MeanOf(returns) == IF returns = <<>> THEN 0 ELSE Total(returns) \div Len(returns)

Period(records, dates, i, config) ==
    LET today == On(records, dates[i])
        chosen == selected(today, config)
        seen == SelectSeq(chosen, LAMBDA r : ReturnOf(records, dates[i + 1], r) # None)
        returns == [n \in DOMAIN seen |-> ReturnOf(records, dates[i + 1], seen[n])]
    IN  [date |-> dates[i],
         holdings |-> [n \in DOMAIN chosen |-> chosen[n].id],
         strategy |-> MeanOf(returns),
         benchmark |-> MeanOf(Known([n \in DOMAIN today |-> today[n].ret])),
         ic |-> compute_ic([n \in DOMAIN seen |-> seen[n].score], returns)]

\* Every step-th date but the last; a date on which nothing is chosen has no period.
run_backtest(records, config) ==
    LET dates == Dates(records)
        step == Most(1, config.freq_days \div 21)
        starts == SelectSeq([i \in DOMAIN dates |-> i],
                            LAMBDA i : i < Len(dates) /\ (i - 1) % step = 0)
        periods == [n \in DOMAIN starts |-> Period(records, dates, starts[n], config)]
    IN  IF Len(dates) < 2 THEN <<>>
        ELSE SelectSeq(periods, LAMBDA p : p.holdings # <<>>)

\* In per mille of the peak.
_compute_max_drawdown(path) ==
    LET Fall(seen, x) == LET peak == Most(seen.peak, x)
                         IN  [peak |-> peak, worst |-> Most(seen.worst, ((peak - x) * 1000) \div peak)]
    IN  FoldLeft(Fall, [peak |-> path[1], worst |-> 0], path).worst

\* Net of costs (services/pim/transaction_costs.py), in basis points.
aggregate_net_return(gross, costs) ==
    FoldLeft(LAMBDA net, c : IF c.rebalances <= 0 THEN net
                             ELSE net - c.rebalances * (IF c.actual # None THEN c.actual ELSE c.estimated),
             gross, costs)
-----------------------------------------------------------------------------
(***************************************************************************)
(* Private equity (services/pim/pe_benchmarks.py, routers/pim_peer.py).    *)
(* A cash flow is [day, amount, type]; multiples are in percent.           *)
(***************************************************************************)
\* Faulty versions, which the properties tell from the ones below.
Returned_NotRecallable(flow) == flow.type = "distribution"
Span_LowTop(anchors, value) ==
    CASE value <= anchors[1] -> <<0, 0, anchors[1], 25>>
      [] value > anchors[1] /\ value <= anchors[2] -> <<anchors[1], 25, anchors[2], 50>>
      [] OTHER -> <<anchors[3], 50, IF anchors[3] > 0 THEN anchors[3] * 2 ELSE 1, 99>>

Returned(flow) == flow.type \in {"distribution", "recallable_distribution"}

parse_cash_flows(flows) ==
    LET order == SetToSortSeq(DOMAIN flows, LAMBDA i, j : \/ flows[i].day < flows[j].day
                                                          \/ flows[i].day = flows[j].day /\ i < j)
    IN  [n \in DOMAIN order |-> flows[order[n]]]

SumOf(flows, Test(_)) == Total([i \in DOMAIN flows |-> IF Test(flows[i]) THEN flows[i].amount ELSE 0])

compute_multiples(flows, nav) ==
    LET paid_in == SumOf(flows, LAMBDA f : f.type = "drawdown")
        distributed == SumOf(flows, Returned)
        value == IF nav # None /\ nav >= 0 THEN nav ELSE 0
    IN  [paid_in |-> paid_in, distributed |-> distributed,
         dpi |-> IF paid_in = 0 THEN None ELSE (distributed * 100) \div paid_in,
         tvpi |-> IF paid_in = 0 THEN None ELSE ((distributed + value) * 100) \div paid_in]

compute_j_curve(flows, commitment) ==
    IF flows = <<>> \/ commitment <= 0 THEN <<>>
    ELSE LET Next(points, f) ==
                 LET before == IF points = <<>> THEN 0 ELSE points[Len(points)].net
                 IN  Append(points, [day |-> f.day - flows[1].day,
                                     net |-> IF f.type = "drawdown" THEN before - f.amount
                                             ELSE before + f.amount])
         IN  FoldLeft(Next, <<>>, flows)

\* The signed flows whose rate of return is looked for: None when there is no
\* answer to look for.  What is held counts a year after the last flow.
compute_irr(flows, nav) ==
    LET held == nav # None /\ nav > 0
        signed == [i \in DOMAIN flows |-> [day |-> flows[i].day - flows[1].day,
                                           net |-> IF flows[i].type = "drawdown" THEN 0 - flows[i].amount
                                                   ELSE flows[i].amount]]
    IN  IF \/ \A i \in DOMAIN flows : flows[i].type # "drawdown"
           \/ ~held /\ \A i \in DOMAIN flows : ~Returned(flows[i])
        THEN None
        ELSE IF held THEN Append(signed, [day |-> signed[Len(signed)].day + 365, net |-> nav])
        ELSE signed

compute_pe_metrics(raw, commitment, nav) ==
    LET flows == parse_cash_flows(raw)
    IN  [multiples |-> compute_multiples(flows, nav), irr |-> compute_irr(flows, nav),
         j_curve |-> compute_j_curve(flows, commitment)]

\* Anchors are the quartiles <<p25, p50, p75>>; from value and percentile to value and percentile.
Span(anchors, value) ==
    CASE value <= anchors[1] -> <<0, 0, anchors[1], 25>>
      [] value > anchors[1] /\ value <= anchors[2] -> <<anchors[1], 25, anchors[2], 50>>
      [] value > anchors[2] /\ value <= anchors[3] -> <<anchors[2], 50, anchors[3], 75>>
      [] OTHER -> <<anchors[3], 75, IF anchors[3] > 0 THEN anchors[3] * 2 ELSE 1, 99>>

\* In tenths of a percentile.
_percentile_rank(value, anchors) ==
    LET s == Span(anchors, value)
        width == s[3] - s[1]
        sign == IF width < 0 THEN -1 ELSE 1
    IN  IF width = 0 THEN s[2] * 10
        ELSE Least(990, Most(0, s[2] * 10 + (sign * (value - s[1]) * (s[4] - s[2]) * 10) \div (sign * width)))

_quartile(rank) == CASE rank >= 750 -> 1
                     [] rank >= 500 /\ rank < 750 -> 2
                     [] rank >= 250 /\ rank < 500 -> 3
                     [] OTHER -> 4
-----------------------------------------------------------------------------
\* What is known of a and b is the same, and nothing known of b is worse news.
NoWorse(a, b) ==
    /\ \A field \in {"dcf_upside", "roe", "revenue_growth", "margin_change", "sentiment"} :
           IF a[field] = None THEN b[field] = None ELSE b[field] # None /\ b[field] >= a[field]
    /\ IF a.debt_to_equity = None THEN b.debt_to_equity = None
       ELSE b.debt_to_equity # None /\ b.debt_to_equity <= a.debt_to_equity
    /\ a.trend = b.trend /\ a.sector = b.sector

\* Better news about a company never lowers its score, which stays between its best
\* and its worst sub-score: one that is missing takes no part (cis.py: compute_factor_scores
\* and the weights compute_cis spreads again over what is there).
ScoreFollowsTheNews(a, b, regime, weights) ==
    LET scores == compute_factor_scores(a, regime)
        score == compute_cis(scores, weights)
        later == compute_cis(compute_factor_scores(b, regime), weights)
    IN  NoWorse(a, b) /\ score # None =>
            /\ later >= score
            /\ Present(scores) # <<>> =>
                   /\ \E n \in ToSet(Present(scores)) : score >= scores[n]
                   /\ \E n \in ToSet(Present(scores)) : score <= scores[n]

\* One more indicator that points to growth never moves the regime, and with it a
\* sector that follows the cycle, the other way (regime.py: classify_regime; cis.py:
\* _sector_regime_alignment).
RegimeFollowsTheSignals(signals, i) ==
    LET Positioned(s) == _sector_regime_alignment("technology", classify_regime(s))
    IN  Positioned([signals EXCEPT ![i] = "expansion"]) >= Positioned(signals)

\* The portfolio has no more holdings than places, no more of a sector than its share of the
\* places, none that a filter excludes, weighs one whole, and passes over a candidate that
\* may be held only for better ones, which have its places or those of its sector
\* (portfolio.py: build_portfolio).  It does not keep to max_weight_pct: PositionsAreBounded.
PortfolioIsDeserved(candidates, limits) ==
    LET held == build_portfolio(candidates, limits)
        OfSector(hs, sector) == Len(SelectSeq(hs, LAMBDA h : h.sector = sector))
        Better(c) == SelectSeq(held, LAMBDA h : h.score >= c.score)
    IN  /\ Len(held) <= limits.top_n
        /\ \A h \in ToSet(held) : OfSector(held, h.sector) * 100 <= limits.max_sector * limits.top_n
        /\ held # <<>> => Len(held) * held[1].weight[1] = held[1].weight[2]
        /\ \A h \in ToSet(held) : \E c \in ToSet(eligible(candidates, limits)) : c.id = h.id
        /\ \A c \in ToSet(eligible(candidates, limits)) :
               \/ \E h \in ToSet(held) : h.id = c.id
               \/ Len(Better(c)) = limits.top_n
               \/ (OfSector(Better(c), c.sector) + 1) * 100 > limits.max_sector * limits.top_n

\* What portfolio.py:80 says of a holding, "Maximum single-position weight", and the code does
\* not keep: weights are made to sum to one after they were cut, so that fewer holdings than
\* 1 / max_weight_pct are each above it.
PositionsAreBounded(candidates, limits) ==
    \A h \in ToSet(build_portfolio(candidates, limits)) :
        h.weight[1] * 100 <= h.weight[2] * limits.max_weight

\* The backtest looks no further than the date after the one it decides on: what it
\* makes of a prefix of the history stays when more history is added; and it holds what
\* the portfolio would have held on that date (backtester.py: run_backtest).
BacktestLooksNoFurther(records, config) ==
    LET periods == run_backtest(records, config)
        limits == [top_n |-> config.top_n, max_sector |-> config.max_sector, max_weight |-> 100,
                   min_score |-> 0, min_liquidity |-> None]
        HeldOn(date) == LET held == build_portfolio(On(records, date), limits)
                        IN  [n \in DOMAIN held |-> held[n].id]
    IN  /\ \A date \in ToSet(Dates(records)) :
               IsPrefix(run_backtest(SelectSeq(records, LAMBDA r : r.date <= date), config), periods)
        /\ \A n \in DOMAIN periods : periods[n].holdings = HeldOn(periods[n].date)

\* The multiples, the J-curve and the flows the rate of return is computed from tell one
\* story: the curve ends at what was returned less what was paid in, the flows add up to
\* that and what is still held (pe_benchmarks.py: compute_multiples, compute_j_curve,
\* compute_irr, each of which sorts flows into paid and returned by itself).
FundFiguresAgree(raw, commitment, nav) ==
    LET metrics == compute_pe_metrics(raw, commitment, nav)
        net == metrics.multiples.distributed - metrics.multiples.paid_in
    IN  /\ raw # <<>> => metrics.j_curve[Len(raw)].net = net
        /\ metrics.irr # None =>
               Total([i \in DOMAIN metrics.irr |-> metrics.irr[i].net])
                   = net + (IF nav # None /\ nav > 0 THEN nav ELSE 0)

\* Of two funds the one with the higher figure never ranks lower (pim_peer.py:
\* _percentile_rank, _quartile).  Not so below a 25th percentile that is negative, as
\* that of a rate of return may be: the ranks rise from it downwards.
HigherRanksHigher(anchors, v, w) ==
    v <= w => /\ _percentile_rank(v, anchors) <= _percentile_rank(w, anchors)
              /\ _quartile(_percentile_rank(v, anchors)) >= _quartile(_percentile_rank(w, anchors))

\* What holds: it is so unless the lower fund lies below a negative 25th percentile.
RankKeepsOrder(anchors, v, w) ==
    anchors[1] >= 0 \/ anchors[1] < v => HigherRanksHigher(anchors, v, w)
=============================================================================
