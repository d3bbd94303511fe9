----------------------------- MODULE MCFigures -----------------------------
(***************************************************************************)
(* The pure calculations for TLC: each behaviour is one step that picks a  *)
(* calculation, which part names, and one of its inputs.  The properties   *)
(* of the modules are then properties of every step.                       *)
(***************************************************************************)
EXTENDS Statements, TLC

CONSTANTS SampleRows, MonthsPerYear, Dims, N_LEVELS

VARIABLES
    part,
    case            \* the input

vars == <<part, case>>

Engine   == INSTANCE Analysis
Group    == INSTANCE Consolidation
Trial    == INSTANCE TrialBalances
Workbook == INSTANCE ExcelWorkbook
Export   == INSTANCE PackExport
Invest   == INSTANCE Investment
Chain    == INSTANCE Markov

Check(calculation, input) == part' = calculation /\ case' = input

UpTo(S, n) == UNION {[1..k -> S] : k \in 0..n}
-----------------------------------------------------------------------------
(* Statements, debt and the waterfall of new draws.                        *)
Some(S) == [Month -> S]
In(t, n) == [k \in Month |-> IF k = t THEN n ELSE 0]
Same(n) == [k \in Month |-> n]

Facility == [limit : {3, 6}, pik : BOOLEAN, grace : {0, 1}, converts : {None, 1, 2},
             draws : Some({0, 4}), repays : {Zero, In(1, 1), In(2, 2)}]
Loan == [limit |-> 6, pik |-> FALSE, grace |-> 0, converts |-> None, draws |-> In(1, 4), repays |-> In(2, 2)]
\* In the order they are drawn: a revolver, and another or an overdraft.
Plug == [limit : {2, 5}, linked : BOOLEAN, type : {0, 3}]
Plugs == {<<p>> : p \in {q \in Plug : q.type = 0}}
         \cup {<<p, q>> : p \in {r \in Plug : r.type = 0}, q \in Plug}
Purchase == [month |-> 2, life |-> 2, amount |-> 6]

Model == [revenue |-> Zero, cogs |-> Zero, opex |-> Zero, capex |-> {}, ar |-> 1, ap |-> 1, inv |-> 1,
          facilities |-> <<>>, raise |-> None, raised |-> 4, dividends |-> None, nol |-> TRUE,
          initial_equity |-> 3, initial_cash |-> 1, plugs |-> <<>>, minimum |-> 0]

PickDebt == \E f \in Facility, dividends \in {None, "payout_ratio"}, revenue \in {Zero, In(2, 9)} :
    Check("debt", [Model EXCEPT !.facilities = <<f>>, !.dividends = dividends, !.revenue = revenue])

PickStatements ==
    \E revenue \in {Zero, In(1, 8), In(2, 8), Same(8)}, opex \in {Zero, In(1, 5), In(3, 5), Same(5)},
       capex \in {{}, {Purchase}}, dividends \in {None, "payout_ratio", "fixed_amount"}, nol \in BOOLEAN,
       plugs \in {<<>>} \cup Plugs :
    Check("statements",
        [Model EXCEPT !.revenue = revenue, !.cogs = [t \in Month |-> Share(revenue[t])], !.opex = opex,
                      !.capex = capex, !.dividends = dividends, !.nol = nol, !.plugs = plugs, !.minimum = 2,
                      !.facilities = <<Loan>>, !.raise = IF capex = {} THEN None ELSE 2])

PickWaterfall == \E cash \in Some({-4, 0, 1, 3, 8}), plugs \in Plugs, ar \in Some({1, 4}) :
    Check("waterfall", <<cash, plugs, 2, ar>>)

StatementsFit(calculation, c) ==
    /\ calculation \in {"debt", "statements"} =>
           \A out \in {generate_statements(c)} :
               /\ FinancingIsExplained(c, out)
               /\ LossesSetOffOnce(c, out)
               /\ calculation = "debt" => DebtHasItsBounds(c, out)
    /\ calculation = "waterfall" => /\ DrawnInOrder(c[1], c[2], c[3], c[4])
                                    /\ RepaidInOrder(c[1], c[2], c[3], c[4])

(* The statements hang together (Statements.tla).                          *)
StatementsHold == [][\A c \in {case'} : StatementsFit(part', c)]_vars
-----------------------------------------------------------------------------
(* The engine and the analyses run on it.                                  *)
Node == {"a", "b", "c"}
Named == Node \cup {"x"}

PickGraph ==
    \E nodes \in {<<"a", "b", "c">>, <<"c", "b", "a">>},
       edges \in UNION {kSubset(k, (Named \X Named) \ {<<n, n>> : n \in {"a", "b", "x"}}) : k \in 0..3},
       formula \in {("b" :> {"a"}) @@ ("c" :> {"a", "b"}), ("b" :> {"drv"}) @@ ("c" :> {"b"}),
                    ("b" :> {}) @@ ("c" :> {"b", "y"})} :
    Check("graph", [nodes |-> nodes, edges |-> edges, driver |-> ("a" :> 5), formula |-> formula,
                    refs |-> ("drv" :> "a")])

Point == [month : 1..5, value : {2, 7}]
PickSchedule ==
    \E points \in UNION {[1..n -> Point] : n \in 1..2}, last \in {<<>>, <<[month |-> 3, value |-> 4]>>},
       type \in {"ramp", "step"}, linear \in BOOLEAN, t \in 0..6 :
    Check("schedule", <<[schedule |-> points \o last, value_type |-> type, linear |-> linear, value |-> 1], t>>)

PickRamp == \E launch \in {0, 2, None}, months \in 0..3, curve \in {"linear", "s_curve", "step"}, t \in 0..6 :
    Check("ramp", <<[launch_month |-> launch, ramp_up_months |-> months, ramp_curve |-> curve], t>>)

Driver(type, value) == [value_type |-> type, value |-> value, schedule |-> <<>>]
Override(r) == [ref : {r}, field : {"value", "multiplier"}, value : {2, 3}]
PickSimulations ==
    \E scenario \in {<<>>} \cup {<<o>> : o \in Override("x")} \cup {<<o, p>> : o \in Override("x"), p \in Override("y")},
       rho \in {None, 0, 6, -6, 10}, odd \in {<<-10, 10>>, <<0, 20>>}, even \in {<<10, 10>>, <<30, 0>>},
       parallel \in BOOLEAN, n \in {2, 3, 45}, type \in {"constant", "ramp"} :
    Check("simulations",
        [drivers |-> [r \in {"x", "y"} |-> Driver(type, 4)],
         dists |-> <<[ref |-> "x", mean |-> 10, std |-> 2], [ref |-> "y", mean |-> 5, std |-> 1]>>,
         rho |-> rho, draws |-> [s \in 1..n |-> IF s % 2 = 1 THEN odd ELSE even],
         scenario |-> scenario, parallel |-> parallel])

PickHeatmap ==
    \E va, vb \in {1, 2}, a \in {"a", "b"}, b \in {"a", "b", "c", "d"}, low \in {0, 1}, high, wide \in {7, 13},
       na, nb \in 2..3, breaks \in BOOLEAN :
    Check("heatmap", <<("a" :> va) @@ ("b" :> vb) @@ ("c" :> None), a, <<low, high, na>>, b, <<0, wide, nb>>, breaks>>)

PickTornado == \E type, other \in {"constant", "ramp"}, v, w \in {0, 5}, by \in {1, 2}, r \in {"x", "y"} :
    Check("tornado", <<("x" :> Driver(type, v)) @@ ("y" :> Driver(other, w)), <<>>, r, by>>)

Discount == [t \in 1..6 |-> 20 - t]
PickValuation ==
    \E flows \in UNION {[1..n -> {-3, 0, 5}] : n \in 1..4}, ebitda \in {<<>>, <<1, 2, 3>>}, growth \in {None, 2, 12},
       multiple \in {None, 3}, years \in 0..2, wacc \in {0, 10} : \E t \in DOMAIN flows :
    Check("valuation", <<flows, ebitda, [growth |-> growth, multiple |-> multiple, wacc |-> wacc, years |-> years], t>>)

PickMultiples == \E metrics \in [{"ev", "p_e"} -> {-4, 0, 3}] :
    \E companies \in UNION {kSubset(k, [{"ev", "p_e"} -> {None, 2, 5}]) : k \in 0..2} :
    Check("multiples", <<metrics, companies>>)

Kpis == [debt_current : {0, 2}, debt_non_current : {0, 3}, current_liabilities : {0}, payables : {1}, interest : {0, 1},
         repaid : {0, 2}, current_assets : {4}, equity : {-2, 0, 1, 5}, ebitda : {-2, 3, 6}, income : {1}]
PickCovenant == \E k \in Kpis, more \in 0..3, op \in {"<", "<="}, limit \in {0, 40, 100, 300} :
    Check("covenant", <<k, more, op, limit>>)

AnalysesFit(calculation, c) ==
    /\ calculation = "graph" => Engine!FollowsTheBlueprint(c)
    /\ calculation = "schedule" => Engine!StaysBetweenPoints(c[1], c[2])
    /\ calculation = "ramp" => Engine!RampsUp(c[1], c[2])
    /\ calculation = "simulations" => Engine!SimulationsFollowTheScenario(
                                    c.drivers, c.dists, c.rho, c.draws, c.scenario, c.parallel)
    /\ calculation = "heatmap" => Engine!MatrixIsItsCells(c[1], c[2], c[3], c[4], c[5], c[6])
    /\ calculation = "tornado" => Engine!TornadoIsCentred(c[1], c[2], c[3], c[4])
    /\ calculation = "valuation" => Engine!OnlyProjectedMonthsCount(c[1], c[2], c[3], Discount, c[4])
    /\ calculation = "multiples" => Engine!RangeHoldsTheImplied(c[1], c[2])
    /\ calculation = "covenant" => Engine!MoreDebtNeverCures(c[1], c[2], c[3], c[4])

(* Models and analyses compute what they promise (ModelEngine.tla,         *)
(* Analysis.tla).                                                          *)
AnalysesHold == [][\A c \in {case'} : AnalysesFit(part', c)]_vars
-----------------------------------------------------------------------------
(* Consolidation of a group.                                               *)
Statement == [is : [net_income : {100, -200}, revenue : {300}], bs : [assets : {600}, equity : {100, 500}]]
Member == {[currency |-> c, ownership_pct |-> p, method |-> m, is |-> s.is, bs |-> s.bs] :
             c \in {"USD", "GBP"}, p \in {60, 100}, s \in Statement,
             m \in {"full", "proportional", "equity_method", "not_consolidated"}}
Rates == {<<>>} \cup {[p \in {pair} |-> 2] : pair \in {<<"GBP", "USD">>, <<"USD", "GBP">>}}
PickGroup == \E a, b \in Member, average, closing \in Rates : Check("group", <<<<a, b>>, average, closing>>)

Link == [kind : {"management_fee", "royalty", "trade", "dividend", "loan"}, amount : {0, 100, 1200},
         frequency : {"monthly", "annual"}, withholding : BOOLEAN]
PickLinks == \E a, b \in Link, granularity \in {"monthly", "quarterly", "annual"} :
    Check("links", <<<<a, b>>, granularity>>)

PickTree == \E roots \in SUBSET Node, owned \in SUBSET {p \in Node \X Node : p[1] # p[2]} : \E pct \in [owned -> {40, 70}] :
    Check("tree", [entities |-> Node, roots |-> roots, owned |-> pct, first |-> "b"])

ConsolidationFits(calculation, c) ==
    /\ calculation = "group" => Group!ParentsPartCountedOnce(c[1], c[2], c[3], "USD")
    /\ calculation = "links" => Group!EliminatedOnce(c[1], c[2], 10)
    /\ calculation = "tree" => Group!TreeShowsWhatIsOwned(c)

(* A group's figures are those of its members (Consolidation.tla).         *)
ConsolidationHolds == [][\A c \in {case'} : ConsolidationFits(part', c)]_vars
-----------------------------------------------------------------------------
(* What is read from documents, and written to them.                       *)
Heading == {<<"name", "debit", "credit">>, <<"name", "balance", "balance">>, <<"gl_code", "name", "debit">>,
            <<"name", "balance", "debit">>, <<"other", "debit", "credit">>}
Row == [label : {"account", "total", "grand total", "blank"},
        cells : {<<1, 5, 2>>, <<1, None, 3>>, <<1, -4>>, <<None, 2, 7>>}]
PickTrialBalance == \E heading \in Heading, titles \in {0, 2, 5}, rows \in UpTo(Row, 2) :
    Check("trial", [heading |-> heading, titles |-> titles, rows |-> rows])

PickPdf == \E headings \in UpTo(BOOLEAN, 6) :
    Check("pdf", [i \in DOMAIN headings |-> [heading |-> headings[i], id |-> i]])

PickAccounts == \E p, q, r \in DOMAIN Trial!ACCOUNT_PATTERNS, x \in {-3, 2}, y \in {-1, 0, 2} :
    Check("accounts", <<[name |-> p, net |-> x], [name |-> q, net |-> y], [name |-> r, net |-> -(x + y)]>>)

Benchmark == [median : {4}, std : {0, 2, 4}, p25 : {3}, p75 : {3, 5}]
PickFlags == \E a, b \in {-3, 0, 3, 4, 6, 8, 11, 20}, x, y \in Benchmark :
    Check("flags", [values |-> <<a, b>>, benches |-> <<x, y>>])

PickTable == \E piped \in BOOLEAN, n \in 1..2, m \in 1..3 :
    Check("table", [piped |-> piped, heading |-> [i \in 1..m |-> i],
                    body |-> [r \in 1..n |-> [i \in 1..m |-> 10 * r + i]]])

Repeated(n, r) == [i \in 1..n |-> r]
Body == ({"text", "blank"} \X {"num", "blank", "calc", "link"}) \cup {<<"calc", "calc">>, <<"link", "link">>}
PickSheet ==
    \E blank \in 0..1, heading \in Workbook!Cell \X Workbook!Cell, n \in {0, 1, 3, 6}, row \in Body,
       more \in {<<>>, <<<<"text", "num">>>>, <<<<"blank", "link">>>>} :
    Check("sheet", Repeated(blank, <<"blank", "blank">>) \o <<heading>> \o Repeated(n, row) \o more)

PickMapping == \E mapping \in UpTo(Workbook!MappingItem, 3) : Check("mapping", mapping)

Section == {"income_statement", "kpi_dashboard", "pe_portfolio", "benchmark", "appendix"}
PickExport ==
    \E order \in UpTo(Section, 3), status \in {"ready", "draft"}, currency \in {None, "USD", "EUR"},
       rates \in {{}, {[from |-> 1, rate |-> 3]}}, benchmark, has_benchmark, has_funds \in BOOLEAN, n \in 0..1 :
    Check("export", <<
        [section_order |-> order, status |-> status, base |-> "USD",
         statements |-> [i \in 1..n |-> [period_index |-> i, revenue |-> i, cash |-> 4]],
         kpis |-> [i \in 1..n |-> [period_index |-> i, current_ratio |-> 2, fcf |-> i]], periods |-> [i \in 1..n |-> i],
         benchmarks |-> IF has_benchmark THEN <<"dscr">> ELSE <<>>, pe_summary |-> IF has_funds THEN 1 ELSE None],
        rates, currency, benchmark>>)

Amounts == [period_index : {1}, revenue : {-2, 0, 3}, cash : {5, 7}]
PickScale == \E a, b \in Amounts, rate \in {0, 1, 3} : Check("scale", <<<<a, b>>, rate>>)

RateCall == [op : {"add", "delete"}, from : 1..3, rate : {2, 5}]
PickRates == \E calls \in UpTo(RateCall, 3), day \in 0..4 : Check("rates", <<calls, day>>)

DocumentsFit(calculation, c) ==
    /\ calculation = "trial" => Trial!ReadAsWritten(c)
    /\ calculation = "pdf" => Trial!EachLineInItsSection(c)
    /\ calculation = "accounts" => Trial!RatiosOfABalance(c)
    /\ calculation = "flags" => Trial!FlaggedOnceWorstFirst(c.values, c.benches)
    /\ calculation = "table" => Trial!PlainTablesKeepTheirCells(c)
    /\ calculation = "sheet" => Workbook!ToldAsItIs(c)
    /\ calculation = "mapping" => Workbook!NothingMappedIsLost(c)
    /\ calculation = "export" => Export!FormatsTellTheSame(c[1], c[2], c[3], c[4])
    /\ calculation = "scale" => Export!AmountsKeepTheirProportions(c[1], c[2])
    /\ calculation = "rates" => Export!LastWordCounts(c[1], c[2])

(* Documents say what the data say (TrialBalances.tla, ExcelWorkbook.tla,  *)
(* PackExport.tla).                                                        *)
DocumentsHold == [][\A c \in {case'} : DocumentsFit(part', c)]_vars

(* What the writer of documents says of itself, "parse a markdown table    *)
(* and add it to the DOCX document": a cell stands under its heading.  In  *)
(* tables with outer pipes an empty cell comes first (TrialBalances.tla).  *)
CellsUnderTheirHeading == part = "table" => Trial!CellsUnderTheirHeading(case)
-----------------------------------------------------------------------------
(* Scores, portfolios, backtests, funds and the chain of states.           *)
Company == [dcf_upside : {None, -60, 10}, roe : {None, 12}, debt_to_equity : {None, 5, 30}, revenue_growth : {None, 4},
            margin_change : {None}, sentiment : {None, -50, 50}, trend : {None, "improving"}, sector : {None, "utilities"}]
Better(a) == {[a EXCEPT !.dcf_upside = IF @ = None THEN None ELSE 10],
              [a EXCEPT !.debt_to_equity = IF @ = None THEN None ELSE 5],
              [a EXCEPT !.sentiment = IF @ = None THEN None ELSE 50]}
PickScore == \E a \in Company, regime \in {"expansion", "contraction"}, weights \in {<<35, 20, 25, 10, 10>>, <<100, 0, 0, 0, 0>>} :
    \E b \in Better(a) : Check("score", <<a, b, regime, weights>>)

PickRegime == \E signals \in [1..5 -> {"expansion", "neutral", "contraction", "missing"}], i \in 1..5 :
    Check("regime", <<signals, i>>)

Candidate == [score : {40, 60, 80}, sector : {"s", "t"}, cap : {None, 5}]
Limits == [top_n : 1..3, max_sector : {35, 50, 100}, max_weight : {15}, min_score : {0, 50}, min_liquidity : {None, 9}]
PickPortfolio == \E candidates \in [1..3 -> Candidate], limits \in Limits :
    Check("portfolio", <<[n \in 1..3 |-> candidates[n] @@ ("id" :> n)], limits>>)

(* Two companies on three dates; a record may be missing.                  *)
Cell == {None} \cup [score : {40, 60}, ret : {None, 20}]
Backtest == {[freq_days |-> 21, top_n |-> 1, max_sector |-> 100], [freq_days |-> 42, top_n |-> 2, max_sector |-> 50]}
Records(cells, sectors) ==
    LET At(p) == cells[p[1]][p[2]]
        dated == SelectSeq(<<<<1, 1>>, <<1, 2>>, <<2, 1>>, <<2, 2>>, <<3, 1>>>>, LAMBDA p : At(p) # None)
    IN  [n \in DOMAIN dated |-> [date |-> dated[n][1], id |-> dated[n][2], score |-> At(dated[n]).score,
                                 ret |-> At(dated[n]).ret, sector |-> IF sectors = 2 THEN dated[n][2] ELSE 1]]
PickBacktest == \E a, b, c, d \in Cell, e \in {None, [score |-> 60, ret |-> 20]}, sectors \in {1, 2}, config \in Backtest :
    Check("backtest", <<Records(<<<<a, b>>, <<c, d>>, <<e>>>>, sectors), config>>)

Flow == [day : {0, 10, 20}, amount : {100, 150}, type : {"drawdown", "distribution", "recallable_distribution"}]
PickFund == \E flows \in UpTo(Flow, 2), nav \in {None, 0, 40} : Check("fund", <<flows, nav>>)

PickRank == \E p \in -2..3, q, r \in 0..3, v, w \in -3..10 : Check("rank", <<<<p, p + q, p + q + r>>, v, w>>)

PickStates == \E a, b, c, d \in Chain!Level : Check("states", <<<<a, b>>, <<c, d>>>>)

PickHistory == \E history \in UpTo({<<0, 0>>, <<0, 1>>, <<1, 1>>}, 4), alpha \in {0, 1} : Check("history", <<history, alpha>>)

PickDiagram == \E a, c, d \in {0, 2, 30}, weights \in [Chain!States -> {0, 2}] :
    Check("diagram", <<{[from_state |-> s, to_state |-> t,
                         probability |-> CASE s = 0 -> IF t = 1 THEN a ELSE 1
                                           [] s = 3 /\ t = 1 -> c
                                           [] OTHER -> IF t = 2 THEN d ELSE 2] : s, t \in Chain!States}, weights, 3>>)

InvestmentsFit(calculation, c) ==
    /\ calculation = "score" => Invest!ScoreFollowsTheNews(c[1], c[2], c[3], c[4])
    /\ calculation = "regime" => Invest!RegimeFollowsTheSignals(c[1], c[2])
    /\ calculation = "portfolio" => Invest!PortfolioIsDeserved(c[1], c[2])
    /\ calculation = "backtest" => Invest!BacktestLooksNoFurther(c[1], c[2])
    /\ calculation = "fund" => Invest!FundFiguresAgree(c[1], 1000, c[2])
    /\ calculation = "rank" => Invest!RankKeepsOrder(c[1], c[2], c[3])
    /\ calculation = "states" => Chain!EveryStateHasItsNumber(c[1], c[2])
    /\ calculation = "history" => Chain!MatrixFollowsTheHistory(c[1], c[2])
    /\ calculation = "diagram" => Chain!DiagramLeavesNothingOut(c[1], c[2], c[3])

(* Scores and funds are what their records make of them (Investment.tla,   *)
(* Markov.tla).                                                            *)
InvestmentsHold == [][\A c \in {case'} : InvestmentsFit(part', c)]_vars
-----------------------------------------------------------------------------
Init == part = "none" /\ case = <<>>

Next ==
    /\ part = "none"
    /\ \/ PickDebt \/ PickStatements \/ PickWaterfall
       \/ PickGraph \/ PickSchedule \/ PickRamp
       \/ PickSimulations \/ PickHeatmap \/ PickTornado \/ PickValuation \/ PickMultiples \/ PickCovenant
       \/ PickGroup \/ PickLinks \/ PickTree
       \/ PickTrialBalance \/ PickPdf \/ PickAccounts \/ PickFlags \/ PickTable \/ PickSheet \/ PickMapping
       \/ PickExport \/ PickScale \/ PickRates
       \/ PickScore \/ PickRegime \/ PickPortfolio \/ PickBacktest \/ PickFund \/ PickRank
       \/ PickStates \/ PickHistory \/ PickDiagram

Spec == Init /\ [][Next]_vars
=============================================================================
