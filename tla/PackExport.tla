----------------------------- MODULE PackExport -----------------------------
(***************************************************************************)
(* A board pack as a document: the sections of an export, the tables in    *)
(* them, and the currency they are shown in (routers/board_packs.py,       *)
(* services/board_pack_export.py, routers/currency.py).                    *)
(*                                                                         *)
(* A section's text is a token; a table is a list of rows, a row a         *)
(* function of its keys.  The rates of one pair of currencies are a set of *)
(* records with the day from which each holds.                             *)
(***************************************************************************)
EXTENDS Integers, Sequences, FiniteSets, FiniteSetsExt, SequencesExt

CONSTANT None       \* no such thing: a missing rate, the error a call answers

Ascending(n) == [i \in 1..n |-> i]
-----------------------------------------------------------------------------
(* Faulty versions, which the properties tell from the ones below. *)

Known_Always(order, contents) == order
Replaced_Never(rates, rate) == rates \cup {rate}
_NON_MONETARY_KEYS_Old == {"count"}
Current_Any(rates, asOf) == rates
-----------------------------------------------------------------------------
(* routers/currency.py                                                     *)

(* The rate of the same day is replaced.                                   *)
Replaced(rates, rate) == {x \in rates : x.from # rate.from} \cup {rate}
add_fx_rate(rates, rate) == Replaced(rates, rate)
delete_fx_rate(rates, from) == {x \in rates : x.from # from}

(* A history of calls, oldest first.                                       *)
RatesAfter(calls) ==
    FoldLeft(LAMBDA rates, c : IF c.op = "add" THEN add_fx_rate(rates, [from |-> c.from, rate |-> c.rate])
                               ELSE delete_fx_rate(rates, c.from), {}, calls)

Latest(rates) == CHOOSE x \in rates : \A y \in rates : y.from <= x.from

Current(rates, asOf) == {x \in rates : x.from <= asOf}

get_conversion_rate(rates, asOf) ==
    IF Current(rates, asOf) = {} THEN None ELSE Latest(Current(rates, asOf)).rate

(* The export takes the latest rate of all, of whatever day.               *)
ExportRate(rates, same) ==
    IF same THEN 1 ELSE IF rates = {} THEN None ELSE Latest(rates).rate
-----------------------------------------------------------------------------
(* Amounts in another currency: every number is multiplied, except under a *)
(* key that is known not to be money.  Numbers in lists go by the key of   *)
(* their list.                                                             *)

_NON_MONETARY_KEYS == {"period_index", "count", "variance_pct", "pct"}

ScaleRow(row, rate) ==
    [k \in DOMAIN row |-> IF k \in _NON_MONETARY_KEYS THEN row[k] ELSE row[k] * rate]
_scale_numerics(rows, rate) == [i \in DOMAIN rows |-> ScaleRow(rows[i], rate)]

(* A table shows the keys of its first row but the period's number, and    *)
(* under the label of each period the value of that period, if it has one. *)
_format_table(rows, labels) ==
    IF rows = <<>> THEN None
    ELSE [header |-> SubSeq(labels, 1, Len(rows)),
          line |-> [k \in (DOMAIN rows[1]) \ {"period_index"} |->
                       [i \in DOMAIN rows |-> IF k \in DOMAIN rows[i] THEN rows[i][k] ELSE None]]]
-----------------------------------------------------------------------------
(* What each format has to show for the sections it knows.                 *)

Always == {"executive_summary", "income_statement", "balance_sheet", "cash_flow", "budget_variance",
           "kpi_dashboard", "scenario_comparison", "strategic_commentary"}

(* A pack: its order of sections, statement and key figure rows, the       *)
(* labels of its periods, the benchmark and the fund summary if any.       *)
HtmlContents(pack, tables) ==
    [s \in Always \cup (IF pack.benchmarks # <<>> THEN {"benchmark"} ELSE {})
                  \cup (IF pack.pe_summary # None THEN {"pe_portfolio"} ELSE {}) |->
        CASE s \in {"income_statement", "balance_sheet", "cash_flow"} -> _format_table(tables.statements, pack.periods)
          [] s = "kpi_dashboard" -> _format_table(tables.kpis, pack.periods)
          [] OTHER -> s]

PptxContents(pack) ==
    [s \in Always \cup (IF pack.benchmarks # <<>> THEN {"benchmark"} ELSE {})
                  \cup (IF pack.pe_summary # None THEN {"pe_portfolio"} ELSE {}) |-> s]

Known(order, contents) == SelectSeq(order, LAMBDA s : s \in DOMAIN contents)

(* The sections of the document, each with its anchor: the place of its    *)
(* key in the order asked for, counting the keys that are not known.       *)
build_board_pack_html(order, contents) ==
    LET places == SelectSeq(Ascending(Len(order)), LAMBDA i : order[i] \in DOMAIN contents)
    IN  [contents |-> [j \in DOMAIN places |-> [title |-> order[places[j]], link |-> places[j]]],
         body |-> [j \in DOMAIN places |->
                      [title |-> order[places[j]], anchor |-> places[j], body |-> contents[order[places[j]]]]]]

build_board_pack_pptx(order, contents) == Known(order, contents)

(* The benchmark comes last when it is asked for, known and not placed; a  *)
(* fund summary is fetched when its section is.                            *)
Order(pack, benchmark) ==
    IF benchmark /\ pack.benchmarks # <<>> /\ "benchmark" \notin ToSet(pack.section_order)
       THEN Append(pack.section_order, "benchmark") ELSE pack.section_order

Fetched(pack, benchmark) ==
    [pack EXCEPT !.benchmarks = IF benchmark THEN @ ELSE <<>>,
                 !.pe_summary = IF "pe_portfolio" \in ToSet(pack.section_order) THEN @ ELSE None]

(* None stands for the 400 of a pack that is not ready and the 404 of a    *)
(* missing rate.                                                           *)
export_board_pack(pack, rates, currency, benchmark) ==
    LET rate == IF currency = None THEN 1 ELSE ExportRate(rates, currency = pack.base)
        order == Order(pack, benchmark)
        shown == Fetched(pack, benchmark)
        tables == [statements |-> _scale_numerics(pack.statements, rate),
                   kpis |-> _scale_numerics(pack.kpis, rate)]
    IN  IF pack.status # "ready" \/ rate = None THEN None
        ELSE [cover |-> currency,
              html |-> build_board_pack_html(order, HtmlContents(shown, tables)),
              pptx |-> build_board_pack_pptx(order, PptxContents(shown))]
-----------------------------------------------------------------------------
(* A reader finds the same sections in a document and in its slides, in    *)
(* the order the pack asks for; every entry of the contents leads to the   *)
(* section of that name and to no other; and what the pack asks for and    *)
(* can be shown is there, each row with a cell under every period.         *)
FormatsTellTheSame(pack, rates, currency, benchmark) ==
    LET export == export_board_pack(pack, rates, currency, benchmark)
        order == Order(pack, benchmark)
        titles == [j \in DOMAIN export.html.body |-> export.html.body[j].title]
    IN  export # None =>
            /\ titles = export.pptx
            /\ \A j \in DOMAIN export.html.contents :
                  LET entry == export.html.contents[j]
                      reached == {k \in DOMAIN export.html.body : export.html.body[k].anchor = entry.link}
                  IN  reached = {j} /\ export.html.body[j].title = entry.title
            /\ \A s \in Always : s \in ToSet(order) => s \in ToSet(titles)
            /\ \A i, j \in DOMAIN titles :
                  i < j => \E m, n \in DOMAIN order : m < n /\ order[m] = titles[i] /\ order[n] = titles[j]
            /\ \A j \in DOMAIN export.html.body :
                  titles[j] \in {"income_statement", "kpi_dashboard"} /\ export.html.body[j].body # None =>
                      \A k \in DOMAIN export.html.body[j].body.line :
                          Len(export.html.body[j].body.line[k]) = Len(export.html.body[j].body.header)

(* In another currency the amounts keep their proportions, the counts and  *)
(* the numbers of the periods their value.                                 *)
AmountsKeepTheirProportions(rows, rate) ==
    LET shown == _scale_numerics(rows, rate)
    IN  \A i, j \in DOMAIN rows, k \in {"revenue", "cash"}, l \in {"revenue", "cash"} :
            /\ shown[i][k] * rows[j][l] = shown[j][l] * rows[i][k]
            /\ rate # 0 /\ rows[i][k] # 0 => shown[i][k] # 0
            /\ shown[i]["period_index"] = rows[i]["period_index"]

(* Of a day's rate the last word counts, and a conversion never uses a     *)
(* rate before its day.                                                    *)
LastWordCounts(calls, asOf) ==
    LET rates == RatesAfter(calls)
        last(from) == {i \in DOMAIN calls : calls[i].from = from /\ \A j \in DOMAIN calls : calls[j].from = from => j <= i}
        standing == {i \in UNION {last(calls[k].from) : k \in DOMAIN calls} : calls[i].op = "add" /\ calls[i].from <= asOf}
    IN  get_conversion_rate(rates, asOf)
            = IF standing = {} THEN None
              ELSE calls[CHOOSE i \in standing : \A j \in standing : calls[j].from <= calls[i].from].rate

(* The router's own list of keys is there to "skip non-monetary keys": a   *)
(* ratio among the key figures is the same in every currency.  It is not:  *)
(* none of the ratios calculate_kpis answers is in the list.               *)
RatiosAreNoMoney(rows, rate) ==
    \A i \in DOMAIN rows : _scale_numerics(rows, rate)[i]["current_ratio"] = rows[i]["current_ratio"]

(* An export converts as the conversion helper "for display/export" does   *)
(* on the same day.  A rate entered for a day to come is used at once.     *)
ExportConvertsAsToday(rates, today) ==
    ExportRate(rates, FALSE) # None => ExportRate(rates, FALSE) = get_conversion_rate(rates, today)

=============================================================================
