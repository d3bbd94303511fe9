---------------------------- MODULE TrialBalances ----------------------------
(***************************************************************************)
(* What the annual financial statements compute from the files a user      *)
(* uploads, and the documents made of the sections: services/afs/          *)
(* tb_parser.py, pdf_extractor.py, ratio_calculator.py, anomaly_stats.py   *)
(* and output_generator.py, with routers/afs/analytics.py.                 *)
(*                                                                         *)
(* A heading is named by the column it is recognised as, the label of a    *)
(* row by what the parser looks for in it, a ratio by its numerator and    *)
(* denominator.  An account's name stands for the categories with a        *)
(* pattern found in it.  Fonts, styles and markup are left out.            *)
(***************************************************************************)
EXTENDS Integers, Sequences, FiniteSets, SequencesExt

CONSTANT None

(* A cell that is missing or no number counts as zero (_safe_float). *)
CellAt(row, col) == IF col \in DOMAIN row.cells /\ row.cells[col] # None THEN row.cells[col] ELSE 0

-----------------------------------------------------------------------------
(* Faulty versions, which the properties tell from the ones below. *)

Amount_DebitFirst(cols, row) ==
    [debit |-> CellAt(row, cols.debit), credit |-> CellAt(row, cols.credit),
     net |-> IF cols.debit > 0 THEN CellAt(row, cols.debit) - CellAt(row, cols.credit) ELSE CellAt(row, cols.balance)]
Opened_Keeps(s, line) == [s EXCEPT !.title = line, !.found = TRUE]
Unseen_All(flags, key) == TRUE
TotalAssets_Current(t, current) == current
Body_Shifted(t, r) == Tail(t.body[r])

-----------------------------------------------------------------------------
(* tb_parser.py.  A sheet has some title rows, a heading row and its rows. *)

_detect_columns(heading) ==
    [k \in {"gl_code", "name", "debit", "credit", "balance"} |->
        IF \E i \in DOMAIN heading : heading[i] = k
        THEN CHOOSE i \in DOMAIN heading : heading[i] = k /\ \A j \in 1..(i - 1) : heading[j] # k
        ELSE 0]

Amount(cols, row) ==
    IF cols.debit > 0 /\ cols.credit > 0
    THEN [debit |-> CellAt(row, cols.debit), credit |-> CellAt(row, cols.credit),
          net |-> CellAt(row, cols.debit) - CellAt(row, cols.credit)]
    ELSE LET bal == CellAt(row, cols.balance)
         IN  [debit |-> IF bal >= 0 THEN bal ELSE 0, credit |-> IF bal < 0 THEN -bal ELSE 0, net |-> bal]

Accounts(sheet, skipped) ==
    LET cols == _detect_columns(sheet.heading)
        numeric == (cols.debit > 0 /\ cols.credit > 0) \/ cols.balance > 0
        kept == SelectSeq(sheet.rows, LAMBDA row : row.label \notin skipped \cup {"blank"})
    IN  IF cols.name = 0 \/ ~numeric THEN <<>>
        ELSE [i \in DOMAIN kept |-> Amount(cols, kept[i])]

(* A workbook's heading is looked for in the first five rows. *)
parse_excel_tb(sheet) == IF sheet.titles > 4 THEN <<>> ELSE Accounts(sheet, {"total", "grand total"})
(* A CSV file's heading is its first row, and a grand total is an account. *)
parse_csv_tb(sheet) == IF sheet.titles > 0 THEN <<>> ELSE Accounts(sheet, {"total"})

-----------------------------------------------------------------------------
(* pdf_extractor.py.  A line is a heading or text; pages only number it.   *)

Opened(s, line) == [s EXCEPT !.title = line, !.found = TRUE, !.lines = <<>>]

TakeLine(s, line) ==
    IF line.heading
    THEN Opened([s EXCEPT !.sections = IF s.lines = <<>> THEN @
                                       ELSE Append(@, [title |-> s.title, lines |-> s.lines])], line)
    ELSE [s EXCEPT !.lines = Append(@, line)]

_detect_sections(lines) ==
    LET preamble == [heading |-> TRUE, id |-> 0]
        s == FoldLeft(TakeLine, [title |-> preamble, found |-> FALSE, lines |-> <<>>, sections |-> <<>>], lines)
    IN  IF s.lines = <<>> THEN s.sections ELSE Append(s.sections, [title |-> s.title, lines |-> s.lines])

-----------------------------------------------------------------------------
(* ratio_calculator.py *)

(* The order in which the categories are tried. *)
Categories == <<"revenue", "cogs", "operating_expense", "interest_expense", "tax_expense", "accounts_receivable",
                "inventory", "accounts_payable", "cash", "current_assets_other", "non_current_assets",
                "current_liabilities_other", "non_current_liabilities", "equity">>

\* Names accountants give, and the categories whose patterns are in them.
ACCOUNT_PATTERNS ==
    [revenue |-> {"revenue"}, costOfGoods |-> {"cogs"}, costOfSales |-> {"revenue", "cogs"},
     admin |-> {"operating_expense"}, financeCost |-> {"interest_expense"}, incomeTax |-> {"tax_expense"},
     tradeReceivable |-> {"accounts_receivable"}, stock |-> {"inventory"}, tradePayable |-> {"accounts_payable"},
     cash |-> {"cash"}, bankOverdraft |-> {"cash", "current_liabilities_other"}, equipment |-> {"non_current_assets"},
     accrued |-> {"current_liabilities_other"}, mortgage |-> {"non_current_liabilities"}, shareCapital |-> {"equity"},
     suspense |-> {}]

CategoryOf(name) ==
    LET found == SelectSeq(Categories, LAMBDA c : c \in ACCOUNT_PATTERNS[name])
    IN  IF found = <<>> THEN "unclassified" ELSE Head(found)

(* accounts is a sequence of [name, net] *)
classify_accounts(accounts) ==
    [c \in ToSet(Categories) \cup {"unclassified"} |->
        FoldLeft(LAMBDA sum, a : IF CategoryOf(a.name) = c THEN sum + a.net ELSE sum, 0, accounts)]

Abs(x) == IF x < 0 THEN -x ELSE x
safe_div(num, den) == IF den = 0 THEN None ELSE <<num, den>>
TotalAssets(t, current) == current + t["non_current_assets"]

(* Every total is taken without its sign. *)
compute_ratios(classified) ==
    LET t == [c \in DOMAIN classified |-> Abs(classified[c])]
        gross == t["revenue"] - t["cogs"]
        operating == gross - t["operating_expense"]
        net == operating - t["interest_expense"] - t["tax_expense"]
        current == t["cash"] + t["accounts_receivable"] + t["inventory"] + t["current_assets_other"]
        assets == TotalAssets(t, current)
        owedSoon == t["accounts_payable"] + t["current_liabilities_other"]
        liabilities == owedSoon + t["non_current_liabilities"]
    IN  [gross_profit |-> gross, operating_income |-> operating, net_income |-> net, total_assets |-> assets,
         total_liabilities |-> liabilities, equity |-> t["equity"], current_assets |-> current,
         current_ratio |-> safe_div(current, owedSoon),
         quick_ratio |-> safe_div(current - t["inventory"], owedSoon),
         debt_to_equity |-> safe_div(liabilities, t["equity"]),
         debt_ratio |-> safe_div(liabilities, assets),
         interest_coverage |-> safe_div(operating, t["interest_expense"]),
         gross_margin_pct |-> safe_div(gross * 100, t["revenue"]),
         net_margin_pct |-> safe_div(net * 100, t["revenue"]),
         return_on_equity |-> safe_div(net * 100, t["equity"]),
         return_on_assets |-> safe_div(net * 100, assets),
         asset_turnover |-> safe_div(t["revenue"], assets)]

-----------------------------------------------------------------------------
(* anomaly_stats.py, and the place of a ratio among its peers               *)

Flag(key, method, severity) == [key |-> key, method |-> method, severity |-> severity]
Severity(warning, critical) == IF critical THEN "critical" ELSE IF warning THEN "warning" ELSE "info"
Raised(flags) == SelectSeq(flags, LAMBDA f : f.severity # "info")

(* values and benches are sequences: a ratio and its benchmark. *)
detect_anomalies_zscore(values, benches) ==
    Raised([k \in DOMAIN values |->
        LET b == benches[k]  far == Abs(values[k] - b.median)
        IN  Flag(k, "z_score", IF b.std > 0 THEN Severity(far >= 2 * b.std, far >= 3 * b.std) ELSE "info")])

detect_anomalies_iqr(values, benches) ==
    Raised([k \in DOMAIN values |->
        LET b == benches[k]
            iqr == b.p75 - b.p25
            out == IF values[k] < b.p25 THEN b.p25 - values[k] ELSE IF values[k] > b.p75 THEN values[k] - b.p75 ELSE 0
        IN  Flag(k, "iqr", IF iqr <= 0 \/ out = 0 THEN "info" ELSE Severity(2 * out >= 3 * iqr, out >= 3 * iqr))])

Unseen(flags, key) == \A i \in DOMAIN flags : flags[i].key # key

detect_anomalies_statistical(values, benches) ==
    LET z == detect_anomalies_zscore(values, benches)
        all == z \o SelectSeq(detect_anomalies_iqr(values, benches), LAMBDA f : Unseen(z, f.key))
    IN  SelectSeq(all, LAMBDA f : f.severity = "critical") \o SelectSeq(all, LAMBDA f : f.severity = "warning")

position(value, b) ==
    IF value < b.p25 THEN 1 ELSE IF value < b.median THEN 2 ELSE IF value < b.p75 THEN 3 ELSE 4

-----------------------------------------------------------------------------
(* output_generator.py.  A markdown table, with or without a pipe at the    *)
(* ends of its lines.  A line is split at its pipes, and the empty strings  *)
(* at its ends count as cells of the body; in the heading they are dropped. *)

Split(line, piped) == IF piped THEN <<None>> \o line \o <<None>> ELSE line
Body(t, r) == Split(t.body[r], t.piped)

(* What stands under each heading, in a row. *)
_add_md_table_to_docx(t) ==
    [r \in DOMAIN t.body |-> [j \in DOMAIN t.heading |-> IF j \in DOMAIN Body(t, r) THEN Body(t, r)[j] ELSE None]]
_md_table_to_html(t) == [r \in DOMAIN t.body |-> Body(t, r)]

-----------------------------------------------------------------------------
(* The two readers of a trial balance agree on a file with its heading in   *)
(* the first row and no grand total; and what they read adds up to what the *)
(* debit and credit, or else the balance columns, hold in the rows that are *)
(* accounts (parse_excel_tb, parse_csv_tb, _detect_columns).                *)
Hold(sheet, col) ==
    FoldLeft(LAMBDA sum, row : IF row.label = "account" THEN sum + CellAt(row, col) ELSE sum, 0, sheet.rows)

ReadAsWritten(sheet) ==
    LET cols == _detect_columns(sheet.heading)
        read == parse_excel_tb(sheet)
        nets == FoldLeft(LAMBDA sum, a : sum + a.net, 0, read)
    IN  (\A i \in DOMAIN sheet.rows : sheet.rows[i].label # "grand total") =>
            /\ sheet.titles = 0 => parse_csv_tb(sheet) = read
            /\ \A i \in DOMAIN read : read[i].net = read[i].debit - read[i].credit
            /\ read # <<>> =>
                  nets = IF cols.debit > 0 /\ cols.credit > 0
                         THEN Hold(sheet, cols.debit) - Hold(sheet, cols.credit) ELSE Hold(sheet, cols.balance)

(* Every line of text of a PDF is in one section, in its order, under the   *)
(* heading that stood last above it (_detect_sections); a heading without   *)
(* text of its own is dropped.                                              *)
EachLineInItsSection(lines) ==
    LET s == _detect_sections(lines)
        text == SelectSeq(lines, LAMBDA l : ~l.heading)
        above(i) == LET h == {0} \cup {j \in 1..i : lines[j].heading}
                    IN  CHOOSE j \in h : \A k \in h : k <= j
    IN  /\ FoldLeft(LAMBDA all, x : all \o x.lines, <<>>, s) = text
        /\ \A k \in DOMAIN s : \A i \in DOMAIN lines :
              (\E j \in DOMAIN s[k].lines : s[k].lines[j] = lines[i]) => s[k].title.id = above(i)

(* A trial balance that balances, of accounts on their usual side, gives    *)
(* ratios of a balance sheet that balances: assets are liabilities, equity  *)
(* and the profit of the year (classify_accounts, compute_ratios).          *)
Debits == {"cogs", "operating_expense", "interest_expense", "tax_expense", "accounts_receivable", "inventory",
           "cash", "current_assets_other", "non_current_assets"}
UsualSide(t) == \A c \in DOMAIN t : CASE c = "unclassified" -> t[c] = 0
                                      [] c \in Debits -> t[c] >= 0
                                      [] OTHER -> t[c] <= 0
RatiosOfABalance(accounts) ==
    LET t == classify_accounts(accounts)
        r == compute_ratios(t)
    IN  FoldLeft(LAMBDA sum, a : sum + a.net, 0, accounts) = 0 /\ UsualSide(t)
            => r.total_assets = r.total_liabilities + r.equity + r.net_income

(* An account is put in the category that has its name for a pattern: the   *)
(* cost of sales is a cost, an overdraft a liability.  The code tries       *)
(* revenue's "sales" and cash's "bank" first (ACCOUNT_PATTERNS).            *)
Meant(name) == CASE name = "costOfSales" -> "cogs" [] name = "bankOverdraft" -> "current_liabilities_other"
                 [] OTHER -> CategoryOf(name)
EachPatternFindsItsOwn(name) == CategoryOf(name) = Meant(name)

(* Every ratio out of bounds is flagged once, by the z-score when both      *)
(* methods see it, the critical ones first (detect_anomalies_statistical).  *)
FlaggedOnceWorstFirst(values, benches) ==
    LET flags == detect_anomalies_statistical(values, benches)
        z == detect_anomalies_zscore(values, benches)
        i == detect_anomalies_iqr(values, benches)
        keys(f) == {f[k].key : k \in DOMAIN f}
    IN  /\ keys(flags) = keys(z) \cup keys(i)
        /\ Cardinality(keys(flags)) = Len(flags)
        /\ \A a, b \in DOMAIN flags : a < b /\ flags[b].severity = "critical" => flags[a].severity = "critical"
        /\ \A a \in DOMAIN flags : flags[a].key \in keys(z) => flags[a].method = "z_score"
        /\ \A k \in keys(i) : position(values[k], benches[k]) \in {1, 4}

(* In both documents every cell of a table stands under its own heading     *)
(* (_md_table_to_html, _add_md_table_to_docx); with pipes at the ends of    *)
(* its lines, as markdown is mostly written, it does not.                   *)
CellsUnderTheirHeading(t) ==
    \A r \in DOMAIN t.body : \A j \in DOMAIN t.heading :
        /\ _add_md_table_to_docx(t)[r][j] = t.body[r][j]
        /\ _md_table_to_html(t)[r][j] = t.body[r][j]
PlainTablesKeepTheirCells(t) == ~t.piped => CellsUnderTheirHeading(t)

=============================================================================
