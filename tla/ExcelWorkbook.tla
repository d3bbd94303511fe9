---------------------------- MODULE ExcelWorkbook ----------------------------
(***************************************************************************)
(* What is read from an Excel workbook, and what a mapping becomes         *)
(* (services/excel_parser.py, services/agent/excel_tools.py,               *)
(* services/excel_ingestion.py).                                           *)
(*                                                                         *)
(* A sheet is a sequence of rows of cells, rows of one length.  A cell is  *)
(* its kind: of what it holds, only what the functions ask about.  The     *)
(* caps on sheets, rows and columns and the time limit are left out.       *)
(***************************************************************************)
EXTENDS Integers, FiniteSets, Sequences, SequencesExt

CONSTANTS
    SampleRows      \* SAMPLE_ROWS

(* calc is a formula, link one with a reference to another sheet whose     *)
(* value was never cached; num is a short number, year one of four digits. *)
Formula == {"calc", "link"}
Number == {"num", "year"}
Cell == {"blank", "text", "month", "phase"} \cup Number \cup Formula

(* The cell as the workbook that was opened with data_only shows it.       *)
_cell_value(cell) ==
    CASE cell = "calc" -> "num" [] cell = "link" -> "blank" [] OTHER -> cell
-----------------------------------------------------------------------------
(* Faulty versions, which the properties tell from the ones below.         *)

(* The samples begin under the header, wherever it is.                     *)
data_start_UnderHeader(sheet) ==
    1 + CHOOSE i \in 0..Len(sheet) :
        /\ i > 0 => \E j \in 1..Len(sheet[i]) : _cell_value(sheet[i][j]) # "blank"
        /\ \A k \in 1..i - 1 : \A j \in 1..Len(sheet[k]) : _cell_value(sheet[k][j]) = "blank"
        /\ i = 0 => \A k \in 1..Len(sheet) :
             \A j \in 1..Len(sheet[k]) : _cell_value(sheet[k][j]) = "blank"

(* An item of the mapping that has a category only.                        *)
Target_CogsOnly(item) == IF item = "cogs" THEN "variable_costs" ELSE "custom"
-----------------------------------------------------------------------------
(* parse_workbook, for one sheet.                                          *)

Cells(sheet) == {<<i, j>> : i \in 1..Len(sheet), j \in 1..(IF sheet = <<>> THEN 0 ELSE Len(sheet[1]))}
Count(sheet, kinds) == Cardinality({c \in Cells(sheet) : sheet[c[1]][c[2]] \in kinds})
Shown(row) == [j \in DOMAIN row |-> _cell_value(row[j])]
IsBlank(row) == \A j \in DOMAIN row : row[j] = "blank"

_first_non_empty_row(sheet) ==
    LET full == {i \in DOMAIN sheet : ~IsBlank(Shown(sheet[i]))}
    IN  IF full = {} THEN <<>>
        ELSE Shown(sheet[CHOOSE i \in full : \A k \in full : i <= k])

(* From the second row on, wherever the header is.                         *)
data_start(sheet) == IF _first_non_empty_row(sheet) # <<>> THEN 2 ELSE 1

Least(a, b) == IF a < b THEN a ELSE b
sample_rows(sheet) ==
    LET first == data_start(sheet)
        last == Least(first + SampleRows - 1, Len(sheet))
    IN  [i \in 1..(last - first + 1) |-> Shown(sheet[first + i - 1])]

(* merged_cell_count is 0: a workbook opened read-only has no ranges.      *)
parse_workbook(sheet) ==
    [row_count |-> Len(sheet),
     col_count |-> IF sheet = <<>> THEN 0 ELSE Len(sheet[1]),
     formula_count |-> Count(sheet, Formula),
     value_count |-> Count(sheet, Cell \ (Formula \cup {"blank"})),
     empty_count |-> Count(sheet, {"blank"}),
     cross_sheet_ref_count |-> Count(sheet, {"link"}),
     headers |-> _first_non_empty_row(sheet),
     sample_rows |-> sample_rows(sheet)]

(* classify_sheets: the first test that holds.  A header is text unless it *)
(* is a number or blank; a year counts as a month.                         *)
classify_sheets(info) ==
    LET total == info.formula_count + info.value_count + info.empty_count
        Headers(kinds) == Cardinality({j \in DOMAIN info.headers : info.headers[j] \in kinds})
        headers == Len(info.headers)
        formulas == 100 * info.formula_count
    IN  CASE info.value_count + info.formula_count < 5 -> "empty"
          [] formulas > 50 * total /\ (Headers({"month", "year"}) >= 2 \/ headers >= 6) ->
                "financial"
          [] headers > 0 /\ 100 * Headers({"text", "month", "phase"}) > 80 * headers ->
                "documentation"
          [] \E j \in 1..Least(5, headers) : info.headers[j] = "phase" -> "project_management"
          [] info.formula_count > 10 /\ info.cross_sheet_ref_count > 0 -> "data_reference"
          [] OTHER -> "unknown"

(* extract_assumption_candidates: a label in A, its value in B.            *)
extract_assumption_candidates(info) ==
    {[row_index |-> i + 1, label |-> info.sample_rows[i][1], value |-> info.sample_rows[i][2]] :
        i \in {k \in DOMAIN info.sample_rows : /\ Len(info.sample_rows[k]) >= 2
                                               /\ info.sample_rows[k][1] # "blank"}}
-----------------------------------------------------------------------------
(* The agent's tools; bounds are Python's, from 0 and the last excluded,   *)
(* negative ones count from the end.                                       *)

Bound(i, n) == IF i < 0 THEN (IF n + i < 0 THEN 0 ELSE n + i) ELSE Least(i, n)
Slice(s, first, last) == SubSeq(s, Bound(first, Len(s)) + 1, Bound(last, Len(s)))

handle_read_sheet_data(info, max_rows) == Slice(info.sample_rows, 0, max_rows)

handle_read_cell_range(info, start_row, end_row, start_col, end_col) ==
    LET rows == Slice(info.sample_rows, start_row, end_row)
    IN  [i \in DOMAIN rows |-> Slice(rows[i], start_col, end_col)]

handle_compare_sheets(a, b) ==
    LET of(info) == {info.headers[j] : j \in DOMAIN info.headers}
    IN  [shared_headers |-> of(a) \cap of(b), only_in_a |-> of(a) \ of(b),
         only_in_b |-> of(b) \ of(a)]
-----------------------------------------------------------------------------
(* create_draft_from_mapping: a mapping is a sequence of items, each its   *)
(* section, or its category for a cost; the section of the workspace it    *)
(* goes to.                                                                *)
MappingItem == {"revenue_stream", "cogs", "salaries", "other_opex", "capex_item",
                "unmapped_item"}
Target(item) ==
    CASE item = "revenue_stream" -> "revenue_streams"
      [] item = "cogs" -> "variable_costs"
      [] item \in {"salaries", "other_opex"} -> "fixed_costs"
      [] item = "capex_item" -> "capex"
      [] item = "unmapped_item" -> "custom"

workspace(mapping) ==
    [t \in {"revenue_streams", "variable_costs", "fixed_costs", "capex", "custom"} |->
        SelectSeq(mapping, LAMBDA item : Target(item) = t)]

(* handle_validate_mapping, of a mapping that has all its keys.            *)
handle_validate_mapping(mapping) ==
    LET filled(items) == IF \E i \in DOMAIN mapping : mapping[i] \in items THEN 1 ELSE 0
    IN  [coverage |-> filled({"revenue_stream"}) + filled({"cogs", "salaries", "other_opex"})
                        + filled({"capex_item"})]
-----------------------------------------------------------------------------
(* What the model and the agent are told of a sheet is what the sheet has  *)
(* at the place they are told: a candidate stands in the row it names, and *)
(* a range of cells is the sheet's, shifted by the row the samples begin   *)
(* at.  Every cell is counted once.                                        *)
ToldAsItIs(sheet) ==
    LET info == parse_workbook(sheet)
    IN  /\ \A c \in extract_assumption_candidates(info) :
            /\ c.row_index \in DOMAIN sheet
            /\ c.label = _cell_value(sheet[c.row_index][1])
            /\ c.value = _cell_value(sheet[c.row_index][2])
        /\ \A i \in -2..2, j \in -1..1 :
            LET data == handle_read_cell_range(info, i, Len(info.sample_rows), j, info.col_count)
                off == data_start(sheet) + Bound(i, Len(info.sample_rows)) - 1
            IN  \A k \in DOMAIN data, l \in 1..info.col_count :
                    l \in DOMAIN data[k] =>
                        data[k][l] = _cell_value(sheet[off + k][Bound(j, info.col_count) + l])
        /\ info.formula_count + info.value_count + info.empty_count =
             info.row_count * info.col_count

(* create_draft_from_mapping: nothing the model has mapped, or has left    *)
(* unmapped, is lost or doubled on its way into the draft's workspace.     *)
NothingMappedIsLost(mapping) ==
    \A item \in MappingItem :
        LET of(s) == Cardinality({i \in DOMAIN s : s[i] = item})
            placed == {t \in DOMAIN workspace(mapping) : of(workspace(mapping)[t]) > 0}
        IN  /\ of(mapping) > 0 <=> Cardinality(placed) = 1
            /\ \A t \in placed : of(workspace(mapping)[t]) = of(mapping)
                                 /\ (t = "custom" => item = "unmapped_item")
=============================================================================
