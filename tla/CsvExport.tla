------------------------------ MODULE CsvExport ------------------------------
(***************************************************************************)
(* What data/export of the DuckDB and openGauss drivers makes of rows: the *)
(* columns that are selected, and the CSV text, DuckDB page by page and    *)
(* openGauss at once.  Text is a sequence of characters; "nl" is the line  *)
(* feed.  A reader of CSV, which the code does not have, is the reference. *)
(*                                                                         *)
(* External: that reader; the tables and the requests of the host.         *)
(***************************************************************************)
EXTENDS Naturals, Sequences, SequencesExt

CONSTANTS Drivers,          \* of {"duckdb", "opengauss"}
          Cells,            \* [kind, value] with kind "null", "text", "number" or "json null"
          Delimiters, Quotes, Nulls,   \* CsvOptions: characters, and the text for null
          Columns,          \* names, as texts
          MaxColumns, MaxRows,
          PageRows          \* EXPORT_FETCH_ROWS

\* What the constants are.
CsvAssumption == Drivers \subseteq {"duckdb", "opengauss"} /\ PageRows \in Nat \ {0}

VARIABLES driver, options, include, exclude,   \* the request
          source,     \* what it names: "table" or "sql"
          raw,        \* the columns of that
          columns,    \* the columns that are exported, or <<>>
          rows,       \* the rows of those columns
          written,    \* rows written so far
          headerWritten, out, state

vars == <<driver, options, include, exclude, source, raw, columns, rows, written, headerWritten, out, state>>
request == <<driver, options, include, exclude, source, raw>>
-----------------------------------------------------------------------------
(* Selecting columns *)

\* selected_export_columns, of a table and of a query alike: <<>> is an error.
SelectedExportColumns(all, wanted, unwanted) ==
  LET selected == SelectSeq(IF wanted = <<>> THEN all ELSE wanted, LAMBDA c : c \notin unwanted)
  IN IF ToSet(selected) \subseteq ToSet(all) THEN selected ELSE <<>>

\* export_sql: the query of the host as it is, whatever the lists say; of a table
\* every column without an include list, or when nothing of it is left.
ExportSql(all, wanted, unwanted) ==
  LET selected == SelectSeq(wanted, LAMBDA c : c \notin unwanted)
  IN IF source = "sql" \/ selected = <<>> THEN all ELSE IF ToSet(selected) \subseteq ToSet(all) THEN selected ELSE <<>>
-----------------------------------------------------------------------------
(* Writing *)

\* cell_to_json_value: a JSON null is a null like any other; <<>> is no text.
CellToJson(cell) == IF cell.kind \in {"null", "json null"} THEN <<>> ELSE <<cell.value>>

CellToCsvString(cell, o) == IF CellToJson(cell) = <<>> THEN o.null ELSE CellToJson(cell)[1]


\* cell_to_csv_field: what could be taken for null is quoted.
CellToCsvField(cell, o) ==
  LET text == CellToCsvString(cell, o) IN
  [text |-> text, force |-> cell.kind # "null" /\ (text = <<>> \/ text = o.null)]

Doubled(text, quote) == FlattenSeq([i \in DOMAIN text |-> IF text[i] = quote THEN <<quote, quote>> ELSE <<text[i]>>])

CsvEscape(text, o, force) ==
  IF force \/ ToSet(text) \cap {o.delimiter, "nl", o.quote} # {}
  THEN <<o.quote>> \o Doubled(text, o.quote) \o <<o.quote>> ELSE text

Joined(texts, separator) ==
  FlattenSeq([i \in DOMAIN texts |-> IF i = Len(texts) THEN texts[i] ELSE texts[i] \o <<separator>>])

CsvRow(row, o) ==
  Joined([i \in DOMAIN row |-> LET f == CellToCsvField(row[i], o) IN CsvEscape(f.text, o, f.force)], o.delimiter)
CsvHeader(names, o) == Joined([i \in DOMAIN names |-> CsvEscape(names[i], o, FALSE)], o.delimiter)

\* csv_line of DuckDB ends every line; rows_to_csv of openGauss puts a line feed between two.
CsvLines(lines) == FlattenSeq([i \in DOMAIN lines |-> Append(lines[i], "nl")])
RowsToCsv(names, all, o) ==
  LET lines == (IF o.header THEN <<CsvHeader(names, o)>> ELSE <<>>) \o [i \in DOMAIN all |-> CsvRow(all[i], o)]
  IN Joined(lines, "nl")
-----------------------------------------------------------------------------
(* The reference reader *)

Reading == [mode |-> "start", field |-> <<>>, row |-> <<>>, table |-> <<>>]
EndField(s, o) ==
  [s EXCEPT !.mode = "start", !.field = <<>>,
            !.row = Append(@, IF s.mode # "closed" /\ s.field = o.null THEN [null |-> TRUE] ELSE [text |-> s.field])]
EndRow(s, o) == LET e == EndField(s, o) IN [e EXCEPT !.row = <<>>, !.table = Append(@, e.row)]
ReadChar(s, c, o) ==
  CASE s.mode = "quoted" -> IF c = o.quote THEN [s EXCEPT !.mode = "closed"] ELSE [s EXCEPT !.field = Append(@, c)]
    [] s.mode = "closed" /\ c = o.quote -> [s EXCEPT !.mode = "quoted", !.field = Append(@, c)]
    [] s.mode = "start" /\ c = o.quote -> [s EXCEPT !.mode = "quoted"]
    [] s.mode # "quoted" /\ c = o.delimiter -> EndField(s, o)
    [] s.mode # "quoted" /\ c = "nl" -> EndRow(s, o)
    [] OTHER -> [s EXCEPT !.mode = "bare", !.field = Append(@, c)]

\* A last line without a line feed is a line, unless it is empty.
ReadCsv(text, o) ==
  LET end == FoldLeft(LAMBDA s, c : ReadChar(s, c, o), Reading, text)
  IN IF end.mode = "start" /\ end.row = <<>> THEN end.table ELSE EndRow(end, o).table
-----------------------------------------------------------------------------
Lists(S, n) == UNION {[1..k -> S] : k \in 0..n}

Init ==
  /\ driver \in Drivers
  /\ options \in [delimiter : Delimiters, quote : Quotes, null : Nulls, header : BOOLEAN]
  /\ include \in Lists(Columns, MaxColumns) /\ exclude \in SUBSET Columns
  /\ source \in {"table", "sql"} /\ raw \in {r \in Lists(Columns, MaxColumns) : r # <<>> /\ IsInjective(r)}
  /\ columns = <<>> /\ rows = <<>> /\ written = 0 /\ headerWritten = FALSE /\ out = <<>> /\ state = "asked"

\* handle_data_export: DuckDB takes a delimiter and a quote that are given.
Export ==
  /\ state = "asked"
  /\ columns' = IF driver = "duckdb" THEN SelectedExportColumns(raw, include, exclude) ELSE ExportSql(raw, include, exclude)
  /\ state' = IF columns' = <<>> THEN "refused" ELSE "open"
  /\ rows' \in IF columns' = <<>> THEN {<<>>} ELSE Lists([1..Len(columns') -> Cells], MaxRows)
  /\ UNCHANGED <<request, written, headerWritten, out>>

\* render_csv_rows: one page, after the header if it is the first.
RenderCsvRows ==
  /\ driver = "duckdb" /\ state = "open"
  /\ LET n == IF Len(rows) - written < PageRows THEN Len(rows) - written ELSE PageRows
         page == [i \in 1..n |-> CsvRow(rows[written + i], options)]
         header == IF options.header /\ ~headerWritten THEN <<CsvHeader(columns, options)>> ELSE <<>>
     IN /\ out' = out \o CsvLines(header \o page)
        /\ headerWritten' = (headerWritten \/ options.header)
        /\ written' = written + n /\ state' = IF n < PageRows THEN "done" ELSE "open"
  /\ UNCHANGED <<request, columns, rows>>

RenderAll ==
  /\ driver = "opengauss" /\ state = "open"
  /\ out' = RowsToCsv(columns, rows, options) /\ written' = Len(rows) /\ state' = "done"
  /\ UNCHANGED <<request, columns, rows, headerWritten>>

Next == Export \/ RenderCsvRows \/ RenderAll
Spec == Init /\ [][Next]_vars
-----------------------------------------------------------------------------
\* What is exported is read back as it was: every row, every text and every null, with
\* a null never taken for a text.  A JSON null alone comes back as the text for null,
\* and openGauss loses a last row of one null that is written as nothing.
ReadsBack ==
  LET cell(c) == IF c.kind = "null" THEN [null |-> TRUE] ELSE [text |-> CellToCsvString(c, options)]
      names == [i \in DOMAIN columns |-> IF columns[i] = options.null THEN [null |-> TRUE] ELSE [text |-> columns[i]]]
      lost == driver = "opengauss" /\ options.null = <<>> /\ Len(columns) = 1 /\ rows # <<>> /\ Last(rows)[1].kind = "null"
      all == (IF options.header THEN <<names>> ELSE <<>>) \o [r \in DOMAIN rows |-> [i \in DOMAIN rows[r] |-> cell(rows[r][i])]]
  IN state = "done" => ReadCsv(out, options) = IF lost THEN Front(all) ELSE all

\* Only columns that exist are exported, in the order asked for.  DuckDB never exports
\* one that is excluded, of a table or of a query; openGauss does so of a table where
\* no include list leaves a column over, and of a query it exports all there are.
ColumnsAreAsked ==
  LET listens == driver = "duckdb" \/ source = "table" IN
  state \in {"open", "done"} =>
    /\ ToSet(columns) \subseteq ToSet(raw)
    /\ ToSet(columns) \cap exclude # {} => driver = "opengauss" /\ (listens => ToSet(include) \subseteq exclude)
    /\ listens /\ include # <<>> /\ ToSet(include) \cap exclude = {} => columns = include
    /\ ~listens => columns = raw

=============================================================================
