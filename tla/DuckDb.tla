------------------------------- MODULE DuckDb -------------------------------
(***************************************************************************)
(* One connection worker of the DuckDB driver (extensions/ipc/duckdb):     *)
(* the tables of ConnectionState and every request DuckDbConnection::call  *)
(* routes to it.  The runtime gives each connection a worker of its own    *)
(* that handles one request after the other, so a request is one action.   *)
(*                                                                         *)
(* The engine is external: "table" is what the connection sees, "saved"    *)
(* what ROLLBACK restores, "dbtx" whether the engine is in autocommit, in a*)
(* transaction, or in one that a failed statement has aborted.  The driver *)
(* keeps no snapshot: a cursor or an export runs its SQL again with LIMIT  *)
(* and OFFSET for every page.  A request that is refused or that fails     *)
(* without a trace is a stuttering step; a statement that fails and aborts *)
(* the transaction (an interrupt too) is StatementFails.                   *)
(***************************************************************************)
EXTENDS Naturals, Integers, Sequences, FiniteSets, SequencesExt

CONSTANTS NoLimit,        \* a limit that is not given
          StreamIds,      \* ids a host gives to exports
          RowLimits,      \* values of max_rows in requests, NoLimit among them
          FetchSizes,     \* values of n in cursor/fetch
          ReadSizes,      \* values of max_bytes in stream/read
          Thresholds,     \* values of abort_on_failures, NoLimit among them
          ExportFetchRows,\* EXPORT_FETCH_ROWS
          MaxFetch,       \* MAX_CURSOR_FETCH_SIZE
          MaxRows,        \* bound: rows ever inserted
          MaxCursors, MaxTx, MaxImports,   \* bounds: ids handed out
          MaxChunk,       \* bound: rows in a chunk, statements in a batch
          MaxFailed       \* bound: rows of an import that fail

None == [kind |-> "none"]

ASSUME DuckAssumption ==
  /\ NoLimit \notin Nat
  /\ ExportFetchRows \in Nat \ {0} /\ MaxFetch \in Nat \ {0}
  /\ MaxRows \in Nat /\ MaxCursors \in Nat /\ MaxTx \in Nat
  /\ MaxImports \in Nat /\ MaxChunk \in Nat /\ MaxFailed \in Nat
  /\ RowLimits \subseteq Nat \cup {NoLimit} /\ FetchSizes \subseteq Nat
  /\ ReadSizes \subseteq Nat \ {0} /\ Thresholds \subseteq Nat \cup {NoLimit}

VARIABLES worker,   \* "new", "open" or "closed"
          table, saved, dbtx,           \* external: the engine
          cursors, next_cursor_id,
          streams,
          imports, next_import_id,
          txs, active_tx, next_tx_id,
          rows,     \* history: rows inserted so far; they number the rows
          got,      \* history: rows a cursor delivered
          read,     \* history: bytes a stream delivered
          stable,   \* history: cursors and streams whose table never changed
          ran,      \* history: statements answered under a transaction
          told,     \* history: the end a transaction or an import was told
          strayed   \* history: "text" ended a transaction, a "commit" failed

engine == <<table, saved, dbtx>>
tables == <<cursors, next_cursor_id, streams, imports, next_import_id,
            txs, active_tx, next_tx_id>>
heard == <<got, read, ran, told>>
-----------------------------------------------------------------------------
(* The engine (external) *)

\* BEGIN works only in autocommit.
DbBegin == dbtx = "auto" /\ dbtx' = "open" /\ saved' = table /\ UNCHANGED table

DbCommit == dbtx = "open" /\ dbtx' = "auto" /\ saved' = <<>> /\ UNCHANGED table

\* ROLLBACK, and what a COMMIT that fails or meets an aborted transaction does.
DbUndo == dbtx # "auto" /\ dbtx' = "auto" /\ table' = saved /\ saved' = <<>>

\* Rows that a request of "owner" adds; the numbers are never reused.
NewRows(owner, n) == [i \in 1..n |-> [id |-> rows + i, by |-> owner]]
-----------------------------------------------------------------------------
(* Cursors: CursorState and its requests *)

NewCursor(max) ==
  [kind |-> "cursor", next |-> 0, max |-> max, done |-> max = 0,
   cancelled |-> FALSE]

RemainingMaxRows(c) ==
  IF c.max = NoLimit THEN NoLimit
  ELSE IF c.max > c.next THEN c.max - c.next ELSE 0

AtMost(n, limit) == IF limit = NoLimit \/ n <= limit THEN n ELSE limit

Advance(c, fetched, requested) ==
  LET moved == [c EXCEPT !.next = @ + fetched] IN
  [moved EXCEPT !.done = @ \/ fetched < requested
                           \/ RemainingMaxRows(moved) = 0]

CursorFetchLimit(c, n) ==
  IF RemainingMaxRows(c) = 0 THEN 0
  ELSE AtMost(AtMost(n, MaxFetch), RemainingMaxRows(c))

\* The page SELECT * FROM (sql) LIMIT limit OFFSET offset of what is there now.
RunQueryPage(limit, offset) ==
  SubSeq(table, offset + 1, AtMost(offset + limit, Len(table)))

\* validate_tx_for_conn: no tx_id, or one that is known; the engine must not
\* have aborted the transaction for a query to prepare.
HandleQueryStart ==
  /\ dbtx # "aborted"
  /\ next_cursor_id <= MaxCursors
  /\ \E max \in RowLimits :
       /\ cursors' = Append(cursors, NewCursor(max))
       /\ next_cursor_id' = next_cursor_id + 1
  /\ got' = Append(got, <<>>)
  /\ UNCHANGED <<engine, streams, imports, next_import_id, txs, active_tx,
                 next_tx_id, rows, read, ran, told, strayed>>

\* A cursor that is done, or asked for nothing, answers no rows.
FetchCursorPage(c, n) ==
  LET limit == CursorFetchLimit(c, n)
      page == RunQueryPage(limit, c.next)
  IN IF c.done \/ limit = 0 THEN [rows |-> <<>>, cursor |-> c]
     ELSE [rows |-> page, cursor |-> Advance(c, Len(page), limit)]

HandleCursorFetch ==
  /\ dbtx # "aborted"
  /\ \E c \in DOMAIN cursors, n \in FetchSizes :
       /\ cursors[c] # None
       /\ LET fetched == FetchCursorPage(cursors[c], n) IN
          /\ cursors' = [cursors EXCEPT ![c] = fetched.cursor]
          /\ got' = [got EXCEPT ![c] = @ \o fetched.rows]
  /\ UNCHANGED <<engine, next_cursor_id, streams, imports, next_import_id, txs,
                 active_tx, next_tx_id, rows, read, ran, told, strayed>>

HandleCursorCancel ==
  /\ \E c \in DOMAIN cursors :
       /\ cursors[c] # None
       /\ cursors' = [cursors EXCEPT ![c].done = TRUE,
                                  ![c].cancelled = TRUE]
  /\ UNCHANGED <<engine, next_cursor_id, streams, imports, next_import_id, txs,
                 active_tx, next_tx_id, rows, heard, strayed>>

HandleCursorClose ==
  /\ \E c \in DOMAIN cursors :
       /\ cursors[c] # None
       /\ cursors' = [cursors EXCEPT ![c] = None]
  /\ UNCHANGED <<engine, next_cursor_id, streams, imports, next_import_id, txs,
                 active_tx, next_tx_id, rows, heard, strayed>>
-----------------------------------------------------------------------------
(* Statements *)

\* The owner of a row: the transaction named in the request, or nobody.
Owner(tx) == [kind |-> "tx", id |-> tx]
Nobody == [kind |-> "none", id |-> 0]

\* validate_tx_for_conn
ValidTxForConn(tx) == tx = 0 \/ tx \in txs

\* exec/run of a statement that adds a row or deletes the first one.  A tx_id
\* must belong to this connection, but none is asked for while one is active.
HandleExecRun(tx) ==
  /\ dbtx # "aborted"
  /\ ValidTxForConn(tx)
  /\ \/ /\ rows < MaxRows
        /\ table' = table \o NewRows(IF tx = 0 THEN Nobody ELSE Owner(tx), 1)
        /\ rows' = rows + 1
        /\ ran' = IF tx = 0 THEN ran ELSE [ran EXCEPT ![tx] = @ + 1]
     \/ /\ table # <<>> /\ table[1].by = Nobody
        /\ table' = Tail(table)
        /\ UNCHANGED <<rows, ran>>
  /\ UNCHANGED <<saved, dbtx, tables, got, read, told, strayed>>

\* SQL text that is itself a transaction command: the driver does not look.
ExecTxControlText ==
  /\ DbBegin \/ DbCommit \/ DbUndo
  /\ strayed' = strayed \cup {"text"}
  /\ UNCHANGED <<tables, rows, heard>>

\* The statements of a batch that ran and the ones that failed: with
\* stop_on_error nothing follows the first failure, and in a transaction of the
\* connection nothing succeeds after it.
BatchRuns(results, stop, intx) ==
  \A i \in DOMAIN results :
    results[i] = "failed" =>
      IF stop THEN i = Len(results)
      ELSE intx => \A j \in i..Len(results) : results[j] = "failed"

Failures(results) == Cardinality({i \in DOMAIN results : results[i] # "ok"})

\* exec/batch.  in_transaction needs BEGIN to work, and ends with COMMIT or, on
\* any error, ROLLBACK; otherwise the statements join whatever is open.
HandleExecBatch ==
  \E results \in SeqOf({"ok", "failed"}, MaxChunk), stop, in_transaction \in BOOLEAN :
    LET added == Len(results) - Failures(results)
        after == table \o NewRows(Nobody, added)
    IN
    /\ rows + added <= MaxRows
    /\ BatchRuns(results, stop, in_transaction \/ dbtx # "auto")
    /\ rows' = rows + added
    /\ \/ /\ in_transaction /\ dbtx = "auto"
          /\ table' \in IF Failures(results) = 0 THEN {after, table} ELSE {table}
          /\ UNCHANGED dbtx
       \/ /\ ~in_transaction
          /\ dbtx = "aborted" => added = 0
          /\ table' = after
          /\ dbtx' = IF dbtx = "open" /\ Failures(results) > 0
                     THEN "aborted" ELSE dbtx
    /\ UNCHANGED <<saved, tables, heard, strayed>>

\* Any statement of any request may fail, or be interrupted by the reader
\* thread, in an open transaction and abort it.
StatementFails ==
  /\ dbtx = "open"
  /\ dbtx' = "aborted"
  /\ UNCHANGED <<table, saved, tables, rows, heard, strayed>>
-----------------------------------------------------------------------------
(* Transactions: one at a time *)

HandleTxBegin ==
  /\ active_tx = 0
  /\ next_tx_id <= MaxTx
  /\ DbBegin
  /\ txs' = txs \cup {next_tx_id}
  /\ active_tx' = next_tx_id
  /\ next_tx_id' = next_tx_id + 1
  /\ UNCHANGED <<cursors, next_cursor_id, streams, imports, next_import_id,
                 rows, heard, strayed>>

CloseTx(tx) ==
  /\ txs' = txs \ {tx}
  /\ active_tx' = IF active_tx = tx THEN 0 ELSE active_tx
  /\ UNCHANGED <<cursors, next_cursor_id, streams, imports, next_import_id,
                 next_tx_id>>

Tell(kind, id, end, n) ==
  told' = told \cup {[kind |-> kind, id |-> id, end |-> end, n |-> n]}

\* The engine may answer the COMMIT of an aborted transaction with success, and
\* undo it: the answer is then the same, but a statement of the transaction was
\* answered an error before.
UndoneByCommit == dbtx = "aborted" /\ DbUndo

\* The answer is OK whenever COMMIT is.  A COMMIT that fails undoes the
\* transaction in the engine, and the driver keeps the tx_id.
HandleTxCommit(tx) ==
  /\ tx \in txs
  /\ \/ /\ \/ DbCommit /\ Tell("tx", tx, "committed", ran[tx])
           \/ UndoneByCommit /\ Tell("tx", tx, "committed after an error", ran[tx])
        /\ CloseTx(tx)
        /\ UNCHANGED strayed
     \/ /\ DbUndo
        /\ strayed' = strayed \cup {"commit"}
        /\ UNCHANGED <<tables, told>>
  /\ UNCHANGED <<rows, got, read, ran>>

HandleTxRollback(tx) ==
  /\ tx \in txs
  /\ DbUndo
  /\ CloseTx(tx)
  /\ Tell("tx", tx, "rolled back", 0)
  /\ UNCHANGED <<rows, got, read, ran, strayed>>
-----------------------------------------------------------------------------
(* Exports: a row is two bytes, a CSV header one *)

Header == <<0>>
RenderRows(page) == [i \in 1..(2 * Len(page)) |-> page[(i + 1) \div 2].id]

NewStream(max, csv) ==
  [kind |-> "stream", next |-> 0, max |-> max, done |-> max = 0,
   csv |-> csv, header_written |-> FALSE, pending |-> <<>>]

\* An export under an id that is in use replaces it.
HandleDataExport ==
  /\ dbtx # "aborted"
  /\ \E s \in StreamIds, max \in RowLimits, csv \in BOOLEAN :
       /\ streams' = [streams EXCEPT ![s] = NewStream(max, csv)]
       /\ read' = [read EXCEPT ![s] = <<>>]
       /\ stable' = stable \cup {[kind |-> "stream", id |-> s]}
  /\ UNCHANGED <<engine, cursors, next_cursor_id, imports, next_import_id, txs,
                 active_tx, next_tx_id, rows, got, ran, told, strayed>>

FillStreamBuffer(s) ==
  LET limit == AtMost(ExportFetchRows, RemainingMaxRows(s))
      page == RunQueryPage(limit, s.next)
      head == IF s.csv /\ ~s.header_written THEN Header ELSE <<>>
  IN Advance([s EXCEPT !.pending = @ \o head \o RenderRows(page),
                       !.header_written = s.csv], Len(page), limit)

NeedsFill(s) == s.pending = <<>> /\ ~s.done

EnsureStreamBuffered(s) == IF NeedsFill(s) THEN FillStreamBuffer(s) ELSE s

\* drain_pending: the bytes taken and the stream that is left.
DrainPending(s, n) ==
  LET take == AtMost(n, Len(s.pending)) IN
  [bytes |-> SubSeq(s.pending, 1, take),
   stream |-> [s EXCEPT !.pending = SubSeq(@, take + 1, Len(@))]]

HandleStreamRead ==
  /\ \E s \in StreamIds, n \in ReadSizes :
       /\ streams[s] # None
       /\ NeedsFill(streams[s]) => dbtx # "aborted"
       /\ LET drained == DrainPending(EnsureStreamBuffered(streams[s]), n) IN
          /\ streams' = [streams EXCEPT ![s] = drained.stream]
          /\ read' = [read EXCEPT ![s] = @ \o drained.bytes]
  /\ UNCHANGED <<engine, cursors, next_cursor_id, imports, next_import_id, txs,
                 active_tx, next_tx_id, rows, got, ran, told, strayed>>

HandleStreamClose ==
  /\ \E s \in StreamIds :
       /\ streams[s] # None
       /\ streams' = [streams EXCEPT ![s] = None]
       /\ read' = [read EXCEPT ![s] = <<>>]
  /\ UNCHANGED <<engine, cursors, next_cursor_id, imports, next_import_id, txs,
                 active_tx, next_tx_id, rows, got, ran, told, strayed>>
-----------------------------------------------------------------------------
(* Imports: each in a transaction of its own on the connection *)

ImportOwner(i) == [kind |-> "import", id |-> i]

NewImport(limit) ==
  [kind |-> "import", inserted |-> 0, failed |-> 0, limit |-> limit]

\* record_inserted and record_failed, for the rows of a chunk.
RecordRows(imp, inserted, failed) ==
  [imp EXCEPT !.inserted = @ + inserted, !.failed = @ + failed]

\* Mutant: an import starts inside a transaction of the host.
ImportBeginNested ==
  /\ next_import_id <= MaxImports
  /\ DbBegin \/ UNCHANGED engine
  /\ \E limit \in Thresholds :
       imports' = Append(imports, NewImport(limit))
  /\ next_import_id' = next_import_id + 1
  /\ UNCHANGED <<cursors, next_cursor_id, streams, txs, active_tx, next_tx_id,
                 rows, heard, strayed>>

HandleDataImportBegin ==
  /\ active_tx = 0
  /\ next_import_id <= MaxImports
  /\ DbBegin
  /\ \E limit \in Thresholds :
       imports' = Append(imports, NewImport(limit))
  /\ next_import_id' = next_import_id + 1
  /\ UNCHANGED <<cursors, next_cursor_id, streams, txs, active_tx, next_tx_id,
                 rows, heard, strayed>>

\* enforce_failure_threshold ends the chunk at the first row that has more
\* failures behind it than allowed.
ChunkEnds(imp, results) ==
  imp.limit # NoLimit =>
    \A k \in 1..(Len(results) - 1) :
      imp.failed + Failures(SubSeq(results, 1, k)) <= imp.limit

\* A row of the wrong shape fails before the engine sees it; a row the engine
\* rejects aborts the transaction, and then no row is accepted any more.
ChunkRuns(results) ==
  \A i \in DOMAIN results : results[i] = "rejected" =>
    \A j \in i..Len(results) : results[j] # "ok"

HandleDataImportChunk ==
  \E i \in DOMAIN imports,
     results \in SeqOf({"ok", "shape", "rejected"}, MaxChunk) :
    LET failed == Failures(results)
        added == Len(results) - failed
    IN
    /\ imports[i] # None
    /\ results # <<>> /\ rows + added <= MaxRows
    /\ imports[i].failed + failed <= MaxFailed
    /\ ChunkEnds(imports[i], results)
    /\ dbtx = "aborted" => added = 0
    /\ dbtx # "auto" => ChunkRuns(results)
    /\ rows' = rows + added
    /\ table' = table \o NewRows(ImportOwner(i), added)
    /\ dbtx' = IF dbtx = "open" /\ \E j \in DOMAIN results : results[j] = "rejected"
               THEN "aborted" ELSE dbtx
    /\ imports' = [imports EXCEPT ![i] = RecordRows(@, added, failed)]
    /\ UNCHANGED <<saved, cursors, next_cursor_id, streams, next_import_id, txs,
                   active_tx, next_tx_id, heard, strayed>>

RemoveImport(i) ==
  /\ imports' = [imports EXCEPT ![i] = None]
  /\ UNCHANGED <<cursors, next_cursor_id, streams, next_import_id, txs,
                 active_tx, next_tx_id>>

\* The import is forgotten whatever COMMIT answers: success, that of an aborted
\* transaction too, and an error of a COMMIT that undid it or found no transaction.
HandleDataImportCommit ==
  \E i \in DOMAIN imports :
    /\ imports[i] # None
    /\ RemoveImport(i)
    /\ \/ DbCommit /\ Tell("import", i, "committed", imports[i].inserted)
       \/ UndoneByCommit /\ Tell("import", i, "committed after an error", imports[i].inserted)
       \/ DbUndo /\ UNCHANGED told
       \/ dbtx = "auto" /\ UNCHANGED <<engine, told>>
    /\ UNCHANGED <<rows, got, read, ran, strayed>>

HandleDataImportAbort ==
  \E i \in DOMAIN imports :
    /\ imports[i] # None
    /\ RemoveImport(i)
    /\ \/ DbUndo /\ Tell("import", i, "rolled back", 0)
       \/ dbtx = "auto" /\ UNCHANGED <<engine, told>>
    /\ UNCHANGED <<rows, got, read, ran, strayed>>
-----------------------------------------------------------------------------
Init ==
  /\ worker = "new"
  /\ table = <<>> /\ saved = <<>> /\ dbtx = "auto"
  /\ cursors = <<>> /\ next_cursor_id = 1
  /\ streams = [s \in StreamIds |-> None]
  /\ imports = <<>> /\ next_import_id = 1
  /\ txs = {} /\ active_tx = 0 /\ next_tx_id = 1
  /\ rows = 0 /\ got = <<>> /\ read = [s \in StreamIds |-> <<>>]
  /\ ran = [tx \in 1..MaxTx |-> 0]
  /\ stable = {} /\ told = {} /\ strayed = {}

\* open_connection: the database is opened before the worker starts; it may
\* hold rows.
OpenConnection ==
  /\ worker = "new"
  /\ worker' = "open"
  /\ \E n \in 0..MaxRows :
       /\ table' = [i \in 1..n |-> [id |-> i, by |-> Nobody]]
       /\ rows' = n
  /\ UNCHANGED <<saved, dbtx, tables, heard, stable, strayed>>

\* close(): the connection is dropped, and the engine undoes what was open.
Close ==
  /\ worker = "open"
  /\ worker' = "closed"
  /\ DbUndo \/ (dbtx = "auto" /\ UNCHANGED engine)
  /\ stable' = {}
  /\ UNCHANGED <<tables, rows, heard, strayed>>

\* Every request but data/export, which starts a history of its own.
Request ==
  \/ HandleQueryStart \/ HandleCursorFetch
  \/ HandleCursorCancel \/ HandleCursorClose
  \/ \E tx \in 0..MaxTx : HandleExecRun(tx)
  \/ ExecTxControlText \/ HandleExecBatch \/ StatementFails
  \/ HandleTxBegin
  \/ \E tx \in 1..MaxTx : HandleTxCommit(tx) \/ HandleTxRollback(tx)
  \/ HandleStreamRead \/ HandleStreamClose
  \/ HandleDataImportBegin \/ HandleDataImportChunk
  \/ HandleDataImportCommit \/ HandleDataImportAbort

Call ==
  /\ worker = "open"
  /\ UNCHANGED worker
  /\ \/ HandleDataExport
     \/ /\ Request
        /\ stable' = IF table' = table
                     THEN stable \cup {[kind |-> "cursor", id |-> c] :
                                       c \in DOMAIN cursors' \ DOMAIN cursors}
                     ELSE {}

Next == OpenConnection \/ Call \/ Close

vars == <<worker, engine, tables, rows, heard, stable, strayed>>
Spec == Init /\ [][Next]_vars
-----------------------------------------------------------------------------
\* Types of the driver's tables and of the engine.
TypeOK ==
  /\ worker \in {"new", "open", "closed"}
  /\ dbtx \in {"auto", "open", "aborted"}
  /\ \A i \in DOMAIN table : table[i].id \in 1..MaxRows
  /\ \A c \in DOMAIN cursors :
       cursors[c] = None \/ cursors[c].next \in 0..MaxRows
  /\ \A s \in StreamIds : streams[s] = None \/ streams[s].next \in 0..MaxRows
  /\ txs \subseteq 1..MaxTx
  /\ active_tx = 0 \/ active_tx \in txs
  /\ next_cursor_id = Len(cursors) + 1 /\ next_import_id = Len(imports) + 1
  /\ strayed \subseteq {"text", "commit"}

OpenImports == {i \in DOMAIN imports : imports[i] # None}

\* The driver's idea of a transaction is the engine's: unless SQL text or a
\* failed COMMIT ended one behind its back, the engine is in a transaction
\* exactly while one tx_id or one import is open, and never both.
TxMirrorsEngine ==
  worker = "open" /\ strayed = {} =>
    /\ Cardinality(txs) + Cardinality(OpenImports) = (IF dbtx = "auto" THEN 0 ELSE 1)
    /\ txs = {active_tx} \ {0}

RowsOf(e) ==
  {i \in DOMAIN table : table[i].by = [kind |-> e.kind, id |-> e.id]}

\* What tx/commit, tx/rollback, data/import_commit and data/import_abort
\* answered is what happened: everything that was answered under a committed
\* one is in the table for good, and nothing of one that was rolled back.  The
\* success of a commit is to be believed only when no statement of it aborted
\* the transaction, which the host was told by an error or by a row that was not
\* inserted: after one the driver passes on the OK of an engine that undid it,
\* and nothing of it is in the table.
AnswersAreTrue ==
  worker = "open" /\ "text" \notin strayed =>
    \A e \in told :
      Cardinality(RowsOf(e)) = (IF e.end = "committed" THEN e.n ELSE 0)

IsStable(kind, id) == [kind |-> kind, id |-> id] \in stable

\* A cursor over a table that does not change delivers every row once and in
\* order, up to max_rows, however the fetches divide it and although every page
\* runs the query again; when it says done, nothing is missing.
CursorDelivers ==
  \A c \in DOMAIN cursors :
    IsStable("cursor", c) /\ cursors[c] # None =>
      /\ got[c] = SubSeq(table, 1, cursors[c].next)
      /\ cursors[c].done /\ ~cursors[c].cancelled =>
           Len(got[c]) = AtMost(Len(table), cursors[c].max)

\* An export of a table that does not change is the header once, unless
\* max_rows is zero, and every row once, cut at any byte by the reads.
StreamsDeliver ==
  \A s \in StreamIds :
    LET st == streams[s] IN
    IsStable("stream", s) /\ st # None =>
      /\ read[s] \o st.pending =
           (IF st.csv /\ st.header_written THEN Header ELSE <<>>)
             \o RenderRows(SubSeq(table, 1, st.next))
      /\ st.done =>
           /\ st.next = AtMost(Len(table), st.max)
           /\ st.header_written = (st.csv /\ st.max # 0)

\* A connection of DuckDB tells the host what the engine did: its transactions,
\* its imports, and the rows of its cursors and exports.
ConnectionIsTrue == TypeOK /\ TxMirrorsEngine /\ AnswersAreTrue /\ CursorDelivers /\ StreamsDeliver
=============================================================================
