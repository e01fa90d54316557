------------------------------ MODULE OpenGauss ------------------------------
(***************************************************************************)
(* One connection of the openGauss driver (extensions/ipc/opengauss): the  *)
(* tables of ConnectionState and the requests OpenGaussConnection::call    *)
(* routes to them.  A connection handles one request after the other, so a *)
(* request is one action.                                                  *)
(*                                                                         *)
(* The server is external: a record "db" of the rows of a table, the state *)
(* of the session's transaction and its savepoints.  "belief" is the same  *)
(* record driven by the requests the host was answered, as if every request*)
(* were its own SQL: the driver has to keep the two together although it   *)
(* keeps no tx_id in its statements, runs batches and chunks row by row and*)
(* reads catalogs in the host's transaction.                               *)
(***************************************************************************)
EXTENDS Naturals, Sequences, FiniteSets, SequencesExt

CONSTANTS Unlimited,    \* a limit that is not given
          OgStreamIds,  \* ids a host gives to exports
          Savepoints,   \* names of savepoints
          OgRowLimits,  \* values of max_rows, Unlimited among them
          Sizes,        \* values of n and of max_bytes
          MaxSize,      \* 10000 rows a fetch, 1 MiB a read
          OgThresholds, \* values of abort_on_failures, Unlimited among them
          OgMaxRows, OgMaxCursors, OgMaxTx, OgMaxImports, OgMaxChunk, MaxMarks  \* bounds

ASSUME OpenGaussAssumption ==
  /\ Unlimited \notin Nat /\ MaxSize \in Nat \ {0}
  /\ OgMaxRows \in Nat /\ OgMaxCursors \in Nat /\ OgMaxTx \in Nat
  /\ OgMaxImports \in Nat /\ OgMaxChunk \in Nat /\ MaxMarks \in Nat
  /\ OgRowLimits \subseteq Nat \cup {Unlimited} /\ Sizes \subseteq Nat
  /\ OgThresholds \subseteq Nat \cup {Unlimited}

VARIABLES conn,       \* "open" or "closed": the connection task
          db,         \* external: the server's session
          ogCursors, ogStreams, ogImports,
          tx_conn,    \* the tx_ids handed out and not ended
          next_tx,    \* uuids: the next one that was never used
          belief,     \* history: the session the host was told of
          orphans,    \* history: rows of requests that answered an error
          ogRows,     \* history: rows ever inserted; they number the rows
          skipped,    \* history: rows of imports that met a conflict
          lost,       \* history: some row was undone
          swallowed   \* history: an answer hid that the transaction was aborted

OgNone == [kind |-> "none"]
session == <<db, belief, orphans, ogRows, skipped, lost, swallowed>>
ogTables == <<ogCursors, ogStreams, ogImports, tx_conn, next_tx>>
ogVars == <<conn, session, ogTables>>
-----------------------------------------------------------------------------
(* The server (external) *)

Cmd(name) == [cmd |-> name]
Insert(row) == [cmd |-> "INSERT", row |-> row]
Save(n) == [cmd |-> "SAVEPOINT", name |-> n]
RollbackTo(n) == [cmd |-> "ROLLBACK TO", name |-> n]
Release(n) == [cmd |-> "RELEASE", name |-> n]

MarksOf(d, n) == {i \in DOMAIN d.marks : d.marks[i].name = n}
LastMark(d, n) == CHOOSE i \in MarksOf(d, n) : \A j \in MarksOf(d, n) : j <= i

\* BEGIN in a transaction and COMMIT or ROLLBACK outside one only warn.
Accepts(d, s) ==
  CASE s.cmd \in {"INSERT", "BEGIN"} -> d.tx # "aborted"
    [] s.cmd \in {"COMMIT", "ROLLBACK"} -> TRUE
    [] s.cmd = "SAVEPOINT" -> d.tx = "open"
    [] s.cmd = "ROLLBACK TO" -> d.tx # "auto" /\ MarksOf(d, s.name) # {}
    [] s.cmd = "RELEASE" -> d.tx = "open" /\ MarksOf(d, s.name) # {}

Undone(d) ==
  [rows |-> IF d.tx = "auto" THEN d.rows ELSE d.saved, tx |-> "auto",
   saved |-> <<>>, marks |-> <<>>]

After(d, s) ==
  CASE s.cmd = "INSERT" -> [d EXCEPT !.rows = Append(@, s.row)]
    [] s.cmd = "BEGIN" -> IF d.tx = "auto"
                          THEN [d EXCEPT !.tx = "open", !.saved = d.rows] ELSE d
    [] s.cmd = "COMMIT" -> IF d.tx = "aborted" THEN Undone(d)
                           ELSE [d EXCEPT !.tx = "auto", !.saved = <<>>, !.marks = <<>>]
    [] s.cmd = "ROLLBACK" -> Undone(d)
    [] s.cmd = "SAVEPOINT" ->
         [d EXCEPT !.marks = Append(@, [name |-> s.name, rows |-> d.rows])]
    [] s.cmd = "ROLLBACK TO" ->
         [d EXCEPT !.tx = "open", !.rows = d.marks[LastMark(d, s.name)].rows,
                   !.marks = SubSeq(@, 1, LastMark(d, s.name))]
    [] s.cmd = "RELEASE" -> [d EXCEPT !.marks = SubSeq(@, 1, LastMark(d, s.name) - 1)]

\* A statement that fails aborts the transaction; a COMMIT that fails ends it,
\* and a ROLLBACK fails only when the server is gone.
Failed(d, s) ==
  IF s.cmd \in {"COMMIT", "ROLLBACK"} THEN Undone(d)
  ELSE IF d.tx = "open" THEN [d EXCEPT !.tx = "aborted"] ELSE d

\* INSERTs that succeed, one after the other.
InsertAll(d, new) == [d EXCEPT !.rows = @ \o new]

OgRowsOf(i) == {k \in DOMAIN db.rows : db.rows[k].by = i}
Noted == lost' = (lost \/ ~IsPrefix(db.rows, db'.rows))

\* The driver sends one statement; the host takes it for "intent".
SimpleExecute(sql, intent) ==
  /\ \/ Accepts(db, sql) /\ db' = After(db, sql) /\ belief' = After(belief, intent)
     \/ db' = Failed(db, sql) /\ belief' = Failed(belief, intent)
  /\ Noted
  /\ UNCHANGED <<orphans, ogRows, skipped, swallowed>>
-----------------------------------------------------------------------------
(* Cursors: the whole result is read at query/start *)

OgAtMost(n, limit) == IF limit = Unlimited \/ n <= limit THEN n ELSE limit
Clamp(n) == IF n = 0 THEN 1 ELSE OgAtMost(n, MaxSize)

OgNewCursor(max) ==
  [kind |-> "cursor", rows |-> db.rows, next |-> 0, max |-> max,
   done |-> max = 0, cancelled |-> FALSE, got |-> <<>>]

\* CursorState::fetch; "got" is a history of the rows that were answered.
CursorFetch(c, n) ==
  LET left == IF c.max = Unlimited THEN Unlimited ELSE c.max - c.next
      end == OgAtMost(c.next + OgAtMost(Clamp(n), left), Len(c.rows))
  IN IF c.done THEN c
     ELSE [c EXCEPT !.next = end, !.got = @ \o SubSeq(c.rows, c.next + 1, end),
                    !.done = end >= Len(c.rows) \/ (c.max # Unlimited /\ end >= c.max)]

OgHandleQueryStart ==
  /\ db.tx # "aborted" /\ Len(ogCursors) < OgMaxCursors
  /\ \E max \in OgRowLimits : ogCursors' = Append(ogCursors, OgNewCursor(max))
  /\ UNCHANGED <<session, ogStreams, ogImports, tx_conn, next_tx>>

UpdateCursor(c, new) ==
  /\ ogCursors[c] # OgNone
  /\ ogCursors' = [ogCursors EXCEPT ![c] = new]
  /\ UNCHANGED <<session, ogStreams, ogImports, tx_conn, next_tx>>

OgHandleCursorFetch ==
  \E c \in DOMAIN ogCursors, n \in Sizes : UpdateCursor(c, CursorFetch(ogCursors[c], n))

OgHandleCursorCancel ==
  \E c \in DOMAIN ogCursors :
    UpdateCursor(c, [ogCursors[c] EXCEPT !.done = TRUE, !.cancelled = TRUE])

OgHandleCursorClose == \E c \in DOMAIN ogCursors : UpdateCursor(c, OgNone)
-----------------------------------------------------------------------------
(* Exports: the whole text is made by data/export; a row is two bytes, a CSV *)
(* header one *)

RenderExport(table, csv) ==
  (IF csv THEN <<0>> ELSE <<>>)
    \o [i \in 1..(2 * Len(table)) |-> table[(i + 1) \div 2].id]

OgNewStream(data) == [kind |-> "stream", data |-> data, offset |-> 0, got |-> <<>>]

\* The text of max_rows rows; the id replaces an export that has it.
OgHandleDataExport ==
  /\ db.tx # "aborted"
  /\ \E s \in OgStreamIds, max \in OgRowLimits, csv \in BOOLEAN :
       ogStreams' = [ogStreams EXCEPT ![s] =
         OgNewStream(RenderExport(SubSeq(db.rows, 1, OgAtMost(Len(db.rows), max)), csv))]
  /\ UNCHANGED <<session, ogCursors, ogImports, tx_conn, next_tx>>

StreamRead(s, n) ==
  LET end == OgAtMost(s.offset + Clamp(n), Len(s.data)) IN
  [s EXCEPT !.offset = end, !.got = @ \o SubSeq(s.data, s.offset + 1, end)]

OgHandleStreamRead ==
  /\ \E s \in OgStreamIds, n \in Sizes :
       /\ ogStreams[s] # OgNone
       /\ ogStreams' = [ogStreams EXCEPT ![s] = StreamRead(@, n)]
  /\ UNCHANGED <<session, ogCursors, ogImports, tx_conn, next_tx>>

OgHandleStreamClose ==
  /\ \E s \in OgStreamIds :
       ogStreams[s] # OgNone /\ ogStreams' = [ogStreams EXCEPT ![s] = OgNone]
  /\ UNCHANGED <<session, ogCursors, ogImports, tx_conn, next_tx>>
-----------------------------------------------------------------------------
(* Statements: the tx_id of a request is not looked at *)

NewRow(k, owner) == [id |-> ogRows + k, by |-> owner]
OgNewRows(n, owner) == [k \in 1..n |-> NewRow(k, owner)]

OgHandleExecRun ==
  /\ ogRows < OgMaxRows
  /\ \/ /\ Accepts(db, Insert(NewRow(1, 0)))
        /\ db' = After(db, Insert(NewRow(1, 0)))
        /\ belief' = After(belief, Insert(NewRow(1, 0)))
        /\ ogRows' = ogRows + 1
     \/ /\ db' = Failed(db, Cmd("INSERT")) /\ belief' = Failed(belief, Cmd("INSERT"))
        /\ UNCHANGED ogRows
  /\ Noted
  /\ UNCHANGED <<ogTables, orphans, skipped, swallowed>>

\* execute_batch stops at the first statement that fails and answers an error
\* for all; what ran before it stays.  stop_on_error and in_transaction are
\* not looked at.
OgHandleExecBatch ==
  \E n \in 1..OgMaxChunk, ok \in 0..OgMaxChunk :
    LET new == OgNewRows(ok, 0) IN
    /\ ok <= n /\ ogRows + ok <= OgMaxRows
    /\ ok > 0 => db.tx # "aborted"
    /\ ogRows' = ogRows + ok
    /\ IF ok = n
       THEN /\ db' = InsertAll(db, new) /\ belief' = InsertAll(belief, new)
            /\ UNCHANGED orphans
       ELSE /\ db' = Failed(InsertAll(db, new), Cmd("INSERT"))
            /\ belief' = Failed(belief, Cmd("INSERT"))
            /\ orphans' = orphans \cup {ogRows + k : k \in 1..ok}
    /\ Noted
    /\ UNCHANGED <<ogTables, skipped, swallowed>>

\* Catalog reads, conn/ping and conn/use run in the host's transaction; one
\* that fails aborts it and says so.
HandleSchemaReadFails ==
  /\ db.tx = "open"
  /\ db' = Failed(db, Cmd("SELECT")) /\ belief' = Failed(belief, Cmd("SELECT"))
  /\ UNCHANGED <<ogTables, orphans, ogRows, skipped, lost, swallowed>>

\* table_definition, in schema/dump_ddl, takes any error for "no definition":
\* on a server without pg_get_tabledef the request succeeds and the transaction
\* is aborted.
HandleDumpDdlSwallows ==
  /\ db.tx = "open"
  /\ db' = Failed(db, Cmd("SELECT"))
  /\ swallowed' = TRUE
  /\ UNCHANGED <<ogTables, belief, orphans, ogRows, skipped, lost>>
-----------------------------------------------------------------------------
(* Transactions: tx_ids are names for the one transaction of the session *)

\* tx/begin works while another tx_id is open, too: BEGIN only warns.
OgHandleTxBegin ==
  /\ next_tx <= OgMaxTx
  /\ SimpleExecute(Cmd("BEGIN"), Cmd("BEGIN"))
  /\ IF Accepts(db, Cmd("BEGIN")) /\ db' = After(db, Cmd("BEGIN"))
     THEN tx_conn' = tx_conn \cup {next_tx} /\ next_tx' = next_tx + 1
     ELSE UNCHANGED <<tx_conn, next_tx>>
  /\ UNCHANGED <<ogCursors, ogStreams, ogImports>>

\* The tx_id is forgotten before COMMIT is tried.
OgHandleTxCommit(tx) ==
  /\ tx \in tx_conn
  /\ tx_conn' = tx_conn \ {tx}
  /\ SimpleExecute(Cmd("COMMIT"), Cmd("COMMIT"))
  /\ UNCHANGED <<ogCursors, ogStreams, ogImports, next_tx>>

\* Mutant: a rollback to a savepoint forgets the tx_id, as a full one does.
TxRollbackForgets(tx) ==
  /\ tx \in tx_conn
  /\ tx_conn' = tx_conn \ {tx}
  /\ \/ SimpleExecute(Cmd("ROLLBACK"), Cmd("ROLLBACK"))
     \/ \E n \in Savepoints : SimpleExecute(RollbackTo(n), RollbackTo(n))
  /\ UNCHANGED <<ogCursors, ogStreams, ogImports, next_tx>>

OgHandleTxRollback(tx) ==
  /\ tx \in tx_conn
  /\ \/ /\ tx_conn' = tx_conn \ {tx}
        /\ SimpleExecute(Cmd("ROLLBACK"), Cmd("ROLLBACK"))
     \/ /\ \E n \in Savepoints : SimpleExecute(RollbackTo(n), RollbackTo(n))
        /\ UNCHANGED tx_conn
  /\ UNCHANGED <<ogCursors, ogStreams, ogImports, next_tx>>

HandleTxSavepoint(tx) ==
  /\ tx \in tx_conn /\ Len(db.marks) < MaxMarks
  /\ \E n \in Savepoints : SimpleExecute(Save(n), Save(n))
  /\ UNCHANGED ogTables

HandleTxRelease(tx) ==
  /\ tx \in tx_conn
  /\ \E n \in Savepoints : SimpleExecute(Release(n), Release(n))
  /\ UNCHANGED ogTables
-----------------------------------------------------------------------------
(* Imports: rows go to the table one by one, in whatever transaction is open *)

OgNewImport(limit, track) ==
  [kind |-> "import", limit |-> limit, track |-> track, inserted |-> 0,
   failed |-> 0, next_row |-> 0]

Those(results, kinds) == Cardinality({i \in DOMAIN results : results[i] \in kinds})

\* A row fails when the server rejects it, or before it is sent: a value that
\* does not bind.
RowFails == {"rejected", "unbound"}

\* record_inserted and record_failed over the rows of a chunk; a row that
\* ON CONFLICT DO NOTHING skipped counts as inserted, and failures are kept
\* only with track_failed_rows.
OgRecordRows(imp, results) ==
  [imp EXCEPT !.inserted = @ + Those(results, {"ok", "skipped"}),
              !.failed = IF imp.track THEN @ + Those(results, RowFails) ELSE @,
              !.next_row = @ + Those(results, {"ok", "skipped"} \cup RowFails)]

OgHandleDataImportBegin ==
  /\ Len(ogImports) < OgMaxImports
  /\ \E limit \in OgThresholds, track \in BOOLEAN :
       ogImports' = Append(ogImports, OgNewImport(limit, track))
  /\ UNCHANGED <<session, ogCursors, ogStreams, tx_conn, next_tx>>

\* A row of the wrong shape ends the request with an error.  The threshold
\* counts the failures of this chunk, and only the tracked ones.
OgChunkRuns(imp, results, intx) ==
  \A k \in 1..(Len(results) - 1) :
    /\ results[k] # "shape"
    /\ results[k] \in RowFails /\ imp.track /\ imp.limit # Unlimited =>
         Those(SubSeq(results, 1, k), RowFails) < imp.limit
    /\ results[k] = "rejected" /\ intx =>
         \A j \in k..Len(results) : results[j] \notin {"ok", "skipped"}

\* A chunk that answers an error names none of its rows, and without
\* track_failed_rows no answer names the rows that failed: the host is not told
\* that the server has aborted its transaction.
OgHandleDataImportChunk ==
  \E i \in DOMAIN ogImports,
     results \in SeqOf({"ok", "skipped", "shape"} \cup RowFails, OgMaxChunk) :
    LET added == Those(results, {"ok"})
        new == OgNewRows(added, i)
        grown == InsertAll(db, new)
        rejects == Those(results, {"rejected"}) > 0
        error == results # <<>> /\ Last(results) = "shape"
        named == ogImports[i].track /\ ~error
        answered == IF error THEN belief ELSE InsertAll(belief, new)
    IN
    /\ ogImports[i] # OgNone
    /\ results # <<>> /\ ogRows + added <= OgMaxRows
    /\ ogImports[i].next_row + Len(results) <= OgMaxRows + 1
    /\ db.tx = "aborted" => Those(results, {"ok", "skipped"}) = 0
    /\ OgChunkRuns(ogImports[i], results, db.tx # "auto")
    /\ ogRows' = ogRows + added
    /\ db' = IF rejects THEN Failed(grown, Cmd("INSERT")) ELSE grown
    /\ belief' = IF rejects /\ named THEN Failed(answered, Cmd("INSERT")) ELSE answered
    /\ swallowed' = (swallowed \/ (rejects /\ ~named /\ db.tx = "open"))
    /\ orphans' = IF error THEN orphans \cup {ogRows + k : k \in 1..added} ELSE orphans
    /\ skipped' = [skipped EXCEPT ![i] = @ + Those(results, {"skipped"})]
    /\ ogImports' = [ogImports EXCEPT ![i] = OgRecordRows(@, results)]
    /\ UNCHANGED <<ogCursors, ogStreams, tx_conn, next_tx, lost>>

OgRemoveImport ==
  /\ \E i \in DOMAIN ogImports :
       ogImports[i] # OgNone /\ ogImports' = [ogImports EXCEPT ![i] = OgNone]
  /\ UNCHANGED <<session, ogCursors, ogStreams, tx_conn, next_tx>>

\* Nothing is sent to the server: data/import_commit answers the counts, and
\* data/import_abort leaves the rows that were inserted.
OgHandleDataImportCommit == OgRemoveImport
OgHandleDataImportAbort == OgRemoveImport
-----------------------------------------------------------------------------
Empty == [rows |-> <<>>, tx |-> "auto", saved |-> <<>>, marks |-> <<>>]

OgInit ==
  /\ conn = "open" /\ db = Empty /\ belief = Empty
  /\ ogCursors = <<>> /\ ogStreams = [s \in OgStreamIds |-> OgNone] /\ ogImports = <<>>
  /\ tx_conn = {} /\ next_tx = 1
  /\ orphans = {} /\ ogRows = 0 /\ skipped = [i \in 1..OgMaxImports |-> 0]
  /\ lost = FALSE /\ swallowed = FALSE

\* close(): the connection task is aborted, the server undoes what was open.
OgClose ==
  /\ conn = "open" /\ conn' = "closed"
  /\ db' = Undone(db) /\ belief' = Undone(belief)
  /\ Noted
  /\ UNCHANGED <<ogTables, orphans, ogRows, skipped, swallowed>>

OgCall ==
  \/ OgHandleQueryStart \/ OgHandleCursorFetch \/ OgHandleCursorCancel \/ OgHandleCursorClose
  \/ OgHandleDataExport \/ OgHandleStreamRead \/ OgHandleStreamClose
  \/ OgHandleExecRun \/ OgHandleExecBatch
  \/ HandleSchemaReadFails \/ HandleDumpDdlSwallows
  \/ OgHandleTxBegin
  \/ \E tx \in 1..OgMaxTx : \/ OgHandleTxCommit(tx) \/ OgHandleTxRollback(tx)
                          \/ HandleTxSavepoint(tx) \/ HandleTxRelease(tx)
  \/ OgHandleDataImportBegin \/ OgHandleDataImportChunk
  \/ OgHandleDataImportCommit \/ OgHandleDataImportAbort

OgNext == (conn = "open" /\ UNCHANGED conn /\ OgCall) \/ OgClose

OgSpec == OgInit /\ [][OgNext]_ogVars
-----------------------------------------------------------------------------
\* Types of the driver's tables and of the session.
OgTypeOK ==
  /\ conn \in {"open", "closed"}
  /\ db.tx \in {"auto", "open", "aborted"}
  /\ \A c \in DOMAIN ogCursors :
       ogCursors[c] = OgNone \/ ogCursors[c].next \in 0..Len(ogCursors[c].rows)
  /\ \A s \in OgStreamIds :
       ogStreams[s] = OgNone \/ ogStreams[s].offset \in 0..Len(ogStreams[s].data)
  /\ tx_conn \subseteq 1..(next_tx - 1)

\* No transaction is left behind on the session: while the server is in one,
\* some tx_id that the host still holds can end it, over savepoints, failed
\* statements and tx/begin in an open transaction.
OpenTxHasAnId == conn = "open" /\ db.tx # "auto" => tx_conn # {}

\* Rows in the order they were inserted: a table has each of them once.
InOrder(table) == \A i, j \in DOMAIN table : i < j => table[i].id < table[j].id

\* The rows of a table but for some, in order.
IsTold(told, table, hidden) ==
  InOrder(told) /\ Range(told) = {r \in Range(table) : r.id \notin hidden}

\* The driver is a transparent session: what is in the table is what the
\* answers said, but for the rows that a batch or a chunk had inserted before
\* it answered an error.  After a failure that the answer hid (schema/dump_ddl,
\* a chunk of an import) the host does not know that its transaction is aborted,
\* and nothing is claimed: the server undoes it at tx/commit, which answers OK.
OgAnswersAreTrue == ~swallowed => InOrder(db.rows) /\ IsTold(belief.rows, db.rows, orphans)

\* What an import will answer as inserted is what it put into the table plus
\* what the server skipped as a conflict, over chunks that fail in the middle,
\* as long as nothing was rolled back.
ImportsAccounted ==
  ~lost =>
    \A i \in DOMAIN ogImports :
      ogImports[i] # OgNone =>
        ogImports[i].inserted = Cardinality(OgRowsOf(i)) + skipped[i]

\* A cursor delivers the rows of the moment of query/start once and in order,
\* up to max_rows, and says done only then; an export delivers its text once
\* and in order, whatever the sizes of the reads.
ReadsDeliver ==
  /\ \A c \in DOMAIN ogCursors :
       ogCursors[c] # OgNone =>
         /\ ogCursors[c].got = SubSeq(ogCursors[c].rows, 1, ogCursors[c].next)
         /\ ~ogCursors[c].cancelled =>
              (ogCursors[c].done =>
                 Len(ogCursors[c].got) = OgAtMost(Len(ogCursors[c].rows), ogCursors[c].max))
         /\ Len(ogCursors[c].got) = OgAtMost(Len(ogCursors[c].rows), ogCursors[c].max)
              /\ ogCursors[c].got # <<>> => ogCursors[c].done
  /\ \A s \in OgStreamIds :
       ogStreams[s] # OgNone =>
         ogStreams[s].got = SubSeq(ogStreams[s].data, 1, ogStreams[s].offset)

\* A connection of openGauss tells the host what the server did: its transactions,
\* its imports, and the rows of its cursors and exports.
OgConnectionIsTrue == OgTypeOK /\ OpenTxHasAnId /\ OgAnswersAreTrue /\ ImportsAccounted /\ ReadsDeliver
=============================================================================
