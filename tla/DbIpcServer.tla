---------------------------- MODULE DbIpcServer ----------------------------
(***************************************************************************)
(* The generic database/sql IPC driver (internal/dbipc/server.go) that the *)
(* dm, kingbase, oceanbase and oracle drivers share, as ServeConnected     *)
(* (internal/ipc/socket.go) runs it: one request is read, handled under    *)
(* the server's mutex and answered before the next one is read, so each    *)
(* handler is one action.  The host may send any request at any time; what *)
(* is hard is the order it sends them in, and that every call into         *)
(* database/sql may fail half way through a handler.                       *)
(*                                                                         *)
(* The server's tables are functions from the ids handed out so far.       *)
(* `handles', `results', `work' and `stored' are the other side: the       *)
(* database/sql objects that are open and what the database holds.         *)
(* `seen', `told', `batch', `sent' and `read' record what the host has been *)
(* answered.  An error answer that goes with no change is a stuttering step *)
(***************************************************************************)
EXTENDS Integers, Sequences, FiniteSets

CONSTANTS
    MaxConns,     \* bounds on the ids the model hands out
    MaxCursors,
    MaxTxs,
    MaxImports,
    MaxWrites,    \* bound on the statements of a transaction and the rows of an import
    BatchSizes,   \* the numbers of statements of a batch
    Lengths,      \* possible sizes of a result set, and of an export
    Limits,       \* the max_rows a query may ask for
    FetchSizes,   \* the n of a cursor/fetch and the max_bytes of a stream/read
    StreamIds,    \* stream ids are chosen by the host
    Databases     \* names conn/use may switch to

\* max_rows left out of the request (the nil *uint64).
NoLimit == -1

\* tx_id left out of the request: ids handed out start at 1.
NoTx == 0

ASSUME BoundsAssumption ==
    /\ MaxConns \in Nat /\ MaxCursors \in Nat /\ MaxTxs \in Nat
    /\ MaxImports \in Nat /\ MaxWrites \in Nat
    /\ Lengths \subseteq Nat /\ BatchSizes \subseteq Nat
    /\ Limits \subseteq Nat \cup {NoLimit}
    /\ FetchSizes \subseteq Nat \ {0}
    /\ Databases # {}

VARIABLES
    serving,      \* "yes", "shutdown" (after closeAll) or "lost" (the socket ended)
    initialized,
    nextID,       \* nextConnID, nextCursor, nextTx, nextImport
    conns,        \* conn_id -> the database name of its config
    cursors,      \* cursor_id -> cursorState
    txs,          \* tx_id -> txState
    imports,      \* import_id -> importState
    streams,      \* stream_id -> streamState
    handles,      \* conn ids whose *sql.DB is open
    results,      \* cursor id -> its open *sql.Rows: transaction, position, size
    work,         \* tx id -> what the database did for it; NoTx is autocommit
    stored,       \* import id -> rows the database took
    seen,         \* cursor id -> what the host was answered about it
    told,         \* tx id -> what the host was answered about it
    batch,        \* what the last exec/batch did and how it was answered
    sent,         \* import id -> rows the host sent
    read          \* stream id -> what the host read of its last export

tables == <<nextID, conns, cursors, txs, imports, streams>>
database == <<handles, results, work, stored>>
history == <<seen, told, batch, sent, read>>
vars == <<serving, initialized, tables, database, history>>

NoBatch == [atomic |-> FALSE, size |-> 0, done |-> 0, answer |-> "none"]

IsTable(table, ids, values) ==
    DOMAIN table \subseteq ids /\ table \in [DOMAIN table -> values]

ConnIds == 1 .. MaxConns
CursorIds == 1 .. MaxCursors
TxIds == 1 .. MaxTxs
ImportIds == 1 .. MaxImports

CursorState ==
    [conn : ConnIds, rows : BOOLEAN, maxRows : Limits, fetched : Nat, done : BOOLEAN]

Fates == {"active", "committed", "rolledback"}

----------------------------------------------------------------------------
(* Tables.                                                                 *)

Put(table, id, value) ==
    [i \in DOMAIN table \cup {id} |-> IF i = id THEN value ELSE table[i]]

Drop(table, ids) == [i \in DOMAIN table \ ids |-> table[i]]

OfConn(table, c) == {i \in DOMAIN table : table[i].conn = c}

Smaller(a, b) == IF a <= b THEN a ELSE b

Empty == [i \in {} |-> i]

\* Mutant: ids counted from zero, as an uninitialised counter would.
InitFromZero ==
    /\ serving = "yes"
    /\ initialized = FALSE
    /\ nextID = [conn |-> 1, cursor |-> 1, tx |-> 0, import |-> 1]
    /\ conns = Empty /\ cursors = Empty /\ txs = Empty
    /\ imports = Empty /\ streams = Empty
    /\ handles = {} /\ results = Empty
    /\ work = [t \in {NoTx} |-> [fate |-> "committed", writes |-> 0]]
    /\ stored = Empty
    /\ seen = Empty
    /\ told = [t \in {NoTx} |-> [fate |-> "committed", writes |-> 0]]
    /\ batch = NoBatch
    /\ sent = Empty /\ read = Empty

\* NewServer (server.go), with the host's socket connected.
Init ==
    /\ serving = "yes"
    /\ initialized = FALSE
    /\ nextID = [conn |-> 1, cursor |-> 1, tx |-> 1, import |-> 1]
    /\ conns = Empty /\ cursors = Empty /\ txs = Empty
    /\ imports = Empty /\ streams = Empty
    /\ handles = {} /\ results = Empty
    /\ work = [t \in {NoTx} |-> [fate |-> "committed", writes |-> 0]]
    /\ stored = Empty
    /\ seen = Empty
    /\ told = [t \in {NoTx} |-> [fate |-> "committed", writes |-> 0]]
    /\ batch = NoBatch
    /\ sent = Empty /\ read = Empty

\* The switch of Handle is reached: init has succeeded.
Ready == serving = "yes" /\ initialized

----------------------------------------------------------------------------
(* database/sql.                                                           *)

\* The transaction object still accepts statements; with no tx_id the pool does.
Usable(t) == t = NoTx \/ work[t].fate = "active"

\* Commit or Rollback finishes the sql.Tx whether or not it returns an error,
\* and closes every Rows opened in it.
Finish(ts, fate) ==
    [t \in DOMAIN work |->
        IF t \in ts /\ work[t].fate = "active"
        THEN [fate |-> fate, writes |-> work[t].writes] ELSE work[t]]

RowsOf(ts) == {r \in DOMAIN results : results[r].tx \in ts}

----------------------------------------------------------------------------
(* Protocol and connections.                                               *)

\* init with a compatible host_version; another one is refused and init may be
\* retried (HandleRejected).
HandleInit ==
    /\ serving = "yes"
    /\ initialized' = TRUE
    /\ UNCHANGED <<serving, tables, database, history>>

\* $/ping needs no init.
HandlePing ==
    /\ serving = "yes"
    /\ UNCHANGED vars

\* conn/test opens a handle of its own and closes it before it answers,
\* whatever the ping said.
HandleConnTest ==
    /\ Ready
    /\ UNCHANGED vars

\* ddl/build*: SQL text for the connection's dialect, or for the driver's when
\* no conn_id is given (ids start at 1); nothing is executed.
HandleDdlBuild(c) ==
    /\ Ready
    /\ c = 0 \/ c \in DOMAIN conns
    /\ UNCHANGED vars

\* conn/ping and the schema/* queries: the Rows a metadata query opens are read
\* to their end and closed before the answer.
HandleMetadata(c) ==
    /\ Ready
    /\ c \in DOMAIN conns
    /\ UNCHANGED vars

\* conn/open: the ping must succeed before an id is handed out; on failure the
\* handle is closed again.
HandleConnOpen ==
    /\ Ready
    /\ nextID.conn <= MaxConns
    /\ nextID' = [nextID EXCEPT !.conn = @ + 1]
    /\ \E d \in Databases : conns' = Put(conns, nextID.conn, d)
    /\ handles' = handles \cup {nextID.conn}
    /\ UNCHANGED <<serving, initialized, cursors, txs, imports, streams,
                   results, work, stored, history>>

\* The transactions a close rolls back are open in the host's eyes until then.
Abandon(ts) ==
    [t \in DOMAIN told |->
        IF t \in ts /\ told[t].fate = "active"
        THEN [fate |-> "rolledback", writes |-> told[t].writes] ELSE told[t]]

\* Mutant: forgetting the cursors that have been read to their end.
ConnCloseKeepsDone(c) ==
    /\ Ready
    /\ c \in DOMAIN conns
    /\ LET cs == {i \in OfConn(cursors, c) : ~cursors[i].done}
           ts == OfConn(txs, c)
       IN /\ cursors' = Drop(cursors, cs)
          /\ txs' = Drop(txs, ts)
          /\ results' = Drop(results, cs \cup RowsOf(ts))
          /\ work' = Finish(ts, "rolledback")
          /\ told' = Abandon(ts)
    /\ imports' = Drop(imports, OfConn(imports, c))
    /\ handles' = handles \ {c}
    /\ conns' = Drop(conns, {c})
    /\ UNCHANGED <<serving, initialized, nextID, streams, stored, seen, batch, sent, read>>

\* conn/close: cursors, transactions, imports, then the handle; every step is
\* taken and every table cleaned even if one fails, and the errors are joined.
\* Rolling back a transaction that is already finished is such an error.
HandleConnClose(c) ==
    /\ Ready
    /\ c \in DOMAIN conns
    /\ LET cs == OfConn(cursors, c)
           ts == OfConn(txs, c)
       IN /\ cursors' = Drop(cursors, cs)
          /\ txs' = Drop(txs, ts)
          /\ results' = Drop(results, cs \cup RowsOf(ts))
          /\ work' = Finish(ts, "rolledback")
          /\ told' = Abandon(ts)
    /\ imports' = Drop(imports, OfConn(imports, c))
    /\ handles' = handles \ {c}
    /\ conns' = Drop(conns, {c})
    /\ UNCHANGED <<serving, initialized, nextID, streams, stored, seen, batch, sent, read>>

\* conn/use only records the name for later metadata queries; an empty name
\* changes nothing.
HandleConnUse(c) ==
    /\ Ready
    /\ c \in DOMAIN conns
    /\ \E d \in Databases : conns' = [conns EXCEPT ![c] = d]
    /\ UNCHANGED <<serving, initialized, nextID, cursors, txs, imports, streams,
                   database, history>>

\* A request that is malformed, names an unknown id or a transaction of another
\* connection, or comes before init, is answered with an error and does nothing.
HandleRejected ==
    /\ serving = "yes"
    /\ UNCHANGED vars

\* Mutant: closing the connections without rolling their transactions back.
ShutdownKeepsWork ==
    /\ serving = "yes"
    /\ serving' = "shutdown"
    /\ cursors' = Empty /\ txs' = Empty /\ imports' = Empty
    /\ streams' = Empty /\ conns' = Empty
    /\ results' = Drop(results, DOMAIN cursors)
    /\ handles' = handles \ DOMAIN conns
    /\ UNCHANGED <<initialized, nextID, work, stored, seen, told, batch, sent, read>>

\* shutdown: closeAll empties every table whatever fails, ServeConnected
\* answers and returns, ok or not.
HandleShutdown ==
    /\ serving = "yes"
    /\ serving' = "shutdown"
    /\ cursors' = Empty /\ txs' = Empty /\ imports' = Empty
    /\ streams' = Empty /\ conns' = Empty
    /\ results' = Drop(results, DOMAIN cursors \cup RowsOf(DOMAIN txs))
    /\ work' = Finish(DOMAIN txs, "rolledback")
    /\ handles' = handles \ DOMAIN conns
    /\ told' = Abandon(DOMAIN txs)
    /\ UNCHANGED <<initialized, nextID, stored, seen, batch, sent, read>>

\* The socket ends or fails, or an answer is too long for a frame: ServeConnected
\* returns without closeAll and the process exits.
SocketEnds ==
    /\ serving = "yes"
    /\ serving' = "lost"
    /\ UNCHANGED <<initialized, tables, database, history>>

----------------------------------------------------------------------------
(* Cursors.                                                                *)

\* txForRequest: the tx_id must be known and belong to the same connection.
TxForRequest(t, c) == t = NoTx \/ (t \in DOMAIN txs /\ txs[t].conn = c)

\* query/start: the cursor keeps the open Rows; nothing is fetched yet.
HandleQueryStart(c, t, max) ==
    /\ Ready
    /\ c \in DOMAIN conns
    /\ TxForRequest(t, c)
    /\ Usable(t)
    /\ nextID.cursor <= MaxCursors
    /\ nextID' = [nextID EXCEPT !.cursor = @ + 1]
    /\ cursors' = Put(cursors, nextID.cursor,
                      [conn |-> c, rows |-> TRUE, maxRows |-> max, fetched |-> 0, done |-> FALSE])
    /\ \E len \in Lengths :
        /\ results' = Put(results, nextID.cursor, [tx |-> t, pos |-> 0, len |-> len])
        /\ seen' = Put(seen, nextID.cursor, [rows |-> <<>>, len |-> len, max |-> max,
                                             failed |-> FALSE, done |-> FALSE, cancelled |-> FALSE])
    /\ UNCHANGED <<serving, initialized, conns, txs, imports, streams,
                   handles, work, stored, told, batch, sent, read>>

Failed(c) == seen' = [seen EXCEPT ![c].failed = TRUE]

\* The rows a fetch may still return: n of them, fewer if max_rows comes first.
Wanted(cursor, n) ==
    IF cursor.maxRows = NoLimit THEN n ELSE Smaller(n, cursor.maxRows - cursor.fetched)

LimitReached(cursor, got) ==
    cursor.maxRows # NoLimit /\ cursor.fetched + got >= cursor.maxRows

\* The entry after `got' more rows, with or without its Rows.
Fetched(cursor, got, rows, done) ==
    [conn |-> cursor.conn, rows |-> rows, maxRows |-> cursor.maxRows,
     fetched |-> cursor.fetched + got, done |-> done]

\* The rows from ... to of a result set.
RowsBetween(from, to) == [i \in 1 .. to - from + 1 |-> from + i - 1]

\* A cursor that is done, or whose Rows are gone, is answered without fetching.
FetchNothing(c) ==
    /\ cursors[c].done \/ ~cursors[c].rows
    /\ seen' = [seen EXCEPT ![c].done = TRUE]
    /\ UNCHANGED <<cursors, results>>

\* fetchRows meets an error: of the Rows themselves, which are then closed for
\* good (always so when they were closed with their transaction), or of one
\* row's Scan after `got' good ones.  The batch is lost and `fetched' stays.
FetchFails(c, n) ==
    /\ cursors[c].rows /\ ~cursors[c].done
    /\ Wanted(cursors[c], n) > 0
    /\ \/ results' = Drop(results, {c})
       \/ /\ c \in DOMAIN results
          /\ \E got \in 0 .. Wanted(cursors[c], n) - 1 :
                /\ results[c].pos + got < results[c].len
                /\ results' = [results EXCEPT ![c].pos = @ + got + 1]
    /\ Failed(c)
    /\ UNCHANGED cursors

\* Mutant: the count of rows already delivered is not kept between fetches.
FetchForgets(c, n) ==
    /\ c \in DOMAIN results
    /\ cursors[c].rows /\ ~cursors[c].done
    /\ LET cursor == cursors[c]
           got == Smaller(Wanted(cursor, n), results[c].len - results[c].pos)
           done == got < n
           rows == RowsBetween(results[c].pos + 1, results[c].pos + got)
       IN /\ cursors' = [cursors EXCEPT ![c].done = done, ![c].rows = ~done]
          /\ results' = IF done THEN Drop(results, {c})
                                ELSE [results EXCEPT ![c].pos = @ + got]
          /\ seen' = [seen EXCEPT ![c].rows = @ \o rows, ![c].done = done]

\* fetchRows returns a batch.  It is the last one when Next found the end, which
\* closes the Rows, or when max_rows is reached; then the handler closes them
\* itself, and if that fails the batch is lost with the answer.
FetchRows(c, n) ==
    /\ cursors[c].rows /\ ~cursors[c].done
    /\ c \in DOMAIN results \/ Wanted(cursors[c], n) = 0
    /\ LET want == Wanted(cursors[c], n)
           got == IF want = 0 THEN 0 ELSE Smaller(want, results[c].len - results[c].pos)
           pos == IF c \in DOMAIN results THEN results[c].pos ELSE 0
           atEnd == got < want
           done == atEnd \/ LimitReached(cursors[c], got)
           rows == RowsBetween(pos + 1, pos + got)
       IN \/ /\ ~done
             /\ cursors' = [cursors EXCEPT ![c] = Fetched(@, got, TRUE, FALSE)]
             /\ results' = [results EXCEPT ![c].pos = @ + got]
             /\ seen' = [seen EXCEPT ![c].rows = @ \o rows]
          \/ /\ done
             /\ cursors' = [cursors EXCEPT ![c] = Fetched(@, got, FALSE, TRUE)]
             /\ results' = Drop(results, {c})
             /\ seen' = [seen EXCEPT ![c].rows = @ \o rows, ![c].done = TRUE]
          \/ /\ done /\ ~atEnd /\ c \in DOMAIN results
             /\ cursors' = [cursors EXCEPT ![c] = Fetched(@, got, TRUE, TRUE)]
             /\ results' = Drop(results, {c})
             /\ Failed(c)

HandleCursorFetch(c, n) ==
    /\ Ready
    /\ c \in DOMAIN cursors
    /\ FetchNothing(c) \/ FetchFails(c, n) \/ FetchRows(c, n)
    /\ UNCHANGED <<serving, initialized, nextID, conns, txs, imports, streams,
                   handles, work, stored, told, batch, sent, read>>

\* The entry of a cursor whose Rows have been given up.
Closed(cursor) ==
    [conn |-> cursor.conn, rows |-> FALSE, maxRows |-> cursor.maxRows,
     fetched |-> cursor.fetched, done |-> TRUE]

\* closeCursor: the Rows are given up and the cursor is done, error or not.
CloseCursor(c) ==
    results' = IF cursors[c].rows THEN Drop(results, {c}) ELSE results

\* Mutant: dropping the table entry without closing its Rows.
CursorCloseLeaks(c) ==
    /\ Ready
    /\ c \in DOMAIN cursors
    /\ cursors' = Drop(cursors, {c})
    /\ UNCHANGED <<serving, initialized, nextID, conns, txs, imports, streams, database, history>>

\* cursor/close: if closing open Rows fails the entry stays, without Rows, until
\* it is closed again; closing Rows that are not open any more cannot fail.
HandleCursorClose(c) ==
    /\ Ready
    /\ c \in DOMAIN cursors
    /\ CloseCursor(c)
    /\ \/ cursors' = Drop(cursors, {c})
       \/ /\ c \in DOMAIN results
          /\ cursors' = [cursors EXCEPT ![c] = Closed(@)]
    /\ seen' = [seen EXCEPT ![c].cancelled = TRUE]
    /\ UNCHANGED <<serving, initialized, nextID, conns, txs, imports, streams,
                   handles, work, stored, told, batch, sent, read>>

\* cursor/cancel: the entry stays, so later fetches answer done and not an error.
HandleCursorCancel(c) ==
    /\ Ready
    /\ c \in DOMAIN cursors
    /\ CloseCursor(c)
    /\ cursors' = [cursors EXCEPT ![c] = Closed(@)]
    /\ seen' = [seen EXCEPT ![c].cancelled = TRUE]
    /\ UNCHANGED <<serving, initialized, nextID, conns, txs, imports, streams,
                   handles, work, stored, told, batch, sent, read>>

----------------------------------------------------------------------------
(* Statements and transactions.                                            *)

\* Mutant: running the statement on the pool although a tx_id was given.
ExecRunIgnoresTx(c, t) ==
    /\ Ready
    /\ c \in DOMAIN conns
    /\ TxForRequest(t, c)
    /\ work[NoTx].writes < MaxWrites
    /\ told[t].writes < MaxWrites
    /\ work' = [work EXCEPT ![NoTx].writes = @ + 1]
    /\ told' = [told EXCEPT ![t].writes = @ + 1]
    /\ UNCHANGED <<serving, initialized, tables, handles, results, stored, seen, batch, sent, read>>

\* exec/run.  A statement may be carried out and still be answered with an
\* error, when its affected row count cannot be read.
HandleExecRun(c, t) ==
    /\ Ready
    /\ c \in DOMAIN conns
    /\ TxForRequest(t, c)
    /\ Usable(t)
    /\ work[t].writes < MaxWrites
    /\ work' = [work EXCEPT ![t].writes = @ + 1]
    /\ told' \in {told, [told EXCEPT ![t].writes = @ + 1]}
    /\ UNCHANGED <<serving, initialized, tables, handles, results, stored, seen, batch, sent, read>>

\* How one statement of a batch may end: carried out, carried out without a row
\* count, refused.
Outcomes == {"done", "uncounted", "refused"}

\* The statements of a batch that are run: with stop_on_error, up to and with
\* the first one that is not answered cleanly.
BatchRun(outcomes, stopOnError) ==
    LET bad == {i \in DOMAIN outcomes : outcomes[i] # "done"}
        last == CHOOSE i \in bad : \A j \in bad : i <= j
    IN IF stopOnError /\ bad # {} THEN SubSeq(outcomes, 1, last) ELSE outcomes

HasErrors(run) == \E i \in DOMAIN run : run[i] # "done"

Count(run, S) == Cardinality({i \in DOMAIN run : run[i] \in S})

\* Mutant: committing what did run when the batch was not to stop on errors.
BatchEndCommits(run, stopOnError) ==
    IF HasErrors(run) /\ stopOnError
    THEN {[done |-> 0, answer |-> "errors"], [done |-> 0, answer |-> "error"]}
    ELSE {[done |-> Count(run, {"done", "uncounted"}),
           answer |-> IF HasErrors(run) THEN "errors" ELSE "clean"]}

\* in_transaction: any error rolls the whole batch back.  A failed Rollback
\* still ends the transaction; a failed Commit may or may not have taken effect.
BatchEnd(run, stopOnError) ==
    IF HasErrors(run)
    THEN {[done |-> 0, answer |-> "errors"], [done |-> 0, answer |-> "error"]}
    ELSE {[done |-> Len(run), answer |-> "clean"],
          [done |-> Len(run), answer |-> "error"], [done |-> 0, answer |-> "error"]}

\* exec/batch, on the pool or in a transaction of its own that is over when the
\* handler returns.  The answer carries a list of errors ("errors" when it is
\* not empty), or is an error itself.
HandleExecBatch(c, outcomes, stopOnError, inTransaction) ==
    /\ Ready
    /\ c \in DOMAIN conns
    /\ LET run == BatchRun(outcomes, stopOnError)
           size == Len(outcomes)
       IN \/ /\ inTransaction
             /\ batch' = [atomic |-> TRUE, size |-> size, done |-> 0, answer |-> "error"]
          \/ /\ inTransaction
             /\ \E end \in BatchEnd(run, stopOnError) :
                   /\ batch' = [atomic |-> TRUE, size |-> size,
                                done |-> end.done, answer |-> end.answer]
          \/ /\ ~inTransaction
             /\ batch' = [atomic |-> FALSE, size |-> size,
                          done |-> Count(run, {"done", "uncounted"}),
                          answer |-> IF HasErrors(run) THEN "errors" ELSE "clean"]
    /\ UNCHANGED <<serving, initialized, tables, database, seen, told, sent, read>>

\* tx/begin.
HandleTxBegin(c) ==
    /\ Ready
    /\ c \in DOMAIN conns
    /\ nextID.tx <= MaxTxs
    /\ nextID' = [nextID EXCEPT !.tx = @ + 1]
    /\ txs' = Put(txs, nextID.tx, [conn |-> c])
    /\ work' = Put(work, nextID.tx, [fate |-> "active", writes |-> 0])
    /\ told' = Put(told, nextID.tx, [fate |-> "active", writes |-> 0])
    /\ UNCHANGED <<serving, initialized, conns, cursors, imports, streams,
                   handles, results, stored, seen, batch, sent, read>>

Tell(t, fate) == told' = [told EXCEPT ![t].fate = fate]

\* tx/commit.  When Commit fails the table entry stays, although the sql.Tx is
\* finished: from then on every request on it is answered with an error.
HandleTxCommit(t) ==
    /\ Ready
    /\ t \in DOMAIN txs
    /\ results' = Drop(results, RowsOf({t}))
    /\ \/ /\ Usable(t)
          /\ work' = Finish({t}, "committed")
          /\ txs' = Drop(txs, {t})
          /\ Tell(t, "committed")
       \/ /\ \E fate \in {"committed", "rolledback"} : work' = Finish({t}, fate)
          /\ Tell(t, "unknown")
          /\ UNCHANGED txs
    /\ UNCHANGED <<serving, initialized, nextID, conns, cursors, imports, streams,
                   handles, stored, seen, batch, sent, read>>

\* tx/rollback without a savepoint; a failed one keeps the entry as above.
HandleTxRollback(t) ==
    /\ Ready
    /\ t \in DOMAIN txs
    /\ results' = Drop(results, RowsOf({t}))
    /\ work' = Finish({t}, "rolledback")
    /\ \/ /\ Usable(t)
          /\ txs' = Drop(txs, {t})
          /\ Tell(t, "rolledback")
       \/ /\ Tell(t, "unknown")
          /\ UNCHANGED txs
    /\ UNCHANGED <<serving, initialized, nextID, conns, cursors, imports, streams,
                   handles, stored, seen, batch, sent, read>>

\* tx/savepoint, tx/release: a statement in the transaction that changes no
\* table.
HandleTxSavepoint(t) ==
    /\ Ready
    /\ t \in DOMAIN txs
    /\ UNCHANGED vars

\* tx/rollback to a savepoint: the database undoes the statements since then,
\* and the transaction stays open.
HandleTxRollbackTo(t) ==
    /\ Ready
    /\ t \in DOMAIN txs
    /\ Usable(t)
    /\ \E w \in 0 .. work[t].writes :
        /\ work' = [work EXCEPT ![t].writes = w]
        /\ told' = [told EXCEPT ![t].writes = Smaller(@, w)]
    /\ UNCHANGED <<serving, initialized, tables, handles, results, stored,
                   seen, batch, sent, read>>

----------------------------------------------------------------------------
(* Exports, streams and imports.                                           *)

\* data/export runs the query to its end and keeps the whole text under the
\* stream id the host chose, over whatever that id held.  max_rows is accepted
\* and not used.
HandleDataExport(c, s) ==
    /\ Ready
    /\ c \in DOMAIN conns
    /\ \E len \in Lengths :
        /\ streams' = Put(streams, s, [len |-> len, offset |-> 0])
        /\ read' = Put(read, s, [bytes |-> <<>>, len |-> len, done |-> FALSE])
    /\ UNCHANGED <<serving, initialized, nextID, conns, cursors, txs, imports,
                   database, seen, told, batch, sent>>

\* Mutant: handing out the last byte of a chunk again with the next one.
StreamReadOverlaps(s, maxBytes) ==
    LET from == streams[s].offset
        end == Smaller(from + maxBytes, streams[s].len)
    IN [end |-> end, bytes |-> RowsBetween(IF from = 0 THEN 1 ELSE from, end)]

\* streamReadChunk.
StreamReadChunk(s, maxBytes) ==
    LET from == streams[s].offset
        end == Smaller(from + maxBytes, streams[s].len)
    IN [end |-> end, bytes |-> RowsBetween(from + 1, end)]

\* stream/read: the stream is forgotten with its last chunk.
HandleStreamRead(s, maxBytes) ==
    /\ Ready
    /\ s \in DOMAIN streams
    /\ LET chunk == StreamReadChunk(s, maxBytes)
           done == chunk.end >= streams[s].len
       IN /\ streams' = IF done THEN Drop(streams, {s})
                                ELSE [streams EXCEPT ![s].offset = chunk.end]
          /\ read' = [read EXCEPT ![s].bytes = @ \o chunk.bytes, ![s].done = done]
    /\ UNCHANGED <<serving, initialized, nextID, conns, cursors, txs, imports,
                   database, seen, told, batch, sent>>

\* stream/close never fails, whether or not the stream exists.
HandleStreamClose(s) ==
    /\ Ready
    /\ streams' = Drop(streams, {s})
    /\ UNCHANGED <<serving, initialized, nextID, conns, cursors, txs, imports,
                   database, history>>

\* data/import_begin.
HandleImportBegin(c) ==
    /\ Ready
    /\ c \in DOMAIN conns
    /\ nextID.import <= MaxImports
    /\ LET i == nextID.import
       IN /\ nextID' = [nextID EXCEPT !.import = i + 1]
          /\ imports' = Put(imports, i, [conn |-> c, inserted |-> 0, failed |-> 0])
          /\ stored' = Put(stored, i, 0)
          /\ sent' = Put(sent, i, [rows |-> 0, reported |-> 0, ended |-> FALSE])
    /\ UNCHANGED <<serving, initialized, conns, cursors, txs, streams,
                   handles, results, work, seen, told, batch, read>>

\* Mutant: counting every row of the chunk as inserted.
ImportCountsAll(import, rows) ==
    [conn |-> import.conn,
     inserted |-> import.inserted + Len(rows),
     failed |-> import.failed + Count(rows, {"refused"})]

ImportCounts(import, rows) ==
    [conn |-> import.conn,
     inserted |-> import.inserted + Count(rows, {"done"}),
     failed |-> import.failed + Count(rows, {"uncounted", "refused"})]

\* data/import_chunk inserts row by row on the pool, outside any transaction,
\* and goes on after a row fails.  "uncounted" is a row the database took
\* although its insertion was answered with an error.
HandleImportChunk(i, rows) ==
    /\ Ready
    /\ i \in DOMAIN imports
    /\ imports[i].conn \in DOMAIN conns
    /\ sent[i].rows + Len(rows) <= MaxWrites
    /\ imports' = [imports EXCEPT ![i] = ImportCounts(imports[i], rows)]
    /\ stored' = [stored EXCEPT ![i] = @ + Count(rows, {"done", "uncounted"})]
    /\ sent' = [sent EXCEPT ![i].rows = @ + Len(rows)]
    /\ UNCHANGED <<serving, initialized, nextID, conns, cursors, txs, streams,
                   handles, results, work, seen, told, batch, read>>

\* data/import_commit only reports and forgets.
HandleImportCommit(i) ==
    /\ Ready
    /\ i \in DOMAIN imports
    /\ imports' = Drop(imports, {i})
    /\ sent' = [sent EXCEPT ![i].reported = imports[i].inserted, ![i].ended = TRUE]
    /\ UNCHANGED <<serving, initialized, nextID, conns, cursors, txs, streams,
                   database, seen, told, batch, read>>

\* data/import_abort forgets the import, known or not; inserted rows stay.
HandleImportAbort(i) ==
    /\ Ready
    /\ imports' = Drop(imports, {i})
    /\ UNCHANGED <<serving, initialized, nextID, conns, cursors, txs, streams,
                   database, history>>

----------------------------------------------------------------------------

CursorNext(c) ==
    \/ \E n \in FetchSizes : HandleCursorFetch(c, n)
    \/ HandleCursorClose(c)
    \/ HandleCursorCancel(c)

TxNext(t) ==
    \/ HandleTxCommit(t)
    \/ HandleTxRollback(t)
    \/ HandleTxSavepoint(t)
    \/ HandleTxRollbackTo(t)

ConnNext(c) ==
    \/ HandleConnClose(c)
    \/ HandleConnUse(c)
    \/ \E t \in TxIds \cup {NoTx}, max \in Limits : HandleQueryStart(c, t, max)
    \/ \E t \in TxIds \cup {NoTx} : HandleExecRun(c, t)
    \/ HandleTxBegin(c)

BatchNext(c) ==
    \E outcomes \in UNION {[1 .. n -> Outcomes] : n \in BatchSizes},
       stopOnError \in BOOLEAN, inTransaction \in BOOLEAN :
        HandleExecBatch(c, outcomes, stopOnError, inTransaction)

TransferNext ==
    \/ \E c \in ConnIds, s \in StreamIds : HandleDataExport(c, s)
    \/ \E s \in StreamIds, n \in FetchSizes : HandleStreamRead(s, n)
    \/ \E s \in StreamIds : HandleStreamClose(s)
    \/ \E c \in ConnIds : HandleImportBegin(c)
    \/ \E i \in ImportIds, n \in 0 .. MaxWrites :
          \E rows \in [1 .. n -> Outcomes] : HandleImportChunk(i, rows)
    \/ \E i \in ImportIds : HandleImportCommit(i) \/ HandleImportAbort(i)

Next ==
    \/ HandleInit
    \/ HandlePing
    \/ HandleConnTest
    \/ \E c \in ConnIds \cup {0} : HandleDdlBuild(c)
    \/ \E c \in ConnIds : HandleMetadata(c)
    \/ HandleConnOpen
    \/ HandleRejected
    \/ HandleShutdown
    \/ SocketEnds
    \/ \E c \in ConnIds : ConnNext(c) \/ BatchNext(c)
    \/ \E c \in CursorIds : CursorNext(c)
    \/ \E t \in TxIds : TxNext(t)
    \/ TransferNext

Spec == Init /\ [][Next]_vars

----------------------------------------------------------------------------

TypeOK ==
    /\ serving \in {"yes", "shutdown", "lost"}
    /\ initialized \in BOOLEAN
    /\ nextID \in [conn : 1 .. MaxConns + 1, cursor : 1 .. MaxCursors + 1,
                   tx : 1 .. MaxTxs + 1, import : 1 .. MaxImports + 1]
    /\ IsTable(conns, ConnIds, Databases)
    /\ IsTable(cursors, CursorIds, CursorState)
    /\ IsTable(txs, TxIds, [conn : ConnIds])
    /\ IsTable(imports, ImportIds, [conn : ConnIds, inserted : Nat, failed : Nat])
    /\ IsTable(streams, StreamIds, [len : Nat, offset : Nat])
    /\ handles \subseteq ConnIds
    /\ IsTable(results, CursorIds, [tx : TxIds \cup {NoTx}, pos : Nat, len : Nat])
    /\ IsTable(work, TxIds \cup {NoTx}, [fate : Fates, writes : Nat])
    /\ IsTable(stored, ImportIds, Nat)
    /\ IsTable(told, TxIds \cup {NoTx}, [fate : Fates \cup {"unknown"}, writes : Nat])
    /\ IsTable(sent, ImportIds, [rows : Nat, reported : Nat, ended : BOOLEAN])

\* No table of the server refers to a connection it no longer has, so no
\* request can reach a closed *sql.DB: what conn/close promises by cleaning
\* cursors, transactions and imports before it deletes the connection.
NoOrphans ==
    /\ \A c \in DOMAIN cursors : cursors[c].conn \in DOMAIN conns
    /\ \A t \in DOMAIN txs : txs[t].conn \in DOMAIN conns
    /\ \A i \in DOMAIN imports : imports[i].conn \in DOMAIN conns

\* Open Rows belong to a live cursor, and to an active transaction of that
\* cursor's connection if they were opened in one.
RowsOwned ==
    \A r \in DOMAIN results :
        /\ r \in DOMAIN cursors
        /\ cursors[r].rows /\ ~cursors[r].done
        /\ results[r].tx # NoTx =>
              /\ results[r].tx \in DOMAIN txs
              /\ work[results[r].tx].fate = "active"
              /\ txs[results[r].tx].conn = cursors[r].conn

\* Everything that is open in database/sql is still reachable from the tables,
\* so that conn/close and shutdown release it: no handle without a connection,
\* no active transaction without a tx_id, no Rows without a live cursor on the
\* connection of their transaction, whichever calls failed on the way.
NothingLeaks ==
    /\ handles = DOMAIN conns
    /\ \A t \in DOMAIN work : work[t].fate = "active" => t \in DOMAIN txs
    /\ RowsOwned

\* When the driver has answered shutdown it holds nothing of the database any
\* more: no handle, no Rows, no transaction left open, although closeAll goes on
\* after errors and ServeConnected leaves the loop even if it was answered one.
ShutdownReleasesAll ==
    serving = "shutdown" =>
        /\ handles = {}
        /\ DOMAIN results = {}
        /\ \A t \in DOMAIN work : work[t].fate # "active"

\* What the host was answered about a transaction is true of the database:
\* its acknowledged statements are there to stay when tx/commit was answered ok
\* (and at once without a tx_id), and none is before that or after a rollback
\* or a conn/close.
TransactionFates ==
    \A t \in DOMAIN told :
        /\ told[t].writes <= work[t].writes
        /\ told[t].fate = "committed" => work[t].fate = "committed"
        /\ told[t].fate = "active" => work[t].fate = "active"
        /\ told[t].fate = "rolledback" => work[t].fate = "rolledback"
        /\ told[t].fate = "unknown" => work[t].fate # "active"

\* The rows the host got of a cursor, over any number of fetches, are the first
\* rows of the result set, none twice, never more than max_rows; a fetch that
\* answers done has delivered all of them.  Only a host that was answered an
\* error, or gave the cursor up, may miss rows; and once it was answered done, or
\* gave it up, there are no Rows left from which a later request could get more.
CursorDelivers ==
    \A c \in DOMAIN seen :
        LET s == seen[c]
            all == IF s.max = NoLimit THEN s.len ELSE Smaller(s.len, s.max)
        IN /\ Len(s.rows) <= all
           /\ ~s.failed => s.rows = RowsBetween(1, Len(s.rows))
           /\ s.done /\ ~s.failed /\ ~s.cancelled => Len(s.rows) = all
           /\ s.done \/ s.cancelled => c \notin DOMAIN results
           /\ \A i, j \in DOMAIN s.rows : i < j => s.rows[i] < s.rows[j]

\* An exec/batch with in_transaction took effect as a whole or not at all: not
\* at all if the answer lists an error, as a whole if it lists none; and a batch
\* answered without errors ran every statement.
BatchIsAtomic ==
    /\ batch.atomic => batch.done \in {0, batch.size}
    /\ batch.atomic /\ batch.answer = "errors" => batch.done = 0
    /\ batch.answer = "clean" => batch.done = batch.size

\* Every row the host sent to an import is counted once, as inserted or as
\* failed, and a row counted as inserted is in the table, also in the report of
\* import_commit.
ImportsAccounted ==
    /\ \A i \in DOMAIN imports :
        /\ imports[i].inserted + imports[i].failed = sent[i].rows
        /\ imports[i].inserted <= stored[i]
    /\ \A i \in DOMAIN sent : sent[i].reported <= stored[i]

\* The chunks of a stream, put together, are the bytes of the last export under
\* that id, none twice and none left out, all of them when the answer says done;
\* a stream that was read to its end is gone.
StreamsDeliver ==
    \A s \in DOMAIN read :
        /\ read[s].bytes = RowsBetween(1, Len(read[s].bytes))
        /\ read[s].done => Len(read[s].bytes) = read[s].len /\ s \notin DOMAIN streams
        /\ s \in DOMAIN streams => Len(read[s].bytes) = streams[s].offset
=============================================================================
