------------------------- MODULE DbIpcServerProofs -------------------------
(***************************************************************************)
(* DbIpcServer is well typed, and what its tables guarantee, for any       *)
(* number of connections, cursors, transactions and imports and any sizes; *)
(* and what the host receives is what the database holds.                  *)
(***************************************************************************)
EXTENDS DbIpcServer, FiniteSetTheorems, TLAPS
----------------------------------------------------------------------------
(* Types *)

\* Put, Drop and EXCEPT keep a table a table.
LEMMA PutTable ==
    ASSUME NEW f, NEW S, NEW R, IsTable(f, S, R), NEW id \in S, NEW v \in R
    PROVE  IsTable(Put(f, id, v), S, R)
BY DEF IsTable, Put

\* Taking entries out of a table.
LEMMA DropTable ==
    ASSUME NEW f, NEW S, NEW R, IsTable(f, S, R), NEW ids
    PROVE  IsTable(Drop(f, ids), S, R)
BY DEF IsTable, Drop

\* Replacing the entry of an id that may or may not be there.
LEMMA ExceptTable ==
    ASSUME NEW f, NEW S, NEW R, IsTable(f, S, R), NEW id, NEW v, id \in DOMAIN f => v \in R
    PROVE  IsTable([f EXCEPT ![id] = v], S, R)
BY DEF IsTable

\* The tables of NewServer and after closeAll.
LEMMA EmptyTable ==
    ASSUME NEW S, NEW R
    PROVE  IsTable(Empty, S, R)
BY DEF IsTable, Empty

\* Why TypeOK is not inductive by itself: `fetched' stays a count because a fetch
\* never goes past max_rows, and the position of open Rows because it never goes
\* past their end.
Bounded ==
    /\ \A c \in DOMAIN cursors :
        cursors[c].maxRows # NoLimit => cursors[c].fetched <= cursors[c].maxRows
    /\ \A r \in DOMAIN results : results[r].pos <= results[r].len

TInv == TypeOK /\ Bounded

LEMMA TInvInit == Init => TInv
<1> SUFFICES ASSUME Init PROVE TInv OBVIOUS
<1> USE DEF Init
<1>1. TypeOK
  <2>1. nextID \in [conn : 1 .. MaxConns + 1, cursor : 1 .. MaxCursors + 1,
                    tx : 1 .. MaxTxs + 1, import : 1 .. MaxImports + 1]
    BY BoundsAssumption
  <2>2. /\ IsTable(work, TxIds \cup {NoTx}, [fate : Fates, writes : Nat])
        /\ IsTable(told, TxIds \cup {NoTx}, [fate : Fates \cup {"unknown"}, writes : Nat])
    BY DEF IsTable, Fates
  <2> QED BY <2>1, <2>2, EmptyTable DEF TypeOK
<1>2. Bounded BY DEF Bounded, Empty
<1> QED BY <1>1, <1>2 DEF TInv

\* One lemma per handler, or per pair of handlers that change the same tables.
LEMMA TypeConnOpen == ASSUME TInv, HandleConnOpen PROVE TInv'
<1>1. TypeOK'
  <2> USE DEF HandleConnOpen, history, TypeOK, TInv
  <2>1. /\ nextID.conn \in ConnIds
        /\ nextID' \in [conn : 1 .. MaxConns + 1, cursor : 1 .. MaxCursors + 1,
                         tx : 1 .. MaxTxs + 1, import : 1 .. MaxImports + 1]
    BY SMTT(30), BoundsAssumption DEF ConnIds
  <2>2. IsTable(conns', ConnIds, Databases)
    BY <2>1, PutTable
  <2>3. handles' \subseteq ConnIds BY <2>1
  <2> QED BY <2>1, <2>2, <2>3
<1>2. Bounded' BY DEF TInv, Bounded, HandleConnOpen
<1> QED BY <1>1, <1>2 DEF TInv

\* What conn/close and shutdown make of the transactions they roll back.
LEMMA TypeFinish ==
    ASSUME TypeOK, NEW ts, NEW fate \in Fates
    PROVE  /\ IsTable(Finish(ts, fate), TxIds \cup {NoTx}, [fate : Fates, writes : Nat])
           /\ IsTable(Abandon(ts), TxIds \cup {NoTx}, [fate : Fates \cup {"unknown"}, writes : Nat])
BY DEF TypeOK, Finish, Abandon, IsTable, Fates

LEMMA TypeConnClose == ASSUME TInv, NEW c \in ConnIds, HandleConnClose(c) PROVE TInv'
<1>1. TypeOK'
  <2> USE DEF HandleConnClose, TypeOK, TInv
  <2>1. /\ IsTable(cursors', CursorIds, CursorState)
        /\ IsTable(txs', TxIds, [conn : ConnIds])
        /\ IsTable(imports', ImportIds, [conn : ConnIds, inserted : Nat, failed : Nat])
    BY DropTable
  <2>2. /\ IsTable(conns', ConnIds, Databases)
        /\ IsTable(results', CursorIds, [tx : TxIds \cup {NoTx}, pos : Nat, len : Nat])
    BY DropTable
  <2>3. /\ IsTable(work', TxIds \cup {NoTx}, [fate : Fates, writes : Nat])
        /\ IsTable(told', TxIds \cup {NoTx}, [fate : Fates \cup {"unknown"}, writes : Nat])
    BY TypeFinish DEF Fates
  <2> QED BY <2>1, <2>2, <2>3
<1>2. Bounded' BY DEF TInv, Bounded, HandleConnClose, Drop
<1> QED BY <1>1, <1>2 DEF TInv

LEMMA TypeShutdown == ASSUME TInv, HandleShutdown PROVE TInv'
<1>1. TypeOK'
  <2> USE DEF HandleShutdown, TypeOK, TInv
  <2>1. IsTable(results', CursorIds, [tx : TxIds \cup {NoTx}, pos : Nat, len : Nat])
    BY DropTable
  <2>2. /\ IsTable(work', TxIds \cup {NoTx}, [fate : Fates, writes : Nat])
        /\ IsTable(told', TxIds \cup {NoTx}, [fate : Fates \cup {"unknown"}, writes : Nat])
    BY TypeFinish DEF Fates
  <2> QED BY <2>1, <2>2, EmptyTable
<1>2. Bounded' BY DEF TInv, Bounded, HandleShutdown, Drop, Empty
<1> QED BY <1>1, <1>2 DEF TInv

LEMMA TypeConnUse == ASSUME TInv, NEW c \in ConnIds, HandleConnUse(c) PROVE TInv'
<1>1. TypeOK'
  <2> USE DEF HandleConnUse, TypeOK, TInv, database, history
  <2>1. PICK d \in Databases : conns' = [conns EXCEPT ![c] = d]
    OBVIOUS
  <2>2. IsTable(conns', ConnIds, Databases) BY <2>1 DEF IsTable
  <2> QED BY <2>2
<1>2. Bounded' BY DEF TInv, Bounded, HandleConnUse, database
<1> QED BY <1>1, <1>2 DEF TInv

LEMMA TypeQueryStart ==
    ASSUME TInv, NEW c \in ConnIds, NEW t \in TxIds \cup {NoTx}, NEW max \in Limits,
           HandleQueryStart(c, t, max)
    PROVE  TInv'
<1> USE DEF HandleQueryStart, TInv
<1>0. nextID \in [conn : 1 .. MaxConns + 1, cursor : 1 .. MaxCursors + 1,
                  tx : 1 .. MaxTxs + 1, import : 1 .. MaxImports + 1]
  BY DEF TypeOK
<1>1. /\ nextID.cursor \in CursorIds
      /\ nextID' \in [conn : 1 .. MaxConns + 1, cursor : 1 .. MaxCursors + 1,
                       tx : 1 .. MaxTxs + 1, import : 1 .. MaxImports + 1]
  BY SMTT(30), <1>0, BoundsAssumption DEF CursorIds
<1>2. PICK len \in Lengths :
        results' = Put(results, nextID.cursor, [tx |-> t, pos |-> 0, len |-> len])
  OBVIOUS
<1>3. TypeOK'
  <2> USE DEF TypeOK
  <2>2. IsTable(cursors', CursorIds, CursorState)
    <3>1. [conn |-> c, rows |-> TRUE, maxRows |-> max, fetched |-> 0, done |-> FALSE] \in CursorState
      BY DEF CursorState
    <3> QED BY <1>1, <3>1, PutTable
  <2>3. IsTable(results', CursorIds, [tx : TxIds \cup {NoTx}, pos : Nat, len : Nat])
    <3>1. [tx |-> t, pos |-> 0, len |-> len] \in [tx : TxIds \cup {NoTx}, pos : Nat, len : Nat]
      BY BoundsAssumption
    <3> QED BY <1>1, <1>2, <3>1, PutTable
  <2> QED BY <1>1, <2>2, <2>3
<1>4. Bounded'
  BY <1>2, BoundsAssumption DEF Bounded, Put, NoLimit
<1> QED BY <1>3, <1>4 DEF TInv

LEMMA TypeTxBegin == ASSUME TInv, NEW c \in ConnIds, HandleTxBegin(c) PROVE TInv'
<1> USE DEF HandleTxBegin, TInv
<1>1. nextID.tx \in TxIds
  BY BoundsAssumption DEF TypeOK, TxIds
<1>2. TypeOK'
  <2> USE DEF TypeOK
  <2>1. nextID' \in [conn : 1 .. MaxConns + 1, cursor : 1 .. MaxCursors + 1,
                     tx : 1 .. MaxTxs + 1, import : 1 .. MaxImports + 1]
    BY SMTT(30), <1>1, BoundsAssumption DEF TxIds
  <2>2. IsTable(txs', TxIds, [conn : ConnIds]) BY <1>1, PutTable
  <2>3. IsTable(work', TxIds \cup {NoTx}, [fate : Fates, writes : Nat])
    BY <1>1, PutTable, [fate |-> "active", writes |-> 0] \in [fate : Fates, writes : Nat] DEF Fates
  <2>4. IsTable(told', TxIds \cup {NoTx}, [fate : Fates \cup {"unknown"}, writes : Nat])
    BY <1>1, PutTable, [fate |-> "active", writes |-> 0]
                            \in [fate : Fates \cup {"unknown"}, writes : Nat] DEF Fates
  <2> QED BY <2>1, <2>2, <2>3, <2>4
<1>3. Bounded' BY DEF Bounded
<1> QED BY <1>2, <1>3 DEF TInv

\* Counting a statement of a transaction.
LEMMA TypeWrites ==
    ASSUME NEW f, NEW S, NEW F, IsTable(f, S, [fate : F, writes : Nat]),
           NEW t, NEW w, t \in DOMAIN f => w \in Nat
    PROVE  IsTable([f EXCEPT ![t].writes = w], S, [fate : F, writes : Nat])
<1>1. CASE t \in DOMAIN f
  BY <1>1 DEF IsTable
<1>2. CASE t \notin DOMAIN f
  <2>1. [f EXCEPT ![t].writes = w] = f
    BY <1>2 DEF IsTable
  <2> QED BY <2>1
<1> QED BY <1>1, <1>2

LEMMA TypeExec ==
    ASSUME TInv, NEW c \in ConnIds, NEW t \in TxIds \cup {NoTx}, HandleExecRun(c, t)
    PROVE  TInv'
<1> USE DEF HandleExecRun, TInv, tables
<1>0. /\ t \in DOMAIN work => work[t].writes + 1 \in Nat
      /\ t \in DOMAIN told => told[t].writes + 1 \in Nat
      /\ IsTable(work, TxIds \cup {NoTx}, [fate : Fates, writes : Nat])
      /\ IsTable(told, TxIds \cup {NoTx}, [fate : Fates \cup {"unknown"}, writes : Nat])
  BY DEF TypeOK, IsTable
<1>1. IsTable(work', TxIds \cup {NoTx}, [fate : Fates, writes : Nat])
  BY <1>0, TypeWrites
<1>2. IsTable(told', TxIds \cup {NoTx}, [fate : Fates \cup {"unknown"}, writes : Nat])
  <2>1. CASE told' = told BY <1>0, <2>1
  <2>2. CASE told' = [told EXCEPT ![t].writes = told[t].writes + 1]
    BY <1>0, <2>2, TypeWrites
  <2> QED BY <2>1, <2>2
<1>3. TypeOK' BY <1>1, <1>2 DEF TypeOK
<1>4. Bounded' BY DEF Bounded
<1> QED BY <1>3, <1>4 DEF TInv

LEMMA TypeTx ==
    ASSUME TInv, NEW t \in TxIds,
           HandleTxCommit(t) \/ HandleTxRollback(t) \/ HandleTxRollbackTo(t)
    PROVE  TInv'
<1> USE DEF TInv
<1>1. ASSUME HandleTxCommit(t) \/ HandleTxRollback(t) PROVE TInv'
  <2> USE <1>1 DEF HandleTxCommit, HandleTxRollback
  <2>1. PICK fate \in {"committed", "rolledback"} : work' = Finish({t}, fate)
    OBVIOUS
  <2>2. PICK view \in {"committed", "rolledback", "unknown"} : told' = [told EXCEPT ![t].fate = view]
    BY DEF Tell
  <2>3. /\ IsTable(results', CursorIds, [tx : TxIds \cup {NoTx}, pos : Nat, len : Nat])
        /\ IsTable(txs', TxIds, [conn : ConnIds])
    BY DropTable DEF TypeOK
  <2>4. IsTable(work', TxIds \cup {NoTx}, [fate : Fates, writes : Nat])
    BY <2>1, TypeFinish DEF Fates
  <2>5. IsTable(told', TxIds \cup {NoTx}, [fate : Fates \cup {"unknown"}, writes : Nat])
    BY ZenonT(40), <2>2 DEF TypeOK, IsTable, Fates
  <2>6. TypeOK' BY <2>3, <2>4, <2>5 DEF TypeOK
  <2>7. Bounded' BY DEF Bounded, Drop
  <2> QED BY <2>6, <2>7 DEF TInv
<1>2. ASSUME HandleTxRollbackTo(t) PROVE TInv'
  <2> USE <1>2 DEF HandleTxRollbackTo, tables
  <2>0. /\ t \in DOMAIN told => told[t].writes \in Nat
        /\ IsTable(work, TxIds \cup {NoTx}, [fate : Fates, writes : Nat])
        /\ IsTable(told, TxIds \cup {NoTx}, [fate : Fates \cup {"unknown"}, writes : Nat])
    BY DEF TypeOK, IsTable
  <2>1. PICK w \in 0 .. work[t].writes :
          /\ work' = [work EXCEPT ![t].writes = w]
          /\ told' = [told EXCEPT ![t].writes = Smaller(told[t].writes, w)]
    OBVIOUS
  <2> w \in Nat BY <2>1
  <2>2. IsTable(work', TxIds \cup {NoTx}, [fate : Fates, writes : Nat])
    BY <2>0, <2>1, TypeWrites
  <2>3. IsTable(told', TxIds \cup {NoTx}, [fate : Fates \cup {"unknown"}, writes : Nat])
    <3>1. t \in DOMAIN told => Smaller(told[t].writes, w) \in Nat
      BY <2>0 DEF Smaller
    <3> QED BY <2>0, <2>1, <3>1, TypeWrites
  <2>4. TypeOK' BY <2>2, <2>3 DEF TypeOK
  <2>5. Bounded' BY DEF Bounded
  <2> QED BY <2>4, <2>5 DEF TInv
<1> QED BY <1>1, <1>2

LEMMA TypeCursorClose ==
    ASSUME TInv, NEW c \in CursorIds, HandleCursorClose(c) \/ HandleCursorCancel(c)
    PROVE  TInv'
<1> USE DEF HandleCursorClose, HandleCursorCancel, CloseCursor, TInv
<1>1. IsTable(results', CursorIds, [tx : TxIds \cup {NoTx}, pos : Nat, len : Nat])
  BY DropTable DEF TypeOK
<1>2. cursors[c] \in CursorState /\ Closed(cursors[c]) \in CursorState
  BY DEF TypeOK, IsTable, CursorState, Closed
<1>3. IsTable(cursors', CursorIds, CursorState)
  BY <1>2, DropTable, ExceptTable DEF TypeOK
<1>4. TypeOK' BY <1>1, <1>3 DEF TypeOK
<1>5. Bounded' BY <1>2 DEF Bounded, Drop, Closed, TypeOK, IsTable
<1> QED BY <1>4, <1>5 DEF TInv

LEMMA TypeCursorFetch ==
    ASSUME TInv, NEW c \in CursorIds, NEW n \in FetchSizes, HandleCursorFetch(c, n)
    PROVE  TInv'
<1> USE DEF HandleCursorFetch, TInv
<1> DEFINE want == Wanted(cursors[c], n)
           ResultSet == [tx : TxIds \cup {NoTx}, pos : Nat, len : Nat]
<1>0. /\ IsTable(results, CursorIds, ResultSet)
      /\ IsTable(cursors, CursorIds, CursorState)
      /\ \A r \in DOMAIN results : results[r] \in ResultSet
      /\ c \in DOMAIN cursors /\ cursors[c] \in CursorState
      /\ cursors[c].maxRows # NoLimit => cursors[c].fetched <= cursors[c].maxRows
  BY DEF TypeOK, IsTable, Bounded
<1>1. want \in Nat /\ (cursors[c].maxRows # NoLimit =>
                          cursors[c].fetched + want <= cursors[c].maxRows)
  <2>1. /\ cursors[c].fetched \in Nat /\ n \in Nat
        /\ cursors[c].maxRows = NoLimit \/ cursors[c].maxRows \in Nat
    BY <1>0, BoundsAssumption DEF CursorState
  <2>2. CASE cursors[c].maxRows = NoLimit
    BY <2>1, <2>2 DEF Wanted
  <2>3. CASE cursors[c].maxRows # NoLimit /\ cursors[c].maxRows \in Nat
    BY <1>0, <2>1, <2>3 DEF Wanted, Smaller
  <2> QED BY <2>1, <2>2, <2>3
<1>2. CASE FetchNothing(c)
  <2>1. TypeOK' BY <1>2 DEF FetchNothing, TypeOK
  <2>2. Bounded' BY <1>2 DEF FetchNothing, Bounded
  <2> QED BY <2>1, <2>2 DEF TInv
<1>3. CASE FetchFails(c, n)
  <2>1. \/ results' = Drop(results, {c})
        \/ \E p \in Nat : /\ c \in DOMAIN results /\ p <= results[c].len
                         /\ results' = [results EXCEPT ![c].pos = p]
    <3>1. CASE results' = Drop(results, {c}) BY <3>1
    <3>2. ASSUME c \in DOMAIN results, NEW got \in 0 .. want - 1,
                 results[c].pos + got < results[c].len,
                 results' = [results EXCEPT ![c].pos = results[c].pos + got + 1]
          PROVE  \E p \in Nat : /\ c \in DOMAIN results /\ p <= results[c].len
                              /\ results' = [results EXCEPT ![c].pos = p]
      <4>1. results[c].pos + got + 1 \in Nat /\ results[c].pos + got + 1 <= results[c].len
        BY <1>0, <1>1, <3>2
      <4> QED BY <3>2, <4>1
    <3> QED BY <1>3, <3>1, <3>2 DEF FetchFails
  <2>2. /\ IsTable(results', CursorIds, ResultSet)
        /\ \A r \in DOMAIN results' : results'[r].pos <= results'[r].len
    <3>1. CASE results' = Drop(results, {c})
      BY <1>0, <3>1, DropTable DEF Bounded, Drop
    <3>2. ASSUME NEW p \in Nat, c \in DOMAIN results, p <= results[c].len,
                 results' = [results EXCEPT ![c].pos = p]
          PROVE  /\ IsTable(results', CursorIds, ResultSet)
                 /\ \A r \in DOMAIN results' : results'[r].pos <= results'[r].len
      BY <1>0, <3>2 DEF Bounded, IsTable
    <3> QED BY <2>1, <3>1, <3>2
  <2>3. TypeOK' BY <1>3, <2>2 DEF FetchFails, TypeOK
  <2>4. Bounded' BY <1>3, <2>2 DEF FetchFails, Bounded
  <2> QED BY <2>3, <2>4 DEF TInv
<1>4. CASE FetchRows(c, n)
  <2> DEFINE got == IF want = 0 THEN 0 ELSE Smaller(want, results[c].len - results[c].pos)
  <2>1. c \in DOMAIN results \/ want = 0
    BY <1>4 DEF FetchRows
  <2>2. got \in Nat /\ got <= want
        /\ (c \in DOMAIN results => results[c].pos + got <= results[c].len)
    <3> HIDE DEF want
    <3> QED BY <1>0, <1>1, <2>1 DEF Bounded, Smaller
  <2>3. \/ /\ cursors' = [cursors EXCEPT ![c] = Fetched(cursors[c], got, TRUE, FALSE)]
           /\ results' = [results EXCEPT ![c].pos = results[c].pos + got]
        \/ /\ cursors' = [cursors EXCEPT ![c] = Fetched(cursors[c], got, FALSE, TRUE)]
           /\ results' = Drop(results, {c})
        \/ /\ cursors' = [cursors EXCEPT ![c] = Fetched(cursors[c], got, TRUE, TRUE)]
           /\ results' = Drop(results, {c})
    BY <1>4 DEF FetchRows
  <2>4. PICK g \in Nat : g = got BY <2>2
  <2> HIDE DEF want, got
  <2>5. PICK rows \in BOOLEAN, done \in BOOLEAN :
            cursors' = [cursors EXCEPT ![c] = Fetched(cursors[c], g, rows, done)]
    BY <2>3, <2>4, Zenon
  <2>6. /\ Fetched(cursors[c], g, rows, done) \in CursorState
        /\ cursors[c].maxRows # NoLimit => cursors[c].fetched + g <= cursors[c].maxRows
    <3>1. cursors[c] \in CursorState BY <1>0 DEF IsTable
    <3>2. Fetched(cursors[c], g, rows, done) \in CursorState
      BY <3>1 DEF Fetched, CursorState
    <3>3. cursors[c].maxRows # NoLimit => cursors[c].fetched + g <= cursors[c].maxRows
      BY <1>1, <2>2, <2>4, <3>1, BoundsAssumption DEF CursorState, NoLimit
    <3> QED BY <3>2, <3>3
  <2>7. IsTable(cursors', CursorIds, CursorState)
    BY <1>0, <2>5, <2>6, ExceptTable
  <2>8. \A d \in DOMAIN cursors' :
            cursors'[d].maxRows # NoLimit => cursors'[d].fetched <= cursors'[d].maxRows
    BY <1>0, <2>5, <2>6 DEF Bounded, Fetched
  <2>9. /\ IsTable(results', CursorIds, ResultSet)
        /\ \A r \in DOMAIN results' : results'[r].pos <= results'[r].len
    <3>1. CASE results' = Drop(results, {c})
      BY <1>0, <3>1, DropTable DEF Bounded, Drop
    <3>2. CASE results' = [results EXCEPT ![c].pos = results[c].pos + g] /\ c \in DOMAIN results
      <4>1. results[c].pos + g \in Nat /\ results[c].pos + g <= results[c].len
        BY <1>0, <2>2, <2>4, <3>2
      <4> QED BY <1>0, <3>2, <4>1 DEF Bounded, IsTable
    <3>3. CASE results' = [results EXCEPT ![c].pos = results[c].pos + g] /\ c \notin DOMAIN results
      <4>1. results' = results BY <1>0, <3>3 DEF IsTable
      <4> QED BY <1>0, <4>1 DEF Bounded
    <3> QED BY <2>3, <2>4, <3>1, <3>2, <3>3
  <2>10. TypeOK' BY <2>7, <2>9 DEF TypeOK
  <2>11. Bounded' BY <2>8, <2>9 DEF Bounded
  <2> QED BY <2>10, <2>11 DEF TInv
<1> QED BY <1>2, <1>3, <1>4

\* The outcomes of a chunk of rows can be counted.
LEMMA CountType ==
    ASSUME NEW k \in Nat, NEW rows \in [1 .. k -> Outcomes], NEW S
    PROVE  Count(rows, S) \in Nat /\ Len(rows) \in Nat
<1>1. IsFiniteSet(1 .. k) BY FS_Interval
<1>2. IsFiniteSet({i \in DOMAIN rows : rows[i] \in S})
  BY <1>1, FS_Subset
<1>3. Count(rows, S) \in Nat BY <1>2, FS_CardinalityType DEF Count
<1>4. Len(rows) \in Nat BY rows \in Seq(Outcomes)
<1> QED BY <1>3, <1>4

LEMMA TypeTransfer == ASSUME TInv, TransferNext PROVE TInv'
<1> USE DEF TInv
<1> DEFINE Import == [conn : ConnIds, inserted : Nat, failed : Nat]
           Sent == [rows : Nat, reported : Nat, ended : BOOLEAN]
<1>0. UNCHANGED <<cursors, results>> => Bounded'
  BY DEF Bounded
<1>1. ASSUME NEW c \in ConnIds, NEW s \in StreamIds, HandleDataExport(c, s) PROVE TInv'
  <2> USE <1>1 DEF HandleDataExport, database
  <2>1. PICK len \in Lengths : streams' = Put(streams, s, [len |-> len, offset |-> 0])
    OBVIOUS
  <2>2. [len |-> len, offset |-> 0] \in [len : Nat, offset : Nat]
    BY BoundsAssumption
  <2>3. IsTable(streams', StreamIds, [len : Nat, offset : Nat])
    BY <2>1, <2>2, PutTable DEF TypeOK
  <2> QED BY <1>0, <2>3 DEF TypeOK
<1>2. ASSUME NEW s \in StreamIds, NEW n \in FetchSizes, HandleStreamRead(s, n) PROVE TInv'
  <2>1. /\ s \in DOMAIN streams
        /\ UNCHANGED <<serving, initialized, nextID, conns, cursors, txs, imports,
                       database, told, sent>>
    BY <1>2 DEF HandleStreamRead
  <2>2. streams[s] \in [len : Nat, offset : Nat]
    BY <2>1 DEF TypeOK, IsTable
  <2>3. StreamReadChunk(s, n).end \in Nat
    BY <2>2, BoundsAssumption DEF StreamReadChunk, Smaller
  <2>4. PICK end \in Nat : end = StreamReadChunk(s, n).end
    BY <2>3
  <2>5. \/ streams' = Drop(streams, {s})
        \/ streams' = [streams EXCEPT ![s].offset = StreamReadChunk(s, n).end]
    BY <1>2, Zenon DEF HandleStreamRead
  <2>6. streams' = Drop(streams, {s}) \/ streams' = [streams EXCEPT ![s].offset = end]
    BY <2>4, <2>5, Zenon
  <2>7. IsTable(streams', StreamIds, [len : Nat, offset : Nat])
    <3>1. CASE streams' = Drop(streams, {s}) BY <3>1, DropTable DEF TypeOK
    <3>2. CASE streams' = [streams EXCEPT ![s].offset = end]
      BY <2>2, <3>2 DEF TypeOK, IsTable
    <3> QED BY <2>6, <3>1, <3>2
  <2> QED BY <1>0, <2>1, <2>7 DEF TypeOK, database
<1>3. ASSUME NEW s \in StreamIds, HandleStreamClose(s) PROVE TInv'
  <2> USE <1>3 DEF HandleStreamClose, database, history
  <2>1. IsTable(streams', StreamIds, [len : Nat, offset : Nat])
    BY DropTable DEF TypeOK
  <2> QED BY <1>0, <2>1 DEF TypeOK
<1>4. ASSUME NEW c \in ConnIds, HandleImportBegin(c) PROVE TInv'
  <2> USE <1>4 DEF HandleImportBegin
  <2>0. nextID \in [conn : 1 .. MaxConns + 1, cursor : 1 .. MaxCursors + 1,
                    tx : 1 .. MaxTxs + 1, import : 1 .. MaxImports + 1]
    BY DEF TypeOK
  <2>1. /\ nextID.import \in ImportIds
        /\ nextID' \in [conn : 1 .. MaxConns + 1, cursor : 1 .. MaxCursors + 1,
                         tx : 1 .. MaxTxs + 1, import : 1 .. MaxImports + 1]
    BY <2>0, BoundsAssumption DEF ImportIds
  <2>2. IsTable(imports', ImportIds, Import)
    BY <2>1, PutTable, [conn |-> c, inserted |-> 0, failed |-> 0] \in Import DEF TypeOK
  <2>3. IsTable(stored', ImportIds, Nat)
    BY <2>1, PutTable DEF TypeOK
  <2>4. IsTable(sent', ImportIds, Sent)
    BY <2>1, PutTable, [rows |-> 0, reported |-> 0, ended |-> FALSE] \in Sent DEF TypeOK
  <2> QED BY <1>0, <2>1, <2>2, <2>3, <2>4 DEF TypeOK
<1>5. ASSUME NEW i \in ImportIds, NEW k \in 0 .. MaxWrites, NEW rows \in [1 .. k -> Outcomes],
             HandleImportChunk(i, rows)
      PROVE  TInv'
  <2> USE <1>5 DEF HandleImportChunk
  <2>0. /\ IsTable(imports, ImportIds, Import) /\ IsTable(stored, ImportIds, Nat)
        /\ IsTable(sent, ImportIds, Sent)
    BY DEF TypeOK
  <2>1. /\ \A S : Count(rows, S) \in Nat
        /\ Len(rows) \in Nat
    BY CountType, BoundsAssumption
  <2>2. imports[i] \in Import BY <2>0 DEF IsTable
  <2>3. ImportCounts(imports[i], rows) \in Import
    BY <2>1, <2>2 DEF ImportCounts
  <2>4. IsTable(imports', ImportIds, Import)
    BY <2>0, <2>3, ExceptTable
  <2>5. IsTable(stored', ImportIds, Nat)
    <3>1. i \in DOMAIN stored => stored[i] + Count(rows, {"done", "uncounted"}) \in Nat
      BY <2>0, <2>1 DEF IsTable
    <3> QED BY <2>0, <3>1, ExceptTable
  <2>6. IsTable(sent', ImportIds, Sent)
    <3>1. sent' = [sent EXCEPT ![i].rows = sent[i].rows + Len(rows)] OBVIOUS
    <3>2. CASE i \in DOMAIN sent
      <4>1. sent[i] \in Sent /\ sent[i].rows + Len(rows) \in Nat
        BY <2>0, <2>1, <3>2 DEF IsTable
      <4> QED BY <2>0, <3>1, <3>2, <4>1 DEF IsTable
    <3>3. CASE i \notin DOMAIN sent
      BY <2>0, <3>1, <3>3, sent' = sent DEF IsTable
    <3> QED BY <3>2, <3>3
  <2> QED BY <1>0, <2>4, <2>5, <2>6 DEF TypeOK
<1>6. ASSUME NEW i \in ImportIds, HandleImportCommit(i) \/ HandleImportAbort(i) PROVE TInv'
  <2> USE <1>6 DEF HandleImportCommit, HandleImportAbort, database, history
  <2>1. IsTable(imports', ImportIds, Import)
    BY DropTable DEF TypeOK
  <2>2. IsTable(sent', ImportIds, Sent)
    <3>1. IsTable(sent, ImportIds, Sent) BY DEF TypeOK
    <3>2. CASE sent' = sent BY <3>1, <3>2
    <3>3. CASE /\ i \in DOMAIN imports
               /\ sent' = [sent EXCEPT ![i].reported = imports[i].inserted, ![i].ended = TRUE]
      <4>1. imports[i].inserted \in Nat BY <3>3 DEF TypeOK, IsTable
      <4> QED BY <3>1, <3>3, <4>1 DEF IsTable
    <3> QED BY <3>2, <3>3
  <2> QED BY <1>0, <2>1, <2>2 DEF TypeOK
<1> QED BY <1>1, <1>2, <1>3, <1>4, <1>5, <1>6 DEF TransferNext

LEMMA TInvStep == TInv /\ [Next]_vars => TInv'
<1> SUFFICES ASSUME TInv, [Next]_vars PROVE TInv'
  OBVIOUS
<1>1. CASE UNCHANGED vars
  BY <1>1 DEF vars, tables, database, history, TInv, TypeOK, Bounded
<1>2. CASE HandleInit
  BY <1>2 DEF HandleInit, tables, database, history, TInv, TypeOK, Bounded
<1>3. CASE SocketEnds
  BY <1>3 DEF SocketEnds, tables, database, history, TInv, TypeOK, Bounded
<1>4. CASE HandlePing \/ HandleConnTest \/ HandleRejected
  BY <1>1, <1>4 DEF HandlePing, HandleConnTest, HandleRejected
<1>5. CASE \E c \in ConnIds \cup {0} : HandleDdlBuild(c)
  BY <1>1, <1>5 DEF HandleDdlBuild
<1>6. CASE \E c \in ConnIds : HandleMetadata(c)
  BY <1>1, <1>6 DEF HandleMetadata
<1>7. CASE HandleConnOpen
  BY <1>7, TypeConnOpen
<1>8. CASE HandleShutdown
  BY <1>8, TypeShutdown
<1>9. ASSUME NEW c \in ConnIds, ConnNext(c) PROVE TInv'
  BY <1>9, TypeConnClose, TypeConnUse, TypeQueryStart, TypeExec, TypeTxBegin DEF ConnNext
<1>10. ASSUME NEW c \in ConnIds, BatchNext(c) PROVE TInv'
  <2>1. UNCHANGED <<serving, initialized, tables, database, told, sent>>
    BY <1>10 DEF BatchNext, HandleExecBatch
  <2> QED BY <2>1 DEF tables, database, TInv, TypeOK, Bounded
<1>11. ASSUME NEW c \in CursorIds, CursorNext(c) PROVE TInv'
  BY <1>11, TypeCursorFetch, TypeCursorClose DEF CursorNext
<1>12. ASSUME NEW t \in TxIds, TxNext(t) PROVE TInv'
  BY <1>1, <1>12, TypeTx DEF TxNext, HandleTxSavepoint
<1>13. CASE TransferNext
  BY <1>13, TypeTransfer
<1> QED
  BY <1>1, <1>2, <1>3, <1>4, <1>5, <1>6, <1>7, <1>8, <1>9, <1>10, <1>11, <1>12, <1>13 DEF Next

\* The server's tables, and what database/sql keeps for them, hold only ids that
\* were handed out and entries of their type, whatever requests the host sends
\* in whatever order and whatever fails: fetched counts and row positions
\* included.
THEOREM DbTypeOK == Spec => []TypeOK
<1>1. TInv => TypeOK BY DEF TInv
<1> QED BY <1>1, TInvInit, TInvStep, PTL DEF Spec
----------------------------------------------------------------------------
(* The tables and the database *)

\* The ids a table may hold are the ones handed out, and every transaction
\* handed out has its work and the host's view of it.  NoTx is no transaction.
Ids ==
    /\ nextID \in [conn : Nat, cursor : Nat, tx : Nat \ {0}, import : Nat]
    /\ \A c \in DOMAIN conns : c < nextID.conn
    /\ DOMAIN conns \subseteq Nat
    /\ DOMAIN cursors \subseteq Nat
    /\ \A c \in DOMAIN cursors : c < nextID.cursor
    /\ DOMAIN work = 0 .. nextID.tx - 1
    /\ DOMAIN told = 0 .. nextID.tx - 1
    /\ DOMAIN txs \subseteq 1 .. nextID.tx - 1
    /\ work[NoTx].fate = "committed"
    /\ told[NoTx].fate = "committed"

\* After shutdown the tables are empty and stay so.
Emptied ==
    serving = "shutdown" =>
        DOMAIN conns = {} /\ DOMAIN cursors = {} /\ DOMAIN txs = {}

\* The values of the tables are records of the right shape.
Shapes ==
    /\ cursors \in [DOMAIN cursors -> [conn : ConnIds, rows : BOOLEAN, maxRows : Limits,
                                       fetched : Int, done : BOOLEAN]]
    /\ txs \in [DOMAIN txs -> [conn : ConnIds]]
    /\ results \in [DOMAIN results -> [tx : Nat, pos : Int, len : Int]]
    /\ work \in [DOMAIN work -> [fate : Fates, writes : Int]]
    /\ told \in [DOMAIN told -> [fate : Fates \cup {"unknown"}, writes : Int]]

IInv == Shapes /\ Ids /\ Emptied /\ NoOrphans /\ NothingLeaks /\ TransactionFates

LEMMA IInvInit == Init => IInv
BY BoundsAssumption DEF Init, IInv, Shapes, Ids, Emptied, NoOrphans, NothingLeaks, RowsOwned,
   TransactionFates, Empty, NoTx, Fates

LEMMA ConnCloseStep ==
    ASSUME IInv, NEW c \in ConnIds, HandleConnClose(c)
    PROVE  IInv'
<1> USE DEF Ready
<1> USE DEF HandleConnClose
<1>1. Shapes'
  BY DEF IInv, Shapes, Drop, Finish, Abandon, Fates
<1>2. Ids'
  BY DEF IInv, Ids, Drop, Finish, Abandon, NoTx, OfConn, Shapes
<1>3. Emptied'
  BY DEF IInv, Emptied
<1>4. NoOrphans'
  BY DEF IInv, NoOrphans, Drop, OfConn
<1>5. NothingLeaks'
  <2>1. handles' = DOMAIN conns'
    BY DEF IInv, NothingLeaks, Drop
  <2>2. \A t \in DOMAIN work' : work'[t].fate = "active" => t \in DOMAIN txs'
    BY DEF IInv, NothingLeaks, Drop, Finish
  <2>3. RowsOwned'
    <3> SUFFICES ASSUME NEW r \in DOMAIN results'
                 PROVE  /\ r \in DOMAIN cursors'
                        /\ cursors'[r].rows /\ ~cursors'[r].done
                        /\ results'[r].tx # NoTx =>
                              /\ results'[r].tx \in DOMAIN txs'
                              /\ work'[results'[r].tx].fate = "active"
                              /\ txs'[results'[r].tx].conn = cursors'[r].conn
      BY DEF RowsOwned
    <3>1. /\ r \in DOMAIN results /\ results'[r] = results[r]
          /\ r \notin OfConn(cursors, c) /\ results[r].tx \notin OfConn(txs, c)
      BY DEF Drop, RowsOf
    <3>2. r \in DOMAIN cursors' /\ cursors'[r] = cursors[r]
      BY <3>1 DEF Drop, IInv, NothingLeaks, RowsOwned
    <3>3. ASSUME results[r].tx # NoTx
          PROVE  /\ results[r].tx \in DOMAIN txs'
                 /\ txs'[results[r].tx] = txs[results[r].tx]
                 /\ work'[results[r].tx] = work[results[r].tx]
      BY <3>1, <3>3 DEF Drop, IInv, NothingLeaks, RowsOwned, Finish, Ids
    <3> QED BY <3>1, <3>2, <3>3 DEF IInv, NothingLeaks, RowsOwned
  <2> QED BY <2>1, <2>2, <2>3 DEF NothingLeaks
<1>6. TransactionFates'
  BY DEF IInv, TransactionFates, Shapes, Ids, Drop, OfConn, Finish, Abandon, NothingLeaks
<1> QED BY <1>1, <1>2, <1>3, <1>4, <1>5, <1>6 DEF IInv

\* A step that touches no cursor, transaction or handle.
LEMMA QuietStep ==
    ASSUME IInv,
           UNCHANGED <<cursors, txs, results, work, told, handles>>,
           DOMAIN conns' = DOMAIN conns,
           nextID' \in [conn : Nat, cursor : Nat, tx : Nat \ {0}, import : Nat],
           nextID'.conn = nextID.conn, nextID'.cursor = nextID.cursor, nextID'.tx = nextID.tx,
           serving' = "shutdown" => serving = "shutdown",
           \A i \in DOMAIN imports' : imports'[i].conn \in DOMAIN conns
    PROVE  IInv'
<1>1. Shapes' BY DEF IInv, Shapes
<1>2. Ids' BY DEF IInv, Ids
<1>3. Emptied' BY DEF IInv, Emptied
<1>4. NoOrphans' BY DEF IInv, NoOrphans
<1>5. NothingLeaks' BY DEF IInv, NothingLeaks, RowsOwned
<1>6. TransactionFates' BY DEF IInv, TransactionFates
<1> QED BY <1>1, <1>2, <1>3, <1>4, <1>5, <1>6 DEF IInv

LEMMA ShutdownStep ==
    ASSUME IInv, HandleShutdown
    PROVE  IInv'
<1> USE DEF HandleShutdown
<1>1. Shapes'
  BY DEF IInv, Shapes, Drop, Finish, Abandon, Empty, Fates
<1>2. Ids'
  BY DEF IInv, Ids, Finish, Abandon, NoTx, Empty
<1>3. Emptied'
  BY DEF Emptied, Empty
<1>4. NoOrphans'
  BY DEF NoOrphans, Empty
<1>5. NothingLeaks'
  BY DEF IInv, NothingLeaks, RowsOwned, Drop, Finish, Empty
<1>6. TransactionFates'
  BY DEF IInv, TransactionFates, Shapes, Ids, Finish, Abandon
<1> QED BY <1>1, <1>2, <1>3, <1>4, <1>5, <1>6 DEF IInv

LEMMA ConnOpenStep ==
    ASSUME IInv, HandleConnOpen
    PROVE  IInv'
<1> USE DEF HandleConnOpen, Ready
<1>1. Shapes' BY DEF IInv, Shapes, history
<1>2. Ids' BY SMTT(30) DEF IInv, Ids, Put, history
<1>3. Emptied' BY DEF IInv, Emptied
<1>4. NoOrphans' BY DEF IInv, NoOrphans, Put
<1>5. NothingLeaks' BY DEF IInv, NothingLeaks, RowsOwned, Put, history
<1>6. TransactionFates' BY DEF IInv, TransactionFates, history
<1> QED BY <1>1, <1>2, <1>3, <1>4, <1>5, <1>6 DEF IInv

LEMMA QueryStartStep ==
    ASSUME IInv, NEW c \in ConnIds, NEW t \in TxIds \cup {NoTx}, NEW max \in Limits,
           HandleQueryStart(c, t, max)
    PROVE  IInv'
<1> USE DEF HandleQueryStart, Ready
<1>1. Shapes'
  BY BoundsAssumption DEF IInv, Shapes, Put, TxIds, NoTx
<1>2. Ids' BY SMTT(30) DEF IInv, Ids, Put
<1>3. Emptied' BY DEF IInv, Emptied
<1>4. NoOrphans' BY DEF IInv, NoOrphans, Put
<1>5. NothingLeaks'
  BY DEF IInv, NothingLeaks, RowsOwned, Put, Usable, TxForRequest, NoTx
<1>6. TransactionFates' BY DEF IInv, TransactionFates
<1> QED BY <1>1, <1>2, <1>3, <1>4, <1>5, <1>6 DEF IInv

LEMMA TxBeginStep ==
    ASSUME IInv, NEW c \in ConnIds, HandleTxBegin(c)
    PROVE  IInv'
<1> USE DEF HandleTxBegin, Ready
<1>1. Shapes'
  BY DEF IInv, Shapes, Put, Fates
<1>0. /\ nextID \in [conn : Nat, cursor : Nat, tx : Nat \ {0}, import : Nat]
      /\ DOMAIN work = 0 .. nextID.tx - 1 /\ DOMAIN told = 0 .. nextID.tx - 1
      /\ DOMAIN txs \subseteq 1 .. nextID.tx - 1
      /\ NoTx \in DOMAIN work /\ NoTx # nextID.tx
  BY DEF IInv, Ids, NoTx
<1>2. Ids'
  <2>1. /\ nextID' \in [conn : Nat, cursor : Nat, tx : Nat \ {0}, import : Nat]
        /\ nextID'.conn = nextID.conn /\ nextID'.cursor = nextID.cursor
        /\ nextID'.tx = nextID.tx + 1
    BY <1>0
  <2>2. /\ DOMAIN work' = 0 .. nextID'.tx - 1
        /\ DOMAIN told' = 0 .. nextID'.tx - 1
        /\ DOMAIN txs' \subseteq 1 .. nextID'.tx - 1
    BY SMTT(30), <1>0, <2>1 DEF Put
  <2>3. work'[NoTx].fate = "committed" /\ told'[NoTx].fate = "committed"
    BY <1>0 DEF IInv, Ids, Put
  <2> QED BY <2>1, <2>2, <2>3 DEF IInv, Ids
<1>3. Emptied' BY DEF IInv, Emptied
<1>4. NoOrphans' BY DEF IInv, NoOrphans, Put
<1>5. NothingLeaks'
  BY DEF IInv, NothingLeaks, RowsOwned, Put, Ids
<1>6. TransactionFates' BY DEF IInv, TransactionFates, Put, Ids
<1> QED BY <1>1, <1>2, <1>3, <1>4, <1>5, <1>6 DEF IInv

LEMMA TxCommitStep ==
    ASSUME IInv, NEW t \in TxIds, HandleTxCommit(t)
    PROVE  IInv'
<1> USE DEF HandleTxCommit, Ready
<1>0. t \in DOMAIN work /\ t \in DOMAIN told /\ t # NoTx
  BY DEF IInv, Ids, NoTx
<1>1. PICK fate \in {"committed", "rolledback"} : work' = Finish({t}, fate)
  OBVIOUS
<1>2. PICK view \in {"committed", "unknown"} : told' = [told EXCEPT ![t].fate = view]
  BY DEF Tell
<1>3. Shapes' BY ZenonT(40), <1>1, <1>2 DEF IInv, Shapes, Drop, Finish, Fates
<1>4. Ids' BY <1>0, <1>1, <1>2 DEF IInv, Ids, Drop, Finish, NoTx
<1>5. Emptied' BY DEF IInv, Emptied
<1>6. NoOrphans' BY DEF IInv, NoOrphans, Drop
<1>7. NothingLeaks' BY <1>0, <1>1 DEF IInv, NothingLeaks, RowsOwned, Ids, Drop, Finish, RowsOf
<1>8. TransactionFates'
  <2>1. /\ DOMAIN told' = DOMAIN told
        /\ \A u \in DOMAIN told : u # t => told'[u] = told[u] /\ work'[u] = work[u]
    BY <1>1, <1>2 DEF IInv, Ids, Finish
  <2>2. told'[t].writes = told[t].writes /\ work'[t].writes = work[t].writes
    BY <1>0, <1>1, <1>2 DEF IInv, Shapes, Finish
  <2>3. work'[t].fate # "active"
    BY <1>0, <1>1, <1>2 DEF Finish
  <2>4. CASE told' = [told EXCEPT ![t].fate = "unknown"]
    <3>1. told'[t].fate = "unknown"
      BY <1>0, <2>4 DEF IInv, Shapes
    <3> QED BY <2>1, <2>2, <2>3, <3>1 DEF IInv, TransactionFates
  <2>5. CASE /\ Usable(t) /\ work' = Finish({t}, "committed")
             /\ told' = [told EXCEPT ![t].fate = "committed"]
    <3>1. told'[t].fate = "committed" /\ work'[t].fate = "committed"
      BY <1>0, <2>5 DEF IInv, Shapes, Finish, Usable
    <3> QED BY <2>1, <2>2, <3>1 DEF IInv, TransactionFates
  <2> QED BY <2>4, <2>5 DEF Tell
<1> QED BY <1>3, <1>4, <1>5, <1>6, <1>7, <1>8 DEF IInv

LEMMA TxRollbackStep ==
    ASSUME IInv, NEW t \in TxIds, HandleTxRollback(t)
    PROVE  IInv'
<1> USE DEF HandleTxRollback, Ready
<1>0. t \in DOMAIN work /\ t \in DOMAIN told /\ t # NoTx
  BY DEF IInv, Ids, NoTx
<1>2. PICK view \in {"rolledback", "unknown"} : told' = [told EXCEPT ![t].fate = view]
  BY DEF Tell
<1>3. Shapes' BY <1>2 DEF IInv, Shapes, Drop, Finish, Fates
<1>4. Ids' BY <1>0, <1>2 DEF IInv, Ids, Drop, Finish, NoTx
<1>5. Emptied' BY DEF IInv, Emptied
<1>6. NoOrphans' BY DEF IInv, NoOrphans, Drop
<1>7. NothingLeaks' BY <1>0 DEF IInv, NothingLeaks, RowsOwned, Ids, Drop, Finish, RowsOf
<1>8. TransactionFates'
  <2>1. /\ DOMAIN told' = DOMAIN told
        /\ \A u \in DOMAIN told : u # t => told'[u] = told[u] /\ work'[u] = work[u]
    BY <1>2 DEF IInv, Ids, Finish
  <2>2. told'[t].writes = told[t].writes /\ work'[t].writes = work[t].writes
    BY <1>0, <1>2 DEF IInv, Shapes, Finish
  <2>3. work'[t].fate # "active"
    BY <1>0, <1>2 DEF Finish
  <2>4. CASE told' = [told EXCEPT ![t].fate = "unknown"]
    <3>1. told'[t].fate = "unknown"
      BY <1>0, <2>4 DEF IInv, Shapes
    <3> QED BY <2>1, <2>2, <2>3, <3>1 DEF IInv, TransactionFates
  <2>5. CASE /\ Usable(t) /\ work' = Finish({t}, "rolledback")
             /\ told' = [told EXCEPT ![t].fate = "rolledback"]
    <3>1. told'[t].fate = "rolledback" /\ work'[t].fate = "rolledback"
      BY <1>0, <2>5 DEF IInv, Shapes, Finish, Usable
    <3> QED BY ZenonT(40), <2>1, <2>2, <3>1 DEF IInv, TransactionFates
  <2> QED BY <2>4, <2>5 DEF Tell
<1> QED BY <1>3, <1>4, <1>5, <1>6, <1>7, <1>8 DEF IInv

\* A step that only counts statements, of the database's or of the host's.
LEMMA CountStep ==
    ASSUME IInv, Shapes',
           DOMAIN work' = DOMAIN work, DOMAIN told' = DOMAIN told,
           \A u \in DOMAIN work : work'[u].fate = work[u].fate,
           \A u \in DOMAIN told : told'[u].fate = told[u].fate /\ told'[u].writes <= work'[u].writes,
           UNCHANGED <<serving, tables, handles, results>>
    PROVE  IInv'
<1> USE DEF tables
<1>2. Ids' BY DEF IInv, Ids, NoTx
<1>3. Emptied' BY DEF IInv, Emptied
<1>4. NoOrphans' BY DEF IInv, NoOrphans
<1>5. NothingLeaks'
  <2>1. handles' = DOMAIN conns' BY DEF IInv, NothingLeaks
  <2>2. \A t \in DOMAIN work' : work'[t].fate = "active" => t \in DOMAIN txs'
    BY DEF IInv, NothingLeaks
  <2>3. \A t \in DOMAIN txs : work'[t].fate = work[t].fate
    BY DEF IInv, Ids
  <2>4. RowsOwned'
    BY <2>3 DEF IInv, NothingLeaks, RowsOwned
  <2> QED BY <2>1, <2>2, <2>4 DEF NothingLeaks
<1>6. TransactionFates' BY DEF IInv, TransactionFates, Ids
<1> QED BY <1>2, <1>3, <1>4, <1>5, <1>6 DEF IInv

LEMMA ExecStep ==
    ASSUME IInv, NEW c \in ConnIds, NEW t \in TxIds \cup {NoTx}, HandleExecRun(c, t)
    PROVE  IInv'
<1> USE DEF HandleExecRun, tables
<1>1. /\ t \in DOMAIN work /\ t \in DOMAIN told /\ DOMAIN told = DOMAIN work
      /\ \A u \in DOMAIN told : /\ work[u].writes \in Int /\ told[u].writes \in Int
                                /\ told[u].writes <= work[u].writes
  BY DEF IInv, Ids, Shapes, TxForRequest, TransactionFates, NoTx
<1>2. /\ DOMAIN work' = DOMAIN work
      /\ \A u \in DOMAIN work : work'[u].fate = work[u].fate /\ work'[u].writes >= work[u].writes
      /\ work'[t].writes = work[t].writes + 1
  BY <1>1 DEF IInv, Shapes
<1>3. CASE told' = told
  <2>1. Shapes' BY <1>1, <1>3 DEF IInv, Shapes
  <2>2. \A u \in DOMAIN told : told'[u].writes <= work'[u].writes
    BY <1>1, <1>2, <1>3, <2>1 DEF Shapes
  <2> QED BY <1>2, <1>3, <2>1, <2>2, CountStep
<1>4. CASE told' = [told EXCEPT ![t].writes = told[t].writes + 1]
  <2>1. Shapes' BY <1>1, <1>4 DEF IInv, Shapes
  <2>2. /\ DOMAIN told' = DOMAIN told
        /\ \A u \in DOMAIN told : told'[u].fate = told[u].fate /\ told'[u].writes <= work'[u].writes
    BY <1>1, <1>2, <1>4, <2>1 DEF IInv, Shapes
  <2> QED BY <1>2, <2>1, <2>2, CountStep
<1> QED BY <1>3, <1>4

LEMMA RollbackToStep ==
    ASSUME IInv, NEW t \in TxIds, HandleTxRollbackTo(t)
    PROVE  IInv'
<1> USE DEF HandleTxRollbackTo, tables
<1>1. /\ t \in DOMAIN work /\ t \in DOMAIN told /\ DOMAIN told = DOMAIN work
      /\ \A u \in DOMAIN told : told[u].writes <= work[u].writes
      /\ work[t].writes \in Int /\ told[t].writes \in Int
  BY DEF IInv, Ids, Shapes, TransactionFates
<1>2. PICK w \in 0 .. work[t].writes :
        /\ work' = [work EXCEPT ![t].writes = w]
        /\ told' = [told EXCEPT ![t].writes = Smaller(told[t].writes, w)]
  OBVIOUS
<1>3. w \in Int /\ Smaller(told[t].writes, w) \in Int /\ Smaller(told[t].writes, w) <= w
  BY <1>1, <1>2 DEF Smaller
<1>4. Shapes' BY SMTT(30), <1>1, <1>2, <1>3 DEF IInv, Shapes
<1>5. /\ DOMAIN work' = DOMAIN work /\ DOMAIN told' = DOMAIN told
      /\ \A u \in DOMAIN work : work'[u].fate = work[u].fate
      /\ \A u \in DOMAIN told : told'[u].fate = told[u].fate /\ told'[u].writes <= work'[u].writes
  BY <1>1, <1>2, <1>3 DEF IInv, Shapes
<1> QED BY <1>4, <1>5, CountStep

\* A step on one cursor: its entry goes or keeps its connection, its Rows
\* advance or are closed, and they are closed whenever the cursor is done.
LEMMA CursorStep ==
    ASSUME IInv, NEW c \in DOMAIN cursors,
           UNCHANGED <<serving, nextID, conns, txs, imports, handles, work, told>>,
           Shapes',
           DOMAIN cursors' \subseteq DOMAIN cursors,
           DOMAIN results' \subseteq DOMAIN results,
           \A d \in DOMAIN cursors' : cursors'[d].conn = cursors[d].conn,
           \A d \in DOMAIN cursors : d # c => d \in DOMAIN cursors' /\ cursors'[d] = cursors[d],
           \A d \in DOMAIN results' : results'[d].tx = results[d].tx,
           c \in DOMAIN results' => c \in DOMAIN cursors' /\ cursors'[c].rows /\ ~cursors'[c].done
    PROVE  IInv'
<1>1. Ids' BY DEF IInv, Ids
<1>2. Emptied' BY DEF IInv, Emptied
<1>3. NoOrphans' BY DEF IInv, NoOrphans
<1>4. NothingLeaks' BY DEF IInv, NothingLeaks, RowsOwned
<1>5. TransactionFates' BY DEF IInv, TransactionFates
<1> QED BY <1>1, <1>2, <1>3, <1>4, <1>5 DEF IInv

LEMMA CursorCloseStep ==
    ASSUME IInv, NEW c \in CursorIds, HandleCursorClose(c) \/ HandleCursorCancel(c)
    PROVE  IInv'
<1> USE DEF HandleCursorClose, HandleCursorCancel, CloseCursor, Closed
<1>1. c \in DOMAIN cursors OBVIOUS
<1>2. /\ DOMAIN results' \subseteq DOMAIN results
      /\ \A d \in DOMAIN results' : results'[d] = results[d]
      /\ c \notin DOMAIN results'
  BY DEF IInv, NothingLeaks, RowsOwned, Drop
<1>3. /\ DOMAIN cursors' \subseteq DOMAIN cursors
      /\ \A d \in DOMAIN cursors : d # c => d \in DOMAIN cursors' /\ cursors'[d] = cursors[d]
      /\ \A d \in DOMAIN cursors' : cursors'[d].conn = cursors[d].conn
  BY DEF IInv, Shapes, Drop
<1>4. Shapes'
  <2>1. CASE cursors' = Drop(cursors, {c})
    BY <2>1 DEF IInv, Shapes, Drop
  <2>2. CASE cursors' = [cursors EXCEPT ![c] = Closed(cursors[c])]
    BY <2>2 DEF IInv, Shapes, Drop
  <2> QED BY <2>1, <2>2
<1> QED BY <1>1, <1>2, <1>3, <1>4, CursorStep

LEMMA CursorFetchStep ==
    ASSUME IInv, NEW c \in CursorIds, NEW n \in FetchSizes, HandleCursorFetch(c, n)
    PROVE  IInv'
<1> USE DEF HandleCursorFetch
<1>1. c \in DOMAIN cursors OBVIOUS
<1>2. CASE FetchNothing(c)
  <2>1. Shapes' BY <1>2 DEF FetchNothing, IInv, Shapes
  <2> QED BY <1>1, <1>2, <2>1, CursorStep DEF FetchNothing, IInv, NothingLeaks, RowsOwned
<1>3. CASE FetchFails(c, n)
  <2>1. Wanted(cursors[c], n) \in Int
    BY <1>1, BoundsAssumption DEF IInv, Shapes, Wanted, Smaller, NoLimit
  <2>2. Shapes' BY <1>3, <2>1 DEF FetchFails, IInv, Shapes, Drop
  <2>3. /\ DOMAIN results' \subseteq DOMAIN results
        /\ \A d \in DOMAIN results' : results'[d].tx = results[d].tx
    BY <1>3, <2>1 DEF FetchFails, IInv, Shapes, Drop
  <2> QED BY <1>1, <1>3, <2>2, <2>3, CursorStep DEF FetchFails, IInv, NothingLeaks, RowsOwned
<1>4. CASE FetchRows(c, n)
  <2> DEFINE want == Wanted(cursors[c], n)
             got == IF want = 0 THEN 0 ELSE Smaller(want, results[c].len - results[c].pos)
  <2>1. want \in Int
    BY <1>1, BoundsAssumption DEF IInv, Shapes, Wanted, Smaller, NoLimit
  <2>2. got \in Int
    <3>1. c \in DOMAIN results \/ want = 0
      BY <1>4 DEF FetchRows
    <3> HIDE DEF want
    <3> QED BY <2>1, <3>1 DEF IInv, Shapes, Smaller
  <2>3. \/ /\ cursors' = [cursors EXCEPT ![c] = Fetched(cursors[c], got, TRUE, FALSE)]
           /\ results' = [results EXCEPT ![c].pos = results[c].pos + got]
        \/ /\ cursors' = [cursors EXCEPT ![c] = Fetched(cursors[c], got, FALSE, TRUE)]
           /\ results' = Drop(results, {c})
        \/ /\ cursors' = [cursors EXCEPT ![c] = Fetched(cursors[c], got, TRUE, TRUE)]
           /\ results' = Drop(results, {c})
    BY <1>4 DEF FetchRows
  <2>4. PICK g \in Int : g = got BY <2>2
  <2> HIDE DEF want, got
  <2>5. PICK rows \in BOOLEAN, done \in BOOLEAN :
            cursors' = [cursors EXCEPT ![c] = Fetched(cursors[c], g, rows, done)]
    BY <2>3, <2>4
  <2>6. results' = Drop(results, {c}) \/ results' = [results EXCEPT ![c].pos = results[c].pos + g]
    BY <2>3, <2>4
  <2>7. /\ DOMAIN results' \subseteq DOMAIN results
        /\ \A d \in DOMAIN results' : results'[d].tx = results[d].tx
        /\ results' \in [DOMAIN results' -> [tx : Nat, pos : Int, len : Int]]
    <3>1. CASE results' = Drop(results, {c})
      BY <3>1 DEF IInv, Shapes, Drop
    <3>2. CASE results' = [results EXCEPT ![c].pos = results[c].pos + g]
      <4>1. CASE c \in DOMAIN results
        BY <3>2, <4>1 DEF IInv, Shapes
      <4>2. CASE c \notin DOMAIN results
        <5>1. DOMAIN results' = DOMAIN results /\ \A d \in DOMAIN results : results'[d] = results[d]
          BY <3>2, <4>2
        <5> QED BY <3>2, <4>2, <5>1 DEF IInv, Shapes
      <4> QED BY <4>1, <4>2
    <3> QED BY <2>6, <3>1, <3>2
  <2>8. Shapes'
    BY <1>1, <2>5, <2>7 DEF IInv, Shapes, Fetched
  <2>9. /\ DOMAIN cursors' = DOMAIN cursors
        /\ \A d \in DOMAIN cursors : d # c => cursors'[d] = cursors[d]
        /\ cursors'[c].conn = cursors[c].conn
    BY <1>1, <2>5 DEF IInv, Shapes, Fetched
  <2>10. c \in DOMAIN results' => cursors'[c].rows /\ ~cursors'[c].done
    BY <1>1, <2>3 DEF Drop, Fetched
  <2> QED BY <1>1, <2>7, <2>8, <2>9, <2>10, CursorStep
<1> QED BY <1>2, <1>3, <1>4

\* Import and stream requests touch no cursor, transaction or handle, and a new
\* import belongs to a connection the server has.
LEMMA TransferStep ==
    ASSUME IInv, TransferNext
    PROVE  IInv'
<1> USE DEF tables, database, history, Ready
<1>0. /\ nextID \in [conn : Nat, cursor : Nat, tx : Nat \ {0}, import : Nat]
      /\ \A i \in DOMAIN imports : imports[i].conn \in DOMAIN conns
  BY DEF IInv, Ids, NoOrphans
<1>1. ASSUME NEW c \in ConnIds, NEW s \in StreamIds, HandleDataExport(c, s) PROVE IInv'
  BY <1>0, <1>1, QuietStep DEF HandleDataExport
<1>2. ASSUME NEW s \in StreamIds, NEW n \in FetchSizes, HandleStreamRead(s, n) PROVE IInv'
  BY <1>0, <1>2, QuietStep DEF HandleStreamRead
<1>3. ASSUME NEW s \in StreamIds, HandleStreamClose(s) PROVE IInv'
  BY <1>0, <1>3, QuietStep DEF HandleStreamClose
<1>4. ASSUME NEW c \in ConnIds, HandleImportBegin(c) PROVE IInv'
  <2> USE <1>4 DEF HandleImportBegin
  <2>1. \A i \in DOMAIN imports' : imports'[i].conn \in DOMAIN conns
    BY <1>0 DEF Put
  <2>2. /\ nextID' \in [conn : Nat, cursor : Nat, tx : Nat \ {0}, import : Nat]
        /\ nextID'.conn = nextID.conn /\ nextID'.cursor = nextID.cursor
        /\ nextID'.tx = nextID.tx
    BY <1>0
  <2>3. UNCHANGED <<serving, conns, cursors, txs, results, work, told, handles>>
    OBVIOUS
  <2> QED BY <2>1, <2>2, <2>3, QuietStep
<1>5. ASSUME NEW i \in ImportIds, NEW rows, HandleImportChunk(i, rows) PROVE IInv'
  <2>1. \A j \in DOMAIN imports' : imports'[j].conn \in DOMAIN conns
    BY <1>0, <1>5 DEF HandleImportChunk, ImportCounts
  <2> QED BY <1>0, <1>5, <2>1, QuietStep DEF HandleImportChunk
<1>6. ASSUME NEW i \in ImportIds, HandleImportCommit(i) \/ HandleImportAbort(i) PROVE IInv'
  <2>1. \A j \in DOMAIN imports' : imports'[j].conn \in DOMAIN conns
    BY <1>0, <1>6 DEF HandleImportCommit, HandleImportAbort, Drop
  <2> QED BY <1>0, <1>6, <2>1, QuietStep DEF HandleImportCommit, HandleImportAbort
<1> QED BY <1>1, <1>2, <1>3, <1>4, <1>5, <1>6 DEF TransferNext

LEMMA IInvStep == IInv /\ [Next]_vars => IInv'
<1> SUFFICES ASSUME IInv, [Next]_vars PROVE IInv'
  OBVIOUS
<1>0. /\ nextID \in [conn : Nat, cursor : Nat, tx : Nat \ {0}, import : Nat]
      /\ \A i \in DOMAIN imports : imports[i].conn \in DOMAIN conns
  BY DEF IInv, Ids, NoOrphans
<1>1. CASE UNCHANGED vars
  BY <1>0, <1>1, QuietStep DEF vars, tables, database, history
<1>2. CASE HandleInit \/ SocketEnds
  BY <1>0, <1>2, QuietStep DEF HandleInit, SocketEnds, tables, database, history
<1>3. CASE HandlePing \/ HandleConnTest \/ HandleRejected
  BY <1>1, <1>3 DEF HandlePing, HandleConnTest, HandleRejected
<1>4. CASE \E c \in ConnIds \cup {0} : HandleDdlBuild(c)
  BY <1>1, <1>4 DEF HandleDdlBuild
<1>5. CASE \E c \in ConnIds : HandleMetadata(c)
  BY <1>1, <1>5 DEF HandleMetadata
<1>6. CASE HandleConnOpen
  BY <1>6, ConnOpenStep
<1>7. CASE HandleShutdown
  BY <1>7, ShutdownStep
<1>8. ASSUME NEW c \in ConnIds, HandleConnUse(c) PROVE IInv'
  BY <1>0, <1>8, QuietStep DEF HandleConnUse, database, history
<1>9. ASSUME NEW c \in ConnIds, ConnNext(c) PROVE IInv'
  BY <1>8, <1>9, ConnCloseStep, QueryStartStep, ExecStep, TxBeginStep DEF ConnNext
<1>10. ASSUME NEW c \in ConnIds, BatchNext(c) PROVE IInv'
  <2>1. UNCHANGED <<serving, tables, database, told>>
    BY <1>10 DEF BatchNext, HandleExecBatch
  <2> QED BY <1>0, <2>1, QuietStep DEF tables, database
<1>11. ASSUME NEW c \in CursorIds, CursorNext(c) PROVE IInv'
  BY <1>11, CursorFetchStep, CursorCloseStep DEF CursorNext
<1>12. ASSUME NEW t \in TxIds, TxNext(t) PROVE IInv'
  BY <1>1, <1>12, TxCommitStep, TxRollbackStep, RollbackToStep DEF TxNext, HandleTxSavepoint
<1>13. CASE TransferNext
  BY <1>13, TransferStep
<1> QED BY <1>1, <1>2, <1>3, <1>4, <1>5, <1>6, <1>7, <1>9, <1>10, <1>11, <1>12, <1>13 DEF Next

LEMMA IInvAlways == Spec => []IInv
BY IInvInit, IInvStep, PTL DEF Spec

\* Whatever the host sends and whatever fails, a table of the server never
\* refers to a connection that conn/close has taken away.
THEOREM DbNoOrphans == Spec => []NoOrphans
<1>1. IInv => NoOrphans BY DEF IInv
<1> QED BY <1>1, IInvAlways, PTL

\* Every handle, transaction and result set that is open in database/sql can be
\* reached from the server's tables, so the clean-up of conn/close and shutdown
\* finds it.
THEOREM DbNothingLeaks == Spec => []NothingLeaks
<1>1. IInv => NothingLeaks BY DEF IInv
<1> QED BY <1>1, IInvAlways, PTL

\* A driver that has answered shutdown holds no handle, no result set and no
\* open transaction.
THEOREM DbShutdownReleasesAll == Spec => []ShutdownReleasesAll
<1>1. IInv => ShutdownReleasesAll
  BY DEF IInv, ShutdownReleasesAll, Emptied, NothingLeaks, RowsOwned
<1> QED BY <1>1, IInvAlways, PTL

\* What tx/commit, tx/rollback, conn/close and exec/run answered about a
\* transaction is what the database did with it.
THEOREM DbTransactionFates == Spec => []TransactionFates
<1>1. IInv => TransactionFates BY DEF IInv
<1> QED BY <1>1, IInvAlways, PTL
----------------------------------------------------------------------------
(* What the host receives is what the database holds: the rows of cursors, *)
(* the bytes of streams, the counts of imports and the outcome of batches. *)

\* The inductive invariant ties the host's records to the tables.

\* An import that is still known has its account on both sides.
ImportBooks ==
    /\ DOMAIN imports \subseteq DOMAIN sent
    /\ DOMAIN stored = DOMAIN sent
    /\ ImportsAccounted

\* A stream that is still known is the host's last export under its id and has
\* not been read to its end.
StreamBooks ==
    /\ IsTable(read, StreamIds, [bytes : Seq(Nat), len : Nat, done : BOOLEAN])
    /\ \A s \in DOMAIN streams :
        /\ s \in DOMAIN read
        /\ read[s].len = streams[s].len
        /\ ~read[s].done
        /\ streams[s].offset <= streams[s].len
    /\ StreamsDeliver

SeenState ==
    [rows : Seq(Nat), len : Nat, max : Limits, failed : BOOLEAN, done : BOOLEAN, cancelled : BOOLEAN]

\* The rows a cursor has to deliver.
All(s) == IF s.max = NoLimit THEN s.len ELSE Smaller(s.len, s.max)

Increasing(rows) == \A i, j \in DOMAIN rows : i < j => rows[i] < rows[j]

\* The rows received are among the first `pos' ones, in order.
Within(rows, pos) ==
    Increasing(rows) /\ Len(rows) <= pos /\ \A i \in DOMAIN rows : rows[i] <= pos

\* What the host received, whatever became of the cursor since.
Received(s) ==
    /\ Len(s.rows) <= All(s)
    /\ Increasing(s.rows)
    /\ ~s.failed => s.rows = RowsBetween(1, Len(s.rows))
    /\ s.done /\ ~s.failed /\ ~s.cancelled => Len(s.rows) = All(s)

\* A cursor's count of rows is the host's, unless a batch was lost; a cursor that
\* will answer done has nothing left to deliver.
CountsWith(s, cursor) ==
    /\ s.max = cursor.maxRows
    /\ Len(s.rows) <= cursor.fetched
    /\ ~s.failed => Len(s.rows) = cursor.fetched
    /\ (cursor.done \/ ~cursor.rows) /\ ~s.failed /\ ~s.cancelled => Len(s.rows) = All(s)

\* Open Rows stand just after the last row the host has, unless a batch was lost.
StandsAfter(s, result) ==
    /\ s.len = result.len
    /\ ~s.done /\ ~s.cancelled
    /\ Within(s.rows, result.pos)
    /\ ~s.failed => Len(s.rows) = result.pos

CursorBooks ==
    /\ IsTable(seen, CursorIds, SeenState)
    /\ \A c \in DOMAIN seen : Received(seen[c])
    /\ \A c \in DOMAIN cursors : c \in DOMAIN seen /\ CountsWith(seen[c], cursors[c])
    /\ \A c \in DOMAIN results : c \in DOMAIN seen /\ StandsAfter(seen[c], results[c])

DInv == TInv /\ IInv /\ ImportBooks /\ StreamBooks /\ CursorBooks /\ BatchIsAtomic

----------------------------------------------------------------------------
(* What the operators on rows and outcomes return.                         *)

\* A range of rows is the sequence of its numbers.
LEMMA RangeOfRows ==
    ASSUME NEW p \in Nat, NEW g \in Nat
    PROVE  /\ RowsBetween(p + 1, p + g) \in Seq(Nat)
           /\ Len(RowsBetween(p + 1, p + g)) = g
           /\ \A i \in 1 .. g : RowsBetween(p + 1, p + g)[i] = p + i
<1>1. 1 .. (p + g) - (p + 1) + 1 = 1 .. g
  OBVIOUS
<1>2. RowsBetween(p + 1, p + g) = [i \in 1 .. g |-> p + i]
  BY <1>1 DEF RowsBetween
<1>3. [i \in 1 .. g |-> p + i] \in Seq(Nat) /\ Len([i \in 1 .. g |-> p + i]) = g
  OBVIOUS
<1> QED BY <1>2, <1>3

\* Appending the next `g' rows to rows among the first `p'.
Appended(rows, p, g, new) ==
    /\ new \in Seq(Nat)
    /\ Len(new) = Len(rows) + g
    /\ Within(new, p + g)
    /\ rows = RowsBetween(1, Len(rows)) /\ Len(rows) = p => new = RowsBetween(1, Len(new))

LEMMA AppendRows ==
    ASSUME NEW rows \in Seq(Nat), NEW p \in Nat, NEW g \in Nat, Within(rows, p)
    PROVE  Appended(rows, p, g, rows \o RowsBetween(p + 1, p + g))
<1> DEFINE more == RowsBetween(p + 1, p + g)
           new == rows \o more
<1>1. more \in Seq(Nat) /\ Len(more) = g /\ \A i \in 1 .. g : more[i] = p + i
  BY RangeOfRows
<1> HIDE DEF more
<1>2. PICK n \in Nat : n = Len(rows) OBVIOUS
<1>3. /\ new \in Seq(Nat) /\ Len(new) = n + g
      /\ DOMAIN new = 1 .. n + g /\ DOMAIN rows = 1 .. n
      /\ \A i \in 1 .. n : new[i] = rows[i]
  <2>1. new \in Seq(Nat)
    BY SMTT(30), <1>1
  <2>2. Len(new) = Len(rows) + Len(more)
    BY SMTT(30), <1>1
  <2>3. Len(new) = n + g
    BY <1>1, <1>2, <2>2
  <2>4. DOMAIN rows = 1 .. n
    BY <1>2
  <2>5. DOMAIN new = 1 .. n + g
    BY <2>1, <2>3
  <2>6. \A i \in 1 .. n : new[i] = rows[i]
    BY <1>1, <1>2
  <2> QED BY <2>1, <2>3, <2>4, <2>5, <2>6
<1>4. \A i \in 1 .. n + g : i > n => new[i] = p + (i - n)
  <2> SUFFICES ASSUME NEW i \in 1 .. n + g, i > n PROVE new[i] = p + (i - n)
    OBVIOUS
  <2>1. new[i] = more[i - n] BY <1>1, <1>2
  <2>2. i - n \in 1 .. g BY <1>2
  <2> QED BY <1>1, <2>1, <2>2
<1> HIDE DEF new
<1>5. \A i \in 1 .. n : rows[i] \in Nat /\ rows[i] <= p
  BY <1>2, <1>3 DEF Within
<1>6. Within(new, p + g)
  <2>1. Increasing(new)
    <3> SUFFICES ASSUME NEW i \in 1 .. n + g, NEW j \in 1 .. n + g, i < j PROVE new[i] < new[j]
      BY <1>3 DEF Increasing
    <3>1. CASE j <= n
      <4>1. i \in 1 .. n /\ j \in 1 .. n BY <3>1
      <4> QED BY <1>3, <4>1 DEF Within, Increasing
    <3>2. CASE i <= n /\ j > n
      <4>1. i \in 1 .. n BY <3>2
      <4>2. new[i] \in Nat /\ new[i] <= p BY <1>3, <1>5, <4>1
      <4>3. new[j] = p + (j - n) BY <1>4, <3>2
      <4> QED BY <3>2, <4>2, <4>3
    <3>3. CASE i > n
      BY <1>4, <3>3
    <3> QED BY <3>1, <3>2, <3>3
  <2>2. Len(new) <= p + g BY <1>2, <1>3 DEF Within
  <2>3. \A i \in 1 .. n + g : new[i] <= p + g
    <3> SUFFICES ASSUME NEW i \in 1 .. n + g PROVE new[i] <= p + g OBVIOUS
    <3>1. CASE i <= n BY <1>3, <1>5, <3>1
    <3>2. CASE i > n
      <4>1. new[i] = p + (i - n) BY <1>4, <3>2
      <4> QED BY <4>1
    <3> QED BY <3>1, <3>2
  <2> QED BY <1>3, <2>1, <2>2, <2>3 DEF Within
<1>7. ASSUME rows = RowsBetween(1, Len(rows)), Len(rows) = p
      PROVE  new = RowsBetween(1, Len(new))
  <2>1. n = p BY <1>2, <1>7
  <2>2. \A i \in 1 .. n : rows[i] = i
    <3>1. rows = [i \in 1 .. n - 1 + 1 |-> 1 + i - 1] BY <1>2, <1>7 DEF RowsBetween
    <3> QED BY <3>1
  <2>3. \A i \in 1 .. n + g : new[i] = i
    <3> SUFFICES ASSUME NEW i \in 1 .. n + g PROVE new[i] = i OBVIOUS
    <3>1. CASE i <= n BY <1>3, <2>2, <3>1
    <3>2. CASE i > n BY <1>4, <2>1, <3>2
    <3> QED BY <3>1, <3>2
  <2>4. new = [i \in 1 .. n + g |-> i]
    BY <1>3, <2>3
  <2>5. RowsBetween(1, n + g) = [i \in 1 .. n + g |-> i]
    BY DEF RowsBetween
  <2> QED BY <1>3, <2>4, <2>5
<1> QED BY <1>2, <1>3, <1>6, <1>7 DEF Appended, new, more

\* The rows of a chunk are counted once each, and what is counted as inserted
\* was carried out.
LEMMA ChunkCounts ==
    ASSUME NEW k \in Nat, NEW rows \in [1 .. k -> Outcomes]
    PROVE  /\ Len(rows) = k
           /\ Count(rows, {"done"}) \in Nat /\ Count(rows, {"uncounted", "refused"}) \in Nat
           /\ Count(rows, {"done", "uncounted"}) \in Nat
           /\ Count(rows, {"done"}) + Count(rows, {"uncounted", "refused"}) = Len(rows)
           /\ Count(rows, {"done"}) <= Count(rows, {"done", "uncounted"})
<1> DEFINE D == {i \in 1 .. k : rows[i] \in {"done"}}
           F == {i \in 1 .. k : rows[i] \in {"uncounted", "refused"}}
           T == {i \in 1 .. k : rows[i] \in {"done", "uncounted"}}
<1>1. Len(rows) = k /\ DOMAIN rows = 1 .. k
  BY rows \in Seq(Outcomes)
<1>2. /\ Count(rows, {"done"}) = Cardinality(D)
      /\ Count(rows, {"uncounted", "refused"}) = Cardinality(F)
      /\ Count(rows, {"done", "uncounted"}) = Cardinality(T)
  BY <1>1 DEF Count
<1>3. IsFiniteSet(1 .. k) /\ Cardinality(1 .. k) = k
  BY FS_Interval
<1>4. IsFiniteSet(D) /\ IsFiniteSet(F) /\ IsFiniteSet(T)
  BY <1>3, FS_Subset
<1>5. Cardinality(D) \in Nat /\ Cardinality(F) \in Nat /\ Cardinality(T) \in Nat
  BY <1>4, FS_CardinalityType
<1>6. D \cup F = 1 .. k /\ D \cap F = {} /\ D \subseteq T
  BY DEF Outcomes
<1> HIDE DEF D, F, T
<1>7. Cardinality(D \cup F) = Cardinality(D) + Cardinality(F) - Cardinality(D \cap F)
  BY <1>4, FS_Union, Zenon
<1>8. Cardinality(D \cap F) = 0
  BY <1>6, FS_EmptySet
<1>9. Cardinality(D) <= Cardinality(T)
  BY <1>4, <1>6, FS_Subset, Zenon
<1>10. Cardinality(D \cup F) = k
  BY <1>3, <1>6
<1>11. PICK d \in Nat, f \in Nat, u \in Nat :
         d = Cardinality(D) /\ f = Cardinality(F) /\ u = Cardinality(T)
  BY <1>5
<1>12. d + f = k /\ d <= u
  BY <1>7, <1>8, <1>9, <1>10, <1>11
<1> QED BY <1>1, <1>2, <1>11, <1>12

Before == {ss \in Nat \X Nat : ss[1] < ss[2]}

\* A set of statements that is not empty has a first one.
LEMMA FirstOne ==
    ASSUME NEW S \in SUBSET Nat, S # {}
    PROVE  \E i \in S : \A j \in S : i <= j
<1>1. Before = OpToRel(<, Nat)
  BY Zenon DEF OpToRel, Before
<1>2. IsWellFoundedOn(Before, Nat)
  BY <1>1, NatLessThanWellFounded, Zenon
<1>3. PICK x \in S : \A y \in S : ~(<<y, x>> \in Before)
  BY <1>2, WFMin, Zenon
<1>4. \A y \in S : ~(y < x)
  BY <1>3 DEF Before
<1> QED BY <1>4

\* A batch that has run without an error has run every statement.
LEMMA CleanRunIsWhole ==
    ASSUME NEW k \in Nat, NEW outcomes \in [1 .. k -> Outcomes], NEW stop \in BOOLEAN,
           ~HasErrors(BatchRun(outcomes, stop))
    PROVE  /\ BatchRun(outcomes, stop) = outcomes
           /\ Count(outcomes, {"done", "uncounted"}) = Len(outcomes)
<1> DEFINE bad == {i \in DOMAIN outcomes : outcomes[i] # "done"}
           last == CHOOSE i \in bad : \A j \in bad : i <= j
<1>0. outcomes \in Seq(Outcomes) /\ Len(outcomes) = k /\ DOMAIN outcomes = 1 .. k
  OBVIOUS
<1>1. ASSUME stop, bad # {} PROVE FALSE
  <2>1. bad \in SUBSET Nat BY <1>0
  <2>2. last \in bad
    <3> HIDE DEF bad
    <3>1. \E i \in bad : \A j \in bad : i <= j BY <1>1, <2>1, FirstOne
    <3> QED BY <3>1
  <2>3. last \in 1 .. k /\ outcomes[last] # "done"
    BY <1>0, <2>2
  <2>4. BatchRun(outcomes, stop) = SubSeq(outcomes, 1, last)
    BY <1>1 DEF BatchRun
  <2> HIDE DEF last, bad
  <2>5. last \in DOMAIN SubSeq(outcomes, 1, last) /\ SubSeq(outcomes, 1, last)[last] = outcomes[last]
    BY <1>0, <2>3
  <2> QED BY <2>3, <2>4, <2>5 DEF HasErrors
<1>2. BatchRun(outcomes, stop) = outcomes
  BY <1>1 DEF BatchRun
<1>3. \A i \in 1 .. k : outcomes[i] = "done"
  BY <1>0, <1>2 DEF HasErrors
<1>4. {i \in DOMAIN outcomes : outcomes[i] \in {"done", "uncounted"}} = 1 .. k
  BY <1>0, <1>3
<1>5. Cardinality(1 .. k) = k BY FS_Interval
<1> QED BY <1>0, <1>2, <1>4, <1>5 DEF Count

----------------------------------------------------------------------------
(* Every handler keeps the books.                                          *)

LEMMA DInvInit == Init => DInv
<1> SUFFICES ASSUME Init PROVE DInv OBVIOUS
<1>1. ImportBooks BY DEF Init, ImportBooks, ImportsAccounted, Empty
<1>2. StreamBooks BY DEF Init, StreamBooks, StreamsDeliver, Empty, IsTable
<1>3. CursorBooks BY DEF Init, CursorBooks, Empty, IsTable
<1>4. BatchIsAtomic BY DEF Init, BatchIsAtomic, NoBatch
<1> QED BY <1>1, <1>2, <1>3, <1>4, TInvInit, IInvInit DEF DInv

\* A request that is no part of an import keeps the accounts.
LEMMA ImportsKept ==
    ASSUME ImportBooks, UNCHANGED <<stored, sent>>,
           DOMAIN imports' \subseteq DOMAIN imports,
           \A i \in DOMAIN imports' : imports'[i] = imports[i]
    PROVE  ImportBooks'
BY DEF ImportBooks, ImportsAccounted

LEMMA ImportStep ==
    ASSUME TInv, ImportBooks,
           \/ \E c \in ConnIds : HandleImportBegin(c)
           \/ \E i \in ImportIds, n \in 0 .. MaxWrites :
                \E rows \in [1 .. n -> Outcomes] : HandleImportChunk(i, rows)
           \/ \E i \in ImportIds : HandleImportCommit(i) \/ HandleImportAbort(i)
    PROVE  ImportBooks'
<1>0. /\ IsTable(imports, ImportIds, [conn : ConnIds, inserted : Nat, failed : Nat])
      /\ IsTable(stored, ImportIds, Nat)
      /\ IsTable(sent, ImportIds, [rows : Nat, reported : Nat, ended : BOOLEAN])
      /\ DOMAIN imports \subseteq DOMAIN sent /\ DOMAIN stored = DOMAIN sent
  BY DEF TInv, TypeOK, ImportBooks
<1>1. ASSUME NEW c \in ConnIds, HandleImportBegin(c) PROVE ImportBooks'
  BY <1>0, <1>1 DEF HandleImportBegin, ImportBooks, ImportsAccounted, Put
<1>2. ASSUME NEW i \in ImportIds, NEW n \in 0 .. MaxWrites, NEW rows \in [1 .. n -> Outcomes],
             HandleImportChunk(i, rows)
      PROVE  ImportBooks'
  <2>0. n \in Nat BY BoundsAssumption
  <2>1. PICK k \in Nat, d \in Nat, f \in Nat, u \in Nat :
          /\ k = Len(rows) /\ d = Count(rows, {"done"})
          /\ f = Count(rows, {"uncounted", "refused"}) /\ u = Count(rows, {"done", "uncounted"})
          /\ d + f = k /\ d <= u
    BY <2>0, ChunkCounts
  <2>2. /\ i \in DOMAIN imports /\ i \in DOMAIN sent /\ i \in DOMAIN stored
        /\ imports' = [imports EXCEPT ![i] = [conn |-> imports[i].conn,
                                              inserted |-> imports[i].inserted + d,
                                              failed |-> imports[i].failed + f]]
        /\ stored' = [stored EXCEPT ![i] = stored[i] + u]
        /\ sent' = [sent EXCEPT ![i].rows = sent[i].rows + k]
    BY <1>0, <1>2, <2>1 DEF HandleImportChunk, ImportCounts
  <2>3. /\ \A j \in DOMAIN imports : j # i => imports'[j] = imports[j]
        /\ \A j \in DOMAIN sent : j # i => sent'[j] = sent[j] /\ stored'[j] = stored[j]
        /\ DOMAIN imports' = DOMAIN imports /\ DOMAIN sent' = DOMAIN sent
        /\ DOMAIN stored' = DOMAIN stored
        /\ imports'[i].inserted = imports[i].inserted + d /\ imports'[i].failed = imports[i].failed + f
        /\ stored'[i] = stored[i] + u
        /\ sent'[i].rows = sent[i].rows + k /\ sent'[i].reported = sent[i].reported
    BY <1>0, <2>2 DEF IsTable
  <2>4. /\ imports[i].inserted \in Nat /\ imports[i].failed \in Nat
        /\ stored[i] \in Nat /\ sent[i].rows \in Nat /\ sent[i].reported \in Nat
    BY <1>0, <2>2 DEF IsTable
  <2>5. /\ imports[i].inserted + imports[i].failed = sent[i].rows
        /\ imports[i].inserted <= stored[i] /\ sent[i].reported <= stored[i]
    BY <2>2 DEF ImportBooks, ImportsAccounted
  <2>6. /\ imports'[i].inserted + imports'[i].failed = sent'[i].rows
        /\ imports'[i].inserted <= stored'[i] /\ sent'[i].reported <= stored'[i]
    <3>1. PICK a \in Nat, b \in Nat, s \in Nat, r \in Nat, p \in Nat :
            /\ a = imports[i].inserted /\ b = imports[i].failed /\ s = stored[i]
            /\ r = sent[i].rows /\ p = sent[i].reported
      BY <2>4
    <3>2. a + b = r /\ a <= s /\ p <= s
      BY <2>5, <3>1
    <3>0. d + f = k /\ d <= u BY <2>1
    <3>3. (a + d) + (b + f) = r + k /\ a + d <= s + u /\ p <= s + u
      BY <3>0, <3>2
    <3> QED BY <2>3, <3>1, <3>3
  <2> QED BY <1>0, <2>3, <2>6 DEF ImportBooks, ImportsAccounted
<1>3. ASSUME NEW i \in ImportIds, HandleImportCommit(i) PROVE ImportBooks'
  <2>1. /\ i \in DOMAIN imports /\ i \in DOMAIN sent
        /\ imports' = Drop(imports, {i}) /\ stored' = stored
        /\ sent' = [sent EXCEPT ![i].reported = imports[i].inserted, ![i].ended = TRUE]
    BY <1>0, <1>3 DEF HandleImportCommit, database
  <2>2. /\ DOMAIN sent' = DOMAIN sent
        /\ \A j \in DOMAIN sent : j # i => sent'[j] = sent[j]
        /\ sent'[i].reported = imports[i].inserted
    BY <1>0, <2>1 DEF IsTable
  <2> QED BY <1>0, <2>1, <2>2 DEF ImportBooks, ImportsAccounted, Drop
<1>4. ASSUME NEW i \in ImportIds, HandleImportAbort(i) PROVE ImportBooks'
  BY <1>4, ImportsKept DEF HandleImportAbort, database, history, Drop
<1> QED BY <1>1, <1>2, <1>3, <1>4

LEMMA StreamsKept ==
    ASSUME StreamBooks, read' = read,
           DOMAIN streams' \subseteq DOMAIN streams,
           \A s \in DOMAIN streams' : streams'[s] = streams[s]
    PROVE  StreamBooks'
BY DEF StreamBooks, StreamsDeliver, IsTable

LEMMA StreamStep ==
    ASSUME TInv, StreamBooks,
           \/ \E c \in ConnIds, s \in StreamIds : HandleDataExport(c, s)
           \/ \E s \in StreamIds, n \in FetchSizes : HandleStreamRead(s, n)
           \/ \E s \in StreamIds : HandleStreamClose(s)
    PROVE  StreamBooks'
<1> DEFINE ReadState == [bytes : Seq(Nat), len : Nat, done : BOOLEAN]
<1>0. /\ IsTable(streams, StreamIds, [len : Nat, offset : Nat])
      /\ IsTable(read, StreamIds, ReadState)
  BY DEF TInv, TypeOK, StreamBooks
<1>1. ASSUME NEW c \in ConnIds, NEW s \in StreamIds, HandleDataExport(c, s) PROVE StreamBooks'
  <2>1. PICK len \in Lengths :
          /\ streams' = Put(streams, s, [len |-> len, offset |-> 0])
          /\ read' = Put(read, s, [bytes |-> <<>>, len |-> len, done |-> FALSE])
    BY <1>1 DEF HandleDataExport
  <2>2. [bytes |-> <<>>, len |-> len, done |-> FALSE] \in ReadState /\ 0 <= len
    BY BoundsAssumption
  <2>3. IsTable(read', StreamIds, ReadState)
    BY <1>0, <2>1, <2>2, PutTable
  <2>4. <<>> = RowsBetween(1, Len(<<>>))
    BY DEF RowsBetween
  <2> QED BY <2>1, <2>2, <2>3, <2>4 DEF StreamBooks, StreamsDeliver, Put
<1>2. ASSUME NEW s \in StreamIds, NEW n \in FetchSizes, HandleStreamRead(s, n) PROVE StreamBooks'
  <2>0. /\ s \in DOMAIN streams /\ s \in DOMAIN read
        /\ streams[s] \in [len : Nat, offset : Nat] /\ read[s] \in ReadState
        /\ streams[s].offset <= streams[s].len /\ read[s].len = streams[s].len
        /\ Len(read[s].bytes) = streams[s].offset
        /\ read[s].bytes = RowsBetween(1, Len(read[s].bytes))
        /\ n \in Nat
    BY <1>0, <1>2, BoundsAssumption DEF StreamBooks, StreamsDeliver, IsTable, HandleStreamRead
  <2>a. PICK from \in Nat, len \in Nat : from = streams[s].offset /\ len = streams[s].len
    BY <2>0
  <2>b. PICK end \in Nat : end = Smaller(from + n, len)
    BY <2>0 DEF Smaller
  <2>1. /\ from = streams[s].offset /\ len = streams[s].len
        /\ end = Smaller(from + n, len) /\ from <= end /\ end <= len
    BY <2>0, <2>a, <2>b DEF Smaller
  <2>2. StreamReadChunk(s, n) = [end |-> end, bytes |-> RowsBetween(from + 1, end)]
    BY <2>1 DEF StreamReadChunk
  <2>3. PICK g \in Nat : end = from + g
    <3>1. end - from \in Nat /\ end = from + (end - from) BY <2>1
    <3> QED BY <3>1
  <2>4. PICK bytes \in Seq(Nat) : bytes = read[s].bytes
    BY <2>0
  <2> DEFINE done == end >= len
             new == bytes \o RowsBetween(from + 1, from + g)
  <2>5. /\ streams' = IF done THEN Drop(streams, {s}) ELSE [streams EXCEPT ![s].offset = end]
        /\ read' = [read EXCEPT ![s].bytes = new, ![s].done = done]
    <3>1. /\ StreamReadChunk(s, n).end = end
          /\ StreamReadChunk(s, n).bytes = RowsBetween(from + 1, from + g)
      BY <2>2, <2>3
    <3>2. /\ streams' = IF StreamReadChunk(s, n).end >= streams[s].len
                        THEN Drop(streams, {s})
                        ELSE [streams EXCEPT ![s].offset = StreamReadChunk(s, n).end]
          /\ read' = [read EXCEPT ![s].bytes = read[s].bytes \o StreamReadChunk(s, n).bytes,
                                  ![s].done = StreamReadChunk(s, n).end >= streams[s].len]
      BY <1>2, Zenon DEF HandleStreamRead
    <3> QED BY <2>1, <2>4, <3>1, <3>2
  <2>6. new \in Seq(Nat) /\ Len(new) = end /\ new = RowsBetween(1, Len(new))
    <3>1. Within(bytes, from)
      <4>1. bytes = [i \in 1 .. from |-> i]
        BY <2>0, <2>1, <2>4 DEF RowsBetween
      <4> QED BY <2>0, <2>1, <2>4, <4>1 DEF Within, Increasing
    <3>2. Appended(bytes, from, g, new)
      BY <3>1, AppendRows
    <3> HIDE DEF new
    <3> QED BY <2>0, <2>1, <2>3, <2>4, <3>2 DEF Appended
  <2> HIDE DEF new
  <2>7. /\ DOMAIN read' = DOMAIN read
        /\ \A r \in DOMAIN read : r # s => read'[r] = read[r]
        /\ read'[s] = [bytes |-> new, len |-> len, done |-> done]
    BY <2>0, <2>1, <2>5
  <2>8. IsTable(read', StreamIds, ReadState)
    <3>1. [bytes |-> new, len |-> len, done |-> done] \in ReadState BY <2>6
    <3>2. read' = [read EXCEPT ![s] = [bytes |-> new, len |-> len, done |-> done]]
      BY <2>0, <2>5, <2>7
    <3> HIDE DEF done
    <3> QED BY <1>0, <3>1, <3>2, ExceptTable
  <2>9. /\ \A r \in DOMAIN streams : r # s => r \in DOMAIN streams' /\ streams'[r] = streams[r]
        /\ DOMAIN streams' \subseteq DOMAIN streams
        /\ done => s \notin DOMAIN streams'
        /\ ~done => streams'[s] = [len |-> len, offset |-> end]
    BY <2>0, <2>1, <2>5 DEF Drop
  <2>10. \A r \in DOMAIN streams' :
           /\ r \in DOMAIN read' /\ read'[r].len = streams'[r].len
           /\ ~read'[r].done /\ streams'[r].offset <= streams'[r].len
    BY <2>0, <2>1, <2>7, <2>9 DEF StreamBooks
  <2>11. StreamsDeliver'
    <3> SUFFICES ASSUME NEW r \in DOMAIN read'
                 PROVE  /\ read'[r].bytes = RowsBetween(1, Len(read'[r].bytes))
                        /\ read'[r].done => /\ Len(read'[r].bytes) = read'[r].len
                                            /\ r \notin DOMAIN streams'
                        /\ r \in DOMAIN streams' => Len(read'[r].bytes) = streams'[r].offset
      BY DEF StreamsDeliver
    <3>1. CASE r = s
      <4>1. read'[s].bytes = new /\ read'[s].len = len /\ read'[s].done = done
        BY <2>7
      <4>2. done => end = len BY <2>1
      <4>3. s \in DOMAIN streams' => ~done /\ streams'[s].offset = end
        BY <2>9
      <4> QED BY <2>6, <2>9, <3>1, <4>1, <4>2, <4>3
    <3>2. CASE r # s
      BY <2>7, <2>9, <3>2 DEF StreamBooks, StreamsDeliver
    <3> QED BY <3>1, <3>2
  <2> QED BY <2>8, <2>10, <2>11 DEF StreamBooks
<1>3. ASSUME NEW s \in StreamIds, HandleStreamClose(s) PROVE StreamBooks'
  BY <1>3, StreamsKept DEF HandleStreamClose, history, Drop
<1> QED BY <1>1, <1>2, <1>3

LEMMA BatchStep ==
    ASSUME NEW c \in ConnIds, BatchNext(c) PROVE BatchIsAtomic'
<1>1. PICK outcomes \in UNION {[1 .. n -> Outcomes] : n \in BatchSizes},
           stop \in BOOLEAN, inTx \in BOOLEAN : HandleExecBatch(c, outcomes, stop, inTx)
  BY DEF BatchNext
<1>2. PICK k \in Nat : outcomes \in [1 .. k -> Outcomes]
  BY BoundsAssumption
<1> DEFINE run == BatchRun(outcomes, stop)
<1>3. ~HasErrors(run) => /\ Len(run) = Len(outcomes)
                         /\ Count(run, {"done", "uncounted"}) = Len(outcomes)
  BY <1>2, CleanRunIsWhole
<1> HIDE DEF run
<1>4. CASE inTx /\ batch' = [atomic |-> TRUE, size |-> Len(outcomes), done |-> 0, answer |-> "error"]
  BY <1>4 DEF BatchIsAtomic
<1>5. ASSUME inTx, NEW end \in BatchEnd(run, stop),
             batch' = [atomic |-> TRUE, size |-> Len(outcomes), done |-> end.done, answer |-> end.answer]
      PROVE  BatchIsAtomic'
  BY <1>3, <1>5 DEF BatchIsAtomic, BatchEnd
<1>6. CASE batch' = [atomic |-> FALSE, size |-> Len(outcomes),
                     done |-> Count(run, {"done", "uncounted"}),
                     answer |-> IF HasErrors(run) THEN "errors" ELSE "clean"]
  BY <1>3, <1>6 DEF BatchIsAtomic
<1> QED BY <1>1, <1>4, <1>5, <1>6 DEF HandleExecBatch, run

\* Forgetting cursors and closing Rows leaves what the host received as it is.
LEMMA CursorsKept ==
    ASSUME CursorBooks, seen' = seen,
           DOMAIN cursors' \subseteq DOMAIN cursors,
           \A c \in DOMAIN cursors' : cursors'[c] = cursors[c],
           DOMAIN results' \subseteq DOMAIN results,
           \A c \in DOMAIN results' : results'[c] = results[c]
    PROVE  CursorBooks'
<1>1. \A c \in DOMAIN cursors' : c \in DOMAIN seen' /\ CountsWith(seen'[c], cursors'[c])
  BY DEF CursorBooks
<1>2. \A c \in DOMAIN results' : c \in DOMAIN seen' /\ StandsAfter(seen'[c], results'[c])
  BY DEF CursorBooks
<1> QED BY <1>1, <1>2 DEF CursorBooks, IsTable

\* A request on one cursor: the books of the others are as before.
LEMMA OneCursor ==
    ASSUME CursorBooks, NEW c \in DOMAIN seen, NEW s \in SeenState,
           seen' = [seen EXCEPT ![c] = s],
           DOMAIN cursors' \subseteq DOMAIN cursors,
           \A d \in DOMAIN cursors' : d # c => cursors'[d] = cursors[d],
           DOMAIN results' \subseteq DOMAIN results,
           \A d \in DOMAIN results' : d # c => results'[d] = results[d],
           Received(s),
           c \in DOMAIN cursors' => CountsWith(s, cursors'[c]),
           c \in DOMAIN results' => StandsAfter(s, results'[c])
    PROVE  CursorBooks'
<1>1. IsTable(seen', CursorIds, SeenState)
  BY ExceptTable DEF CursorBooks
<1>2. DOMAIN seen' = DOMAIN seen /\ \A d \in DOMAIN seen : seen'[d] = IF d = c THEN s ELSE seen[d]
  OBVIOUS
<1>3. \A d \in DOMAIN seen' : Received(seen'[d])
  BY <1>2 DEF CursorBooks
<1>4. \A d \in DOMAIN cursors' : d \in DOMAIN seen' /\ CountsWith(seen'[d], cursors'[d])
  BY <1>2 DEF CursorBooks
<1>5. \A d \in DOMAIN results' : d \in DOMAIN seen' /\ StandsAfter(seen'[d], results'[d])
  BY <1>2 DEF CursorBooks
<1> QED BY <1>1, <1>3, <1>4, <1>5 DEF CursorBooks

LEMMA BooksQueryStart ==
    ASSUME TInv, CursorBooks, NEW c \in ConnIds, NEW t \in TxIds \cup {NoTx}, NEW max \in Limits,
           HandleQueryStart(c, t, max)
    PROVE  CursorBooks'
<1> DEFINE id == nextID.cursor
           new == [conn |-> c, rows |-> TRUE, maxRows |-> max, fetched |-> 0, done |-> FALSE]
<1>0. id \in CursorIds
  BY BoundsAssumption DEF HandleQueryStart, TInv, TypeOK, CursorIds
<1>1. PICK len \in Lengths :
        /\ results' = Put(results, id, [tx |-> t, pos |-> 0, len |-> len])
        /\ seen' = Put(seen, id, [rows |-> <<>>, len |-> len, max |-> max,
                                  failed |-> FALSE, done |-> FALSE, cancelled |-> FALSE])
  BY DEF HandleQueryStart
<1> DEFINE s == [rows |-> <<>>, len |-> len, max |-> max,
                 failed |-> FALSE, done |-> FALSE, cancelled |-> FALSE]
           result == [tx |-> t, pos |-> 0, len |-> len]
<1>2. cursors' = Put(cursors, id, new)
  BY DEF HandleQueryStart
<1>3. s \in SeenState /\ len \in Nat
  BY BoundsAssumption DEF SeenState
<1>4. Received(s)
  <2>1. 0 <= All(s) BY <1>3, BoundsAssumption DEF All, Smaller, NoLimit
  <2>2. <<>> = RowsBetween(1, Len(<<>>)) BY DEF RowsBetween
  <2> QED BY <2>1, <2>2 DEF Received, Increasing
<1>5. CountsWith(s, new)
  BY DEF CountsWith
<1>6. StandsAfter(s, result)
  BY <1>3 DEF StandsAfter, Within, Increasing
<1> HIDE DEF s, new, result, id
<1>7. IsTable(seen', CursorIds, SeenState)
  BY <1>0, <1>1, <1>3, PutTable DEF CursorBooks, s
<1>8. /\ \A d \in DOMAIN seen' : Received(seen'[d])
      /\ \A d \in DOMAIN cursors' : d \in DOMAIN seen' /\ CountsWith(seen'[d], cursors'[d])
      /\ \A d \in DOMAIN results' : d \in DOMAIN seen' /\ StandsAfter(seen'[d], results'[d])
  <2>1. /\ seen' = Put(seen, id, s) /\ results' = Put(results, id, result)
    BY <1>1 DEF s, result
  <2> QED BY <1>2, <1>4, <1>5, <1>6, <2>1 DEF CursorBooks, Put
<1> QED BY <1>7, <1>8 DEF CursorBooks

LEMMA BooksCursorClose ==
    ASSUME TInv, IInv, CursorBooks, NEW c \in CursorIds, HandleCursorClose(c) \/ HandleCursorCancel(c)
    PROVE  CursorBooks'
<1> DEFINE s == [seen[c] EXCEPT !.cancelled = TRUE]
<1>0. /\ c \in DOMAIN cursors /\ c \in DOMAIN seen /\ seen[c] \in SeenState
      /\ cursors[c] \in CursorState
      /\ Received(seen[c]) /\ CountsWith(seen[c], cursors[c])
  BY DEF HandleCursorClose, HandleCursorCancel, CursorBooks, IsTable, TInv, TypeOK
<1>1. seen' = [seen EXCEPT ![c] = s]
  BY DEF HandleCursorClose, HandleCursorCancel
<1>2. /\ s \in SeenState /\ s.rows = seen[c].rows /\ s.len = seen[c].len /\ s.max = seen[c].max
      /\ s.failed = seen[c].failed /\ s.cancelled = TRUE
  BY <1>0 DEF SeenState
<1> HIDE DEF s
<1>3. /\ DOMAIN results' \subseteq DOMAIN results
      /\ \A d \in DOMAIN results' : results'[d] = results[d]
      /\ c \notin DOMAIN results'
  BY DEF HandleCursorClose, HandleCursorCancel, CloseCursor, IInv, NothingLeaks, RowsOwned, Drop
<1>4. /\ DOMAIN cursors' \subseteq DOMAIN cursors
      /\ \A d \in DOMAIN cursors' : d # c => cursors'[d] = cursors[d]
      /\ c \in DOMAIN cursors' => cursors'[c] = Closed(cursors[c])
  BY DEF HandleCursorClose, HandleCursorCancel, Drop
<1>5. Received(s)
  BY <1>0, <1>2 DEF Received, All
<1>6. CountsWith(s, Closed(cursors[c]))
  BY <1>0, <1>2 DEF CountsWith, Closed
<1> QED BY <1>0, <1>1, <1>2, <1>3, <1>4, <1>5, <1>6, OneCursor

LEMMA BooksFetchNothing ==
    ASSUME TInv, IInv, CursorBooks, NEW c \in DOMAIN cursors, FetchNothing(c)
    PROVE  CursorBooks'
<1> DEFINE s == [seen[c] EXCEPT !.done = TRUE]
<1>0. /\ c \in DOMAIN seen /\ seen[c] \in SeenState
      /\ Received(seen[c]) /\ CountsWith(seen[c], cursors[c])
      /\ cursors[c].done \/ ~cursors[c].rows
  BY DEF CursorBooks, IsTable, FetchNothing
<1>1. seen' = [seen EXCEPT ![c] = s] /\ cursors' = cursors /\ results' = results
  BY DEF FetchNothing
<1>2. /\ s \in SeenState /\ s.rows = seen[c].rows /\ s.len = seen[c].len /\ s.max = seen[c].max
      /\ s.failed = seen[c].failed /\ s.cancelled = seen[c].cancelled
  BY <1>0 DEF SeenState
<1> HIDE DEF s
<1>3. c \notin DOMAIN results
  BY <1>0 DEF IInv, NothingLeaks, RowsOwned
<1>4. Received(s)
  BY <1>0, <1>2 DEF Received, CountsWith, All
<1>5. CountsWith(s, cursors[c])
  BY <1>0, <1>2 DEF CountsWith, All
<1> QED BY <1>0, <1>1, <1>2, <1>3, <1>4, <1>5, OneCursor

LEMMA BooksFetchFails ==
    ASSUME TInv, IInv, CursorBooks, NEW c \in DOMAIN cursors, NEW n \in FetchSizes, FetchFails(c, n)
    PROVE  CursorBooks'
<1> DEFINE s == [seen[c] EXCEPT !.failed = TRUE]
<1>0. /\ c \in DOMAIN seen /\ seen[c] \in SeenState /\ cursors[c] \in CursorState
      /\ Received(seen[c]) /\ CountsWith(seen[c], cursors[c])
  BY DEF CursorBooks, IsTable, TInv, TypeOK
<1>1. seen' = [seen EXCEPT ![c] = s] /\ cursors' = cursors
  BY DEF FetchFails, Failed
<1>2. /\ s \in SeenState /\ s.rows = seen[c].rows /\ s.len = seen[c].len /\ s.max = seen[c].max
      /\ s.failed = TRUE /\ s.cancelled = seen[c].cancelled /\ s.done = seen[c].done
  BY <1>0 DEF SeenState
<1> HIDE DEF s
<1>3. Received(s)
  BY <1>0, <1>2 DEF Received, All
<1>4. CountsWith(s, cursors[c])
  BY <1>0, <1>2 DEF CountsWith
<1>5. CASE results' = Drop(results, {c})
  BY <1>0, <1>1, <1>2, <1>3, <1>4, <1>5, OneCursor DEF Drop
<1>6. ASSUME c \in DOMAIN results, NEW got \in 0 .. Wanted(cursors[c], n) - 1,
             results' = [results EXCEPT ![c].pos = results[c].pos + got + 1]
      PROVE  CursorBooks'
  <2>0. /\ results[c] \in [tx : TxIds \cup {NoTx}, pos : Nat, len : Nat]
        /\ StandsAfter(seen[c], results[c])
    BY <1>6 DEF TInv, TypeOK, IsTable, CursorBooks
  <2>1. got \in Nat
    BY <1>0, <1>6, BoundsAssumption DEF Wanted, Smaller, CursorState, NoLimit
  <2>2. PICK p \in Nat : p = results[c].pos + got + 1 /\ results[c].pos <= p
    BY <2>0, <2>1
  <2>3. /\ DOMAIN results' = DOMAIN results
        /\ \A d \in DOMAIN results : d # c => results'[d] = results[d]
        /\ results'[c].pos = p /\ results'[c].len = results[c].len
    BY <1>6, <2>0, <2>2
  <2>4. Within(s.rows, p)
    <3>1. /\ seen[c].rows \in Seq(Nat) /\ results[c].pos \in Nat
          /\ Within(seen[c].rows, results[c].pos)
      BY <1>0, <2>0 DEF SeenState, StandsAfter
    <3>2. \A i \in DOMAIN seen[c].rows : seen[c].rows[i] \in Nat
      BY <3>1
    <3> QED BY <1>2, <2>2, <3>1, <3>2 DEF Within
  <2>5. StandsAfter(s, results'[c])
    BY <1>2, <2>0, <2>3, <2>4 DEF StandsAfter
  <2> QED BY <1>0, <1>1, <1>2, <1>3, <1>4, <2>3, <2>5, OneCursor
<1> QED BY <1>5, <1>6 DEF FetchFails

\* How many rows a fetch asks for, against what the cursor and max_rows leave.
LEMMA WantedRows ==
    ASSUME TInv, NEW c \in DOMAIN cursors, NEW n \in FetchSizes
    PROVE  /\ Wanted(cursors[c], n) \in Nat
           /\ cursors[c].maxRows # NoLimit =>
                /\ cursors[c].maxRows \in Nat
                /\ cursors[c].fetched + Wanted(cursors[c], n) <= cursors[c].maxRows
           /\ Wanted(cursors[c], n) = 0 =>
                cursors[c].maxRows # NoLimit /\ cursors[c].fetched = cursors[c].maxRows
<1>1. /\ cursors[c].fetched \in Nat /\ n \in Nat /\ n # 0
      /\ cursors[c].maxRows = NoLimit \/ cursors[c].maxRows \in Nat
      /\ cursors[c].maxRows # NoLimit => cursors[c].fetched <= cursors[c].maxRows
  BY BoundsAssumption DEF TInv, TypeOK, Bounded, IsTable, CursorState
<1>2. CASE cursors[c].maxRows = NoLimit
  BY <1>1, <1>2 DEF Wanted
<1>3. CASE cursors[c].maxRows # NoLimit /\ cursors[c].maxRows \in Nat
  BY <1>1, <1>3 DEF Wanted, Smaller
<1> QED BY <1>1, <1>2, <1>3

\* A batch of `g' rows reached the host: its record before and after, `last' when
\* the answer says that it is the last one.
Delivered(s, p, g, last, t) ==
    /\ t \in SeenState
    /\ Appended(s.rows, p, g, t.rows)
    /\ t.len = s.len /\ t.max = s.max /\ t.failed = s.failed /\ t.cancelled = s.cancelled
    /\ t.done = (s.done \/ last)

LEMMA DeliveredBatch ==
    ASSUME NEW s \in SeenState, NEW p \in Nat, NEW g \in Nat, Within(s.rows, p), NEW last \in BOOLEAN
    PROVE  Delivered(s, p, g, last, [s EXCEPT !.rows = s.rows \o RowsBetween(p + 1, p + g),
                                              !.done = s.done \/ last])
<1> DEFINE new == s.rows \o RowsBetween(p + 1, p + g)
<1>1. s.rows \in Seq(Nat) BY DEF SeenState
<1>2. Appended(s.rows, p, g, new) BY <1>1, AppendRows
<1>3. new \in Seq(Nat) BY <1>2 DEF Appended
<1> HIDE DEF new
<1>4. Delivered(s, p, g, last, [s EXCEPT !.rows = new, !.done = s.done \/ last])
  BY <1>2, <1>3 DEF Delivered, SeenState
<1> QED BY <1>4 DEF new

\* FetchRows on open Rows.
LEMMA BooksFetchRows ==
    ASSUME TInv, IInv, CursorBooks, NEW c \in DOMAIN cursors, NEW n \in FetchSizes,
           FetchRows(c, n), c \in DOMAIN results
    PROVE  CursorBooks'
<1>0. /\ c \in DOMAIN seen /\ seen[c] \in SeenState /\ cursors[c] \in CursorState
      /\ results[c] \in [tx : TxIds \cup {NoTx}, pos : Nat, len : Nat]
      /\ results[c].pos <= results[c].len
      /\ Received(seen[c]) /\ CountsWith(seen[c], cursors[c]) /\ StandsAfter(seen[c], results[c])
  BY DEF CursorBooks, IsTable, TInv, TypeOK, Bounded
<1>1. PICK w \in Nat, p \in Nat, len \in Nat, f \in Nat, q \in Nat :
        /\ w = Wanted(cursors[c], n) /\ p = results[c].pos /\ len = results[c].len
        /\ f = cursors[c].fetched /\ q = Len(seen[c].rows)
        /\ p <= len
        /\ cursors[c].maxRows # NoLimit => cursors[c].maxRows \in Nat /\ f + w <= cursors[c].maxRows
  <2>1. Wanted(cursors[c], n) \in Nat /\ cursors[c].fetched \in Nat /\ Len(seen[c].rows) \in Nat
    BY <1>0, WantedRows DEF CursorState, SeenState
  <2> QED BY <1>0, <2>1, WantedRows
<1>2. PICK g \in Nat : g = IF w = 0 THEN 0 ELSE Smaller(w, len - p)
  BY <1>1 DEF Smaller
<1>3. g <= w /\ p + g <= len /\ (g < w => p + g = len)
  BY <1>1, <1>2 DEF Smaller
<1>4. /\ q <= p /\ q <= f /\ Within(seen[c].rows, p) /\ seen[c].rows \in Seq(Nat)
      /\ ~seen[c].failed => q = p /\ q = f
      /\ seen[c].len = len /\ seen[c].max = cursors[c].maxRows
      /\ ~seen[c].done /\ ~seen[c].cancelled
  BY <1>0, <1>1 DEF StandsAfter, CountsWith, Within, SeenState
<1> DEFINE new == seen[c].rows \o RowsBetween(p + 1, p + g)
           done == g < w \/ LimitReached(cursors[c], g)
<1>5. \/ /\ cursors' = [cursors EXCEPT ![c] = Fetched(cursors[c], g, TRUE, FALSE)]
         /\ results' = [results EXCEPT ![c].pos = p + g]
         /\ seen' = [seen EXCEPT ![c].rows = new]
      \/ /\ done
         /\ cursors' = [cursors EXCEPT ![c] = Fetched(cursors[c], g, FALSE, TRUE)]
         /\ results' = Drop(results, {c})
         /\ seen' = [seen EXCEPT ![c].rows = new, ![c].done = TRUE]
      \/ /\ cursors' = [cursors EXCEPT ![c] = Fetched(cursors[c], g, TRUE, TRUE)]
         /\ results' = Drop(results, {c})
         /\ seen' = [seen EXCEPT ![c].failed = TRUE]
  BY <1>1, <1>2 DEF FetchRows, Failed
<1> HIDE DEF new, done
<1>7. ASSUME NEW t, NEW last \in BOOLEAN, Delivered(seen[c], p, g, last, t), last => done
      PROVE  /\ Len(t.rows) = q + g
             /\ Received(t)
             /\ ~t.failed /\ last => Len(t.rows) = All(t)
             /\ Within(t.rows, p + g)
  <2>1. /\ Len(t.rows) = q + g /\ Within(t.rows, p + g)
        /\ t.len = len /\ t.max = cursors[c].maxRows
        /\ t.failed = seen[c].failed
        /\ t.done => last
    BY <1>1, <1>4, <1>7 DEF Delivered, Appended
  <2>2. /\ All(t) \in Nat
        /\ All(t) = IF cursors[c].maxRows = NoLimit THEN len ELSE Smaller(len, cursors[c].maxRows)
    BY <1>1, <2>1 DEF All, Smaller
  <2>3. q + g <= All(t)
    <3>1. q + g <= len BY <1>3, <1>4
    <3>2. CASE cursors[c].maxRows = NoLimit BY <2>2, <3>1, <3>2
    <3>3. CASE cursors[c].maxRows # NoLimit
      <4>1. PICK m \in Nat : m = cursors[c].maxRows /\ f + w <= m BY <1>1, <3>3
      <4>2. q + g <= m BY <1>3, <1>4, <4>1
      <4> QED BY <2>2, <3>1, <3>3, <4>1, <4>2 DEF Smaller
    <3> QED BY <3>2, <3>3
  <2>4. ~seen[c].failed => t.rows = RowsBetween(1, Len(t.rows))
    BY <1>0, <1>1, <1>4, <1>7 DEF Delivered, Appended, Received
  <2>5. ~seen[c].failed /\ done => q + g = All(t)
    <3>1. CASE g < w
      <4>1. p + g = len BY <1>3, <3>1
      <4>2. All(t) <= len BY <1>1, <2>2 DEF Smaller
      <4> QED BY SMTT(30), <1>4, <2>2, <2>3, <4>1, <4>2
    <3>2. CASE LimitReached(cursors[c], g)
      <4>1. cursors[c].maxRows # NoLimit /\ f + g >= cursors[c].maxRows
        BY <1>1, <3>2 DEF LimitReached
      <4>2. PICK m \in Nat : m = cursors[c].maxRows /\ f + g >= m BY <1>1, <4>1
      <4>3. All(t) <= m BY <2>2, <4>1, <4>2 DEF Smaller
      <4> QED BY <1>4, <2>2, <2>3, <4>2, <4>3
    <3> QED BY <3>1, <3>2 DEF done
  <2> QED BY <1>7, <2>1, <2>3, <2>4, <2>5 DEF Received, Within
<1>8. CASE /\ cursors' = [cursors EXCEPT ![c] = Fetched(cursors[c], g, TRUE, FALSE)]
           /\ results' = [results EXCEPT ![c].pos = p + g]
           /\ seen' = [seen EXCEPT ![c].rows = new]
  <2> DEFINE t == [seen[c] EXCEPT !.rows = new, !.done = seen[c].done \/ FALSE]
  <2>1. Delivered(seen[c], p, g, FALSE, t)
    BY <1>0, <1>4, DeliveredBatch DEF new
  <2>2. seen' = [seen EXCEPT ![c] = t]
    BY <1>0, <1>8 DEF SeenState
  <2> HIDE DEF t
  <2>3. /\ Len(t.rows) = q + g /\ Received(t) /\ Within(t.rows, p + g)
        /\ t \in SeenState /\ t.len = len /\ t.max = cursors[c].maxRows
        /\ t.failed = seen[c].failed /\ ~t.done /\ ~t.cancelled
    BY <1>4, <1>7, <2>1 DEF Delivered
  <2>4. CountsWith(t, cursors'[c])
    <3>1. /\ cursors'[c].fetched = f + g /\ cursors'[c].maxRows = cursors[c].maxRows
          /\ cursors'[c].rows = TRUE /\ cursors'[c].done = FALSE
      BY <1>1, <1>8 DEF Fetched
    <3>2. q + g <= f + g /\ (~t.failed => q + g = f + g) BY <1>4, <2>3
    <3> QED BY <2>3, <3>1, <3>2 DEF CountsWith
  <2>5. StandsAfter(t, results'[c])
    <3>1. results'[c].pos = p + g /\ results'[c].len = len BY <1>0, <1>1, <1>8
    <3>2. ~t.failed => q + g = p + g BY <1>4, <2>3
    <3> QED BY <2>3, <3>1, <3>2 DEF StandsAfter
  <2>6. /\ DOMAIN cursors' = DOMAIN cursors /\ DOMAIN results' = DOMAIN results
        /\ \A d \in DOMAIN cursors' : d # c => cursors'[d] = cursors[d]
        /\ \A d \in DOMAIN results' : d # c => results'[d] = results[d]
    BY <1>8
  <2> QED BY <1>0, <2>2, <2>3, <2>4, <2>5, <2>6, OneCursor
<1>9. CASE /\ done
           /\ cursors' = [cursors EXCEPT ![c] = Fetched(cursors[c], g, FALSE, TRUE)]
           /\ results' = Drop(results, {c})
           /\ seen' = [seen EXCEPT ![c].rows = new, ![c].done = TRUE]
  <2> DEFINE t == [seen[c] EXCEPT !.rows = new, !.done = seen[c].done \/ TRUE]
  <2>1. Delivered(seen[c], p, g, TRUE, t)
    BY <1>0, <1>4, DeliveredBatch DEF new
  <2>2. seen' = [seen EXCEPT ![c] = t]
    BY <1>0, <1>9 DEF SeenState
  <2> HIDE DEF t
  <2>3. /\ Len(t.rows) = q + g /\ Received(t)
        /\ t \in SeenState /\ t.max = cursors[c].maxRows
        /\ t.failed = seen[c].failed
        /\ ~t.failed => Len(t.rows) = All(t)
    BY <1>4, <1>7, <1>9, <2>1 DEF Delivered
  <2>4. CountsWith(t, cursors'[c])
    <3>1. /\ cursors'[c].fetched = f + g /\ cursors'[c].maxRows = cursors[c].maxRows
          /\ cursors'[c].rows = FALSE /\ cursors'[c].done = TRUE
      BY <1>1, <1>9 DEF Fetched
    <3>2. q + g <= f + g /\ (~t.failed => q + g = f + g) BY <1>4, <2>3
    <3> QED BY <2>3, <3>1, <3>2 DEF CountsWith
  <2>5. /\ DOMAIN cursors' = DOMAIN cursors /\ DOMAIN results' \subseteq DOMAIN results
        /\ c \notin DOMAIN results'
        /\ \A d \in DOMAIN cursors' : d # c => cursors'[d] = cursors[d]
        /\ \A d \in DOMAIN results' : d # c => results'[d] = results[d]
    BY <1>9 DEF Drop
  <2> QED BY <1>0, <2>2, <2>3, <2>4, <2>5, OneCursor
<1>10. CASE /\ cursors' = [cursors EXCEPT ![c] = Fetched(cursors[c], g, TRUE, TRUE)]
            /\ results' = Drop(results, {c})
            /\ seen' = [seen EXCEPT ![c].failed = TRUE]
  <2> DEFINE t == [seen[c] EXCEPT !.failed = TRUE]
  <2>1. seen' = [seen EXCEPT ![c] = t] BY <1>10
  <2>2. /\ t \in SeenState /\ t.rows = seen[c].rows /\ t.len = seen[c].len
        /\ t.max = seen[c].max /\ t.failed = TRUE
    BY <1>0 DEF SeenState
  <2> HIDE DEF t
  <2>3. Received(t) BY <1>0, <2>2 DEF Received, All
  <2>4. CountsWith(t, cursors'[c])
    <3>1. /\ cursors'[c].fetched = f + g /\ cursors'[c].maxRows = cursors[c].maxRows
          /\ cursors'[c].rows = TRUE /\ cursors'[c].done = TRUE
      BY <1>1, <1>10 DEF Fetched
    <3>2. q <= f + g BY <1>4
    <3> QED BY <1>1, <1>4, <2>2, <3>1, <3>2 DEF CountsWith
  <2>5. /\ DOMAIN cursors' = DOMAIN cursors /\ DOMAIN results' \subseteq DOMAIN results
        /\ c \notin DOMAIN results'
        /\ \A d \in DOMAIN cursors' : d # c => cursors'[d] = cursors[d]
        /\ \A d \in DOMAIN results' : d # c => results'[d] = results[d]
    BY <1>10 DEF Drop
  <2> QED BY <1>0, <2>1, <2>2, <2>3, <2>4, <2>5, OneCursor
<1> QED BY <1>5, <1>8, <1>9, <1>10

\* FetchRows on Rows that were closed with their transaction: only when max_rows
\* is already reached, so that nothing is asked of them.
LEMMA BooksFetchAtLimit ==
    ASSUME TInv, IInv, CursorBooks, NEW c \in DOMAIN cursors, NEW n \in FetchSizes,
           FetchRows(c, n), c \notin DOMAIN results
    PROVE  CursorBooks'
<1>0. /\ c \in DOMAIN seen /\ seen[c] \in SeenState /\ cursors[c] \in CursorState
      /\ Received(seen[c]) /\ CountsWith(seen[c], cursors[c])
  BY DEF CursorBooks, IsTable, TInv, TypeOK
<1>1. Wanted(cursors[c], n) = 0
  BY DEF FetchRows
<1>2. /\ cursors[c].maxRows # NoLimit /\ cursors[c].maxRows \in Nat
      /\ cursors[c].fetched = cursors[c].maxRows
  BY <1>1, WantedRows
<1>3. LimitReached(cursors[c], 0)
  BY <1>2 DEF LimitReached
<1> DEFINE t == [seen[c] EXCEPT !.done = TRUE]
<1>4. /\ cursors' = [cursors EXCEPT ![c] = Fetched(cursors[c], 0, FALSE, TRUE)]
      /\ results' = Drop(results, {c})
      /\ seen' = [seen EXCEPT ![c].rows = seen[c].rows \o RowsBetween(0 + 1, 0 + 0), ![c].done = TRUE]
  BY <1>1, <1>3 DEF FetchRows
<1>5. seen[c].rows \o RowsBetween(0 + 1, 0 + 0) = seen[c].rows
  <2>1. RowsBetween(0 + 1, 0 + 0) = <<>> BY DEF RowsBetween
  <2>2. seen[c].rows \in Seq(Nat) BY <1>0 DEF SeenState
  <2> QED BY <2>1, <2>2
<1>6. seen' = [seen EXCEPT ![c] = t]
  <2>1. seen' = [seen EXCEPT ![c].rows = seen[c].rows, ![c].done = TRUE]
    BY <1>4, <1>5
  <2> QED BY <1>0, <2>1 DEF SeenState
<1>7. /\ t \in SeenState /\ t.rows = seen[c].rows /\ t.len = seen[c].len /\ t.max = seen[c].max
      /\ t.failed = seen[c].failed /\ t.cancelled = seen[c].cancelled
  BY <1>0 DEF SeenState
<1> HIDE DEF t
<1>8. /\ All(t) = All(seen[c])
      /\ ~t.failed => Len(t.rows) = All(t)
  <2>1. All(t) = All(seen[c]) BY <1>7 DEF All
  <2>2. PICK m \in Nat, q \in Nat, len \in Nat :
          /\ m = seen[c].max /\ m = cursors[c].fetched /\ q = Len(seen[c].rows) /\ len = seen[c].len
          /\ m # NoLimit
    BY <1>0, <1>2 DEF SeenState, CountsWith
  <2>3. All(t) = Smaller(len, m) /\ q <= Smaller(len, m)
    BY <1>0, <2>1, <2>2 DEF All, Received
  <2>4. ~t.failed => q = m
    BY <1>0, <1>7, <2>2 DEF CountsWith
  <2> QED BY <1>7, <2>1, <2>2, <2>3, <2>4 DEF Smaller
<1>9. Received(t)
  BY <1>0, <1>7, <1>8 DEF Received
<1>10. CountsWith(t, cursors'[c])
  <2>1. /\ cursors'[c].fetched = cursors[c].fetched /\ cursors'[c].maxRows = cursors[c].maxRows
    BY <1>0, <1>4 DEF Fetched, CursorState
  <2> QED BY <1>0, <1>7, <1>8, <2>1 DEF CountsWith
<1>11. /\ DOMAIN cursors' = DOMAIN cursors /\ DOMAIN results' \subseteq DOMAIN results
       /\ c \notin DOMAIN results'
       /\ \A d \in DOMAIN cursors' : d # c => cursors'[d] = cursors[d]
       /\ \A d \in DOMAIN results' : d # c => results'[d] = results[d]
  BY <1>4 DEF Drop
<1> QED BY <1>0, <1>6, <1>7, <1>9, <1>10, <1>11, OneCursor

LEMMA CursorBooksStep ==
    ASSUME TInv, IInv, CursorBooks, [Next]_vars PROVE CursorBooks'
<1>1. CASE UNCHANGED <<seen, cursors, results>>
  BY <1>1, CursorsKept
<1>2. CASE UNCHANGED vars
  BY <1>1, <1>2 DEF vars, tables, database, history
<1>3. CASE HandleInit \/ SocketEnds \/ HandlePing \/ HandleConnTest \/ HandleRejected \/ HandleConnOpen
  BY <1>1, <1>3 DEF HandleInit, SocketEnds, HandlePing, HandleConnTest, HandleRejected,
     HandleConnOpen, vars, tables, database, history
<1>4. CASE \/ \E c \in ConnIds \cup {0} : HandleDdlBuild(c)
           \/ \E c \in ConnIds : HandleMetadata(c)
  BY <1>2, <1>4 DEF HandleDdlBuild, HandleMetadata
<1>5. CASE HandleShutdown
  BY <1>5, CursorsKept DEF HandleShutdown, Drop, Empty
<1>6. ASSUME NEW c \in ConnIds, ConnNext(c) PROVE CursorBooks'
  <2>1. CASE HandleConnClose(c)
    BY <2>1, CursorsKept DEF HandleConnClose, Drop
  <2>2. CASE HandleConnUse(c)
    BY <1>1, <2>2 DEF HandleConnUse, database, history
  <2>3. ASSUME NEW t \in TxIds \cup {NoTx}, NEW max \in Limits, HandleQueryStart(c, t, max)
        PROVE  CursorBooks'
    BY <2>3, BooksQueryStart
  <2>4. ASSUME NEW t \in TxIds \cup {NoTx}, HandleExecRun(c, t) PROVE CursorBooks'
    BY <1>1, <2>4 DEF HandleExecRun, tables
  <2>5. CASE HandleTxBegin(c)
    BY <1>1, <2>5 DEF HandleTxBegin
  <2> QED BY <1>6, <2>1, <2>2, <2>3, <2>4, <2>5 DEF ConnNext
<1>7. ASSUME NEW c \in ConnIds, BatchNext(c) PROVE CursorBooks'
  <2>1. UNCHANGED <<tables, database, seen>>
    BY <1>7 DEF BatchNext, HandleExecBatch
  <2> QED BY <1>1, <2>1 DEF tables, database
<1>8. ASSUME NEW c \in CursorIds, CursorNext(c) PROVE CursorBooks'
  <2>1. ASSUME NEW n \in FetchSizes, HandleCursorFetch(c, n) PROVE CursorBooks'
    BY <2>1, BooksFetchNothing, BooksFetchFails, BooksFetchRows, BooksFetchAtLimit
       DEF HandleCursorFetch
  <2> QED BY <1>8, <2>1, BooksCursorClose DEF CursorNext
<1>9. ASSUME NEW t \in TxIds, TxNext(t) PROVE CursorBooks'
  <2>1. CASE HandleTxCommit(t) \/ HandleTxRollback(t)
    BY <2>1, CursorsKept DEF HandleTxCommit, HandleTxRollback, Drop
  <2>2. CASE HandleTxSavepoint(t) BY <1>2, <2>2 DEF HandleTxSavepoint
  <2>3. CASE HandleTxRollbackTo(t) BY <1>1, <2>3 DEF HandleTxRollbackTo, tables
  <2> QED BY <1>9, <2>1, <2>2, <2>3 DEF TxNext
<1>10. CASE TransferNext
  BY <1>1, <1>10 DEF TransferNext, HandleDataExport, HandleStreamRead, HandleStreamClose,
     HandleImportBegin, HandleImportChunk, HandleImportCommit, HandleImportAbort, database, history
<1> QED BY <1>2, <1>3, <1>4, <1>5, <1>6, <1>7, <1>8, <1>9, <1>10 DEF Next

\* The transfers keep the accounts of imports and streams; nothing else touches
\* them but the clean-up of conn/close and shutdown.
LEMMA TransferBooksStep ==
    ASSUME TInv, ImportBooks, StreamBooks, [Next]_vars PROVE ImportBooks' /\ StreamBooks'
<1>1. CASE UNCHANGED <<imports, stored, sent>> /\ UNCHANGED <<streams, read>>
  BY <1>1, ImportsKept, StreamsKept
<1>2. CASE UNCHANGED vars
  BY <1>1, <1>2 DEF vars, tables, database, history
<1>3. CASE HandleInit \/ SocketEnds \/ HandlePing \/ HandleConnTest \/ HandleRejected \/ HandleConnOpen
  BY <1>1, <1>3 DEF HandleInit, SocketEnds, HandlePing, HandleConnTest, HandleRejected,
     HandleConnOpen, vars, tables, database, history
<1>4. CASE \/ \E c \in ConnIds \cup {0} : HandleDdlBuild(c)
           \/ \E c \in ConnIds : HandleMetadata(c)
  BY <1>2, <1>4 DEF HandleDdlBuild, HandleMetadata
<1>5. CASE HandleShutdown
  BY <1>5, ImportsKept, StreamsKept DEF HandleShutdown, Empty
<1>6. ASSUME NEW c \in ConnIds, ConnNext(c) PROVE ImportBooks' /\ StreamBooks'
  <2>1. CASE HandleConnClose(c)
    BY <2>1, ImportsKept, StreamsKept DEF HandleConnClose, Drop
  <2>2. CASE HandleConnUse(c)
    BY <1>1, <2>2 DEF HandleConnUse, database, history
  <2>3. ASSUME NEW t \in TxIds \cup {NoTx}, NEW max \in Limits, HandleQueryStart(c, t, max)
        PROVE  ImportBooks' /\ StreamBooks'
    BY <1>1, <2>3 DEF HandleQueryStart
  <2>4. ASSUME NEW t \in TxIds \cup {NoTx}, HandleExecRun(c, t) PROVE ImportBooks' /\ StreamBooks'
    BY <1>1, <2>4 DEF HandleExecRun, tables
  <2>5. CASE HandleTxBegin(c)
    BY <1>1, <2>5 DEF HandleTxBegin
  <2> QED BY <1>6, <2>1, <2>2, <2>3, <2>4, <2>5 DEF ConnNext
<1>7. ASSUME NEW c \in ConnIds, BatchNext(c) PROVE ImportBooks' /\ StreamBooks'
  <2>1. UNCHANGED <<tables, database, sent, read>>
    BY <1>7 DEF BatchNext, HandleExecBatch
  <2> QED BY <1>1, <2>1 DEF tables, database
<1>8. ASSUME NEW c \in CursorIds, CursorNext(c) PROVE ImportBooks' /\ StreamBooks'
  BY <1>1, <1>8 DEF CursorNext, HandleCursorFetch, HandleCursorClose, HandleCursorCancel
<1>9. ASSUME NEW t \in TxIds, TxNext(t) PROVE ImportBooks' /\ StreamBooks'
  BY <1>1, <1>9 DEF TxNext, HandleTxCommit, HandleTxRollback, HandleTxSavepoint,
     HandleTxRollbackTo, vars, tables, database, history
<1>10. CASE TransferNext
  <2>1. CASE \/ \E c \in ConnIds, s \in StreamIds : HandleDataExport(c, s)
             \/ \E s \in StreamIds, n \in FetchSizes : HandleStreamRead(s, n)
             \/ \E s \in StreamIds : HandleStreamClose(s)
    <3>1. UNCHANGED <<imports, stored, sent>>
      BY <2>1 DEF HandleDataExport, HandleStreamRead, HandleStreamClose, database, history
    <3> QED BY <2>1, <3>1, ImportsKept, StreamStep
  <2>2. CASE \/ \E c \in ConnIds : HandleImportBegin(c)
             \/ \E i \in ImportIds, n \in 0 .. MaxWrites :
                  \E rows \in [1 .. n -> Outcomes] : HandleImportChunk(i, rows)
             \/ \E i \in ImportIds : HandleImportCommit(i) \/ HandleImportAbort(i)
    <3>1. UNCHANGED <<streams, read>>
      BY <2>2 DEF HandleImportBegin, HandleImportChunk, HandleImportCommit, HandleImportAbort, history
    <3> QED BY <2>2, <3>1, StreamsKept, ImportStep
  <2> QED BY <1>10, <2>1, <2>2 DEF TransferNext
<1> QED BY <1>2, <1>3, <1>4, <1>5, <1>6, <1>7, <1>8, <1>9, <1>10 DEF Next

\* Only exec/batch writes the record of the last batch.
LEMMA BatchBooksStep ==
    ASSUME BatchIsAtomic, [Next]_vars PROVE BatchIsAtomic'
<1>1. CASE UNCHANGED batch
  BY <1>1 DEF BatchIsAtomic
<1>2. CASE \E c \in ConnIds : BatchNext(c)
  BY <1>2, BatchStep
<1>3. CASE UNCHANGED vars \/ HandlePing \/ HandleConnTest \/ HandleRejected
  BY <1>1, <1>3 DEF vars, history, HandlePing, HandleConnTest, HandleRejected
<1>4. CASE \/ \E c \in ConnIds \cup {0} : HandleDdlBuild(c)
           \/ \E c \in ConnIds : HandleMetadata(c)
  BY <1>3, <1>4 DEF HandleDdlBuild, HandleMetadata
<1>5. CASE HandleInit \/ SocketEnds \/ HandleConnOpen \/ HandleShutdown
  BY <1>1, <1>5 DEF HandleInit, SocketEnds, HandleConnOpen, HandleShutdown, history
<1>6. ASSUME NEW c \in ConnIds, ConnNext(c) PROVE BatchIsAtomic'
  BY <1>1, <1>6 DEF ConnNext, HandleConnClose, HandleConnUse, HandleQueryStart, HandleExecRun,
     HandleTxBegin, history
<1>7. ASSUME NEW c \in CursorIds, CursorNext(c) PROVE BatchIsAtomic'
  BY <1>1, <1>7 DEF CursorNext, HandleCursorFetch, HandleCursorClose, HandleCursorCancel
<1>8. ASSUME NEW t \in TxIds, TxNext(t) PROVE BatchIsAtomic'
  BY <1>1, <1>3, <1>8 DEF TxNext, HandleTxCommit, HandleTxRollback, HandleTxSavepoint, HandleTxRollbackTo
<1>9. CASE TransferNext
  BY <1>1, <1>9 DEF TransferNext, HandleDataExport, HandleStreamRead, HandleStreamClose,
     HandleImportBegin, HandleImportChunk, HandleImportCommit, HandleImportAbort, history
<1> QED BY <1>2, <1>3, <1>4, <1>5, <1>6, <1>7, <1>8, <1>9 DEF Next

LEMMA DInvAlways == Spec => []DInv
<1>1. DInv /\ [Next]_vars => DInv'
  <2> SUFFICES ASSUME DInv, [Next]_vars PROVE DInv' OBVIOUS
  <2>1. TInv' /\ IInv' BY TInvStep, IInvStep DEF DInv
  <2>2. ImportBooks' /\ StreamBooks' BY TransferBooksStep DEF DInv
  <2>3. CursorBooks' BY CursorBooksStep DEF DInv
  <2>4. BatchIsAtomic' BY BatchBooksStep DEF DInv
  <2> QED BY <2>1, <2>2, <2>3, <2>4 DEF DInv
<1> QED BY <1>1, DInvInit, PTL DEF Spec

\* The rows of a cursor reach the host in order, none twice, never more than
\* max_rows, and all of them when a fetch answers done and none was answered with
\* an error: through any fetch sizes, failed batches, commits and closes of the
\* transaction or the connection under it.
THEOREM DbCursorDelivers == Spec => []CursorDelivers
<1>1. DInv => CursorDelivers
  <2> SUFFICES ASSUME DInv, NEW c \in DOMAIN seen
               PROVE  LET s == seen[c]
                          all == IF s.max = NoLimit THEN s.len ELSE Smaller(s.len, s.max)
                      IN /\ Len(s.rows) <= all
                         /\ ~s.failed => s.rows = RowsBetween(1, Len(s.rows))
                         /\ s.done /\ ~s.failed /\ ~s.cancelled => Len(s.rows) = all
                         /\ s.done \/ s.cancelled => c \notin DOMAIN results
                         /\ \A i, j \in DOMAIN s.rows : i < j => s.rows[i] < s.rows[j]
    BY DEF CursorDelivers
  <2>1. Received(seen[c]) BY DEF DInv, CursorBooks
  <2>2. seen[c].done \/ seen[c].cancelled => c \notin DOMAIN results
    BY DEF DInv, CursorBooks, StandsAfter
  <2> QED BY <2>1, <2>2 DEF Received, All, Increasing
<1> QED BY <1>1, DInvAlways, PTL

\* The chunks of a stream put together are the export, for every size of the
\* export and of the chunks.
THEOREM DbStreamsDeliver == Spec => []StreamsDeliver
<1>1. DInv => StreamsDeliver BY DEF DInv, StreamBooks
<1> QED BY <1>1, DInvAlways, PTL

\* Every row sent to an import is counted once, and what import_commit reports is
\* in the table.
THEOREM DbImportsAccounted == Spec => []ImportsAccounted
<1>1. DInv => ImportsAccounted BY DEF DInv, ImportBooks
<1> QED BY <1>1, DInvAlways, PTL

\* A batch in a transaction takes effect as a whole or not at all, as its answer
\* says, for batches of any length.
THEOREM DbBatchIsAtomic == Spec => []BatchIsAtomic
<1>1. DInv => BatchIsAtomic BY DEF DInv
<1> QED BY <1>1, DInvAlways, PTL
=============================================================================
