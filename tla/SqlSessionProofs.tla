-------------------------- MODULE SqlSessionProofs --------------------------
(***************************************************************************)
(* The connections of the DuckDB and the openGauss driver, for any bounds, *)
(* limits, page sizes and ids of exports: what they tell the host about    *)
(* transactions, imports, cursors and exports is what the engine or the    *)
(* server did.                                                             *)
(***************************************************************************)
EXTENDS DuckDb, OpenGauss, FiniteSetTheorems, SequenceTheorems, TLAPS
-----------------------------------------------------------------------------
(* Rows and who added them *)

Owners == [kind : {"tx", "import", "none"}, id : Nat]
TableRows == [id : Nat, by : Owners]

\* A table whose rows are among the first n ever inserted.
RowsIn(t, n) == t \in Seq(TableRows) /\ Len(t) <= n /\ \A i \in DOMAIN t : t[i].id \in 1..n

Owned(t, owner) == {i \in DOMAIN t : t[i].by = owner}
-----------------------------------------------------------------------------
(* Counting *)

\* The rows of an owner are finitely many.
LEMMA OwnedIsFinite ==
  ASSUME NEW t \in Seq(TableRows), NEW owner
  PROVE  IsFiniteSet(Owned(t, owner)) /\ Cardinality(Owned(t, owner)) \in Nat
<1>1. Owned(t, owner) \in SUBSET (1..Len(t)) /\ Len(t) \in Nat BY DEF Owned
<1>2. IsFiniteSet(1..Len(t)) BY <1>1, FS_Interval
<1>3. IsFiniteSet(Owned(t, owner)) BY <1>1, <1>2, FS_Subset
<1> QED BY <1>3, FS_CardinalityType

\* New rows are their owner's and nobody else's.
LEMMA NewRowsAre ==
  ASSUME rows \in Nat, NEW owner \in Owners, NEW n \in Nat
  PROVE  /\ NewRows(owner, n) \in Seq(TableRows) /\ Len(NewRows(owner, n)) = n
         /\ \A i \in 1..n : NewRows(owner, n)[i].by = owner /\ NewRows(owner, n)[i].id = rows + i
<1>1. \A i \in 1..n : [id |-> rows + i, by |-> owner] \in TableRows BY DEF TableRows
<1> QED BY <1>1 DEF NewRows

\* Rows at the end of a table count for their owner.
LEMMA CountGrows ==
  ASSUME rows \in Nat, NEW t \in Seq(TableRows), NEW owner \in Owners, NEW n \in Nat, NEW o
  PROVE  Cardinality(Owned(t \o NewRows(owner, n), o)) = Cardinality(Owned(t, o)) + (IF o = owner THEN n ELSE 0)
<1> DEFINE new == NewRows(owner, n)
           L == Len(t)
<1>1. new \in Seq(TableRows) /\ Len(new) = n /\ \A i \in 1..n : new[i].by = owner BY NewRowsAre
<1> HIDE DEF new
<1>2. /\ L \in Nat /\ DOMAIN t = 1..L /\ DOMAIN (t \o new) = 1..(L + n)
      /\ \A i \in 1..L : (t \o new)[i] = t[i]
      /\ \A i \in (L + 1)..(L + n) : i - L \in 1..n /\ (t \o new)[i] = new[i - L]
  BY <1>1
<1> HIDE DEF L
<1>3. IsFiniteSet(Owned(t, o)) /\ Cardinality(Owned(t, o)) \in Nat BY OwnedIsFinite
<1>4. \A i \in (L + 1)..(L + n) : (t \o new)[i].by = owner BY <1>1, <1>2
<1>5. CASE o # owner
  <2>1. \A i \in 1..(L + n) : i \in 1..L \/ i \in (L + 1)..(L + n) BY <1>2
  <2>2. Owned(t \o new, o) = Owned(t, o) BY <1>2, <1>4, <1>5, <2>1 DEF Owned
  <2> QED BY <1>3, <1>5, <2>2 DEF new
<1>6. CASE o = owner
  <2> DEFINE I == (L + 1)..(L + n)
  <2>1. IsFiniteSet(I) /\ Cardinality(I) = n
    <3>1. PICK a, b \in Int : a = L + 1 /\ b = L + n BY <1>2
    <3>2. IsFiniteSet(a..b) /\ Cardinality(a..b) = IF a > b THEN 0 ELSE b - a + 1 BY FS_Interval
    <3>3. (IF a > b THEN 0 ELSE b - a + 1) = n BY <1>2, <3>1
    <3> QED BY <3>1, <3>2, <3>3
  <2>2. \A i \in 1..(L + n) : i \in 1..L \/ i \in I BY <1>2
  <2>3. \A i \in 1..L : i \in 1..(L + n) /\ i \notin I BY <1>2
  <2>4. \A i \in I : i \in 1..(L + n) BY <1>2
  <2> HIDE DEF I
  <2>5. Owned(t \o new, o) = Owned(t, o) \cup I
    BY <1>2, <1>4, <1>6, <2>2, <2>3, <2>4 DEF Owned, I
  <2>6. Owned(t, o) \cap I = {} BY <1>2, <2>3 DEF Owned
  <2>7. Cardinality(Owned(t, o) \cup I) = Cardinality(Owned(t, o)) + Cardinality(I) - Cardinality(Owned(t, o) \cap I)
    BY <1>3, <2>1, FS_Union
  <2>8. Cardinality(Owned(t, o) \cap I) = 0 BY <2>6, FS_EmptySet
  <2> QED BY <1>3, <1>6, <2>1, <2>5, <2>7, <2>8 DEF new
<1> QED BY <1>5, <1>6

\* Deleting the first row changes nothing for those who do not own it.
LEMMA CountTail ==
  ASSUME NEW t \in Seq(TableRows), t # <<>>, NEW o, t[1].by # o
  PROVE  Cardinality(Owned(Tail(t), o)) = Cardinality(Owned(t, o))
<1> DEFINE L == Len(t)
           S == Owned(t, o)
           T == Owned(Tail(t), o)
           f == [i \in S |-> i - 1]
<1>1. /\ L \in Nat \ {0} /\ DOMAIN t = 1..L /\ DOMAIN Tail(t) = 1..(L - 1)
      /\ \A i \in 1..(L - 1) : i + 1 \in 1..L /\ Tail(t)[i] = t[i + 1]
  OBVIOUS
<1>2. IsFiniteSet(S) BY OwnedIsFinite
<1>3. \A i \in S : i \in 1..L /\ i # 1 /\ i - 1 \in 1..(L - 1) BY <1>1 DEF Owned
<1>4. \A i \in S : i - 1 \in T BY <1>1, <1>3 DEF Owned
<1>5. \A j \in T : j + 1 \in S /\ j \in Nat BY <1>1 DEF Owned
<1> HIDE DEF S, T
<1>6. f \in [S -> T] BY <1>4
<1>7. f \in Injection(S, T) BY <1>3, <1>6 DEF Injection, IsInjective
<1>8. f \in Surjection(S, T)
  <2>1. ASSUME NEW j \in T PROVE \E i \in S : f[i] = j
    <3>1. j + 1 \in S /\ f[j + 1] = (j + 1) - 1 /\ j \in Nat BY <1>5
    <3>2. f[j + 1] = j BY <3>1
    <3> QED BY <3>1, <3>2
  <2> QED BY <1>6, <2>1 DEF Surjection
<1>9. ExistsBijection(S, T) BY <1>7, <1>8 DEF ExistsBijection, Bijection
<1> QED BY <1>2, <1>9, FS_Bijection DEF S, T
-----------------------------------------------------------------------------
(* The inductive invariant *)

DuckCursors == [kind : {"cursor"}, next : Nat, max : Nat \cup {NoLimit}, done : BOOLEAN, cancelled : BOOLEAN]
DuckStreams == [kind : {"stream"}, next : Nat, max : Nat \cup {NoLimit}, done : BOOLEAN, csv : BOOLEAN,
                header_written : BOOLEAN, pending : Seq(Nat)]
DuckImports == [kind : {"import"}, inserted : Nat, failed : Nat, limit : Nat \cup {NoLimit}]

\* The engine: its rows were inserted, and a table to go back to is kept only in a
\* transaction.
EngineInv ==
  /\ rows \in 0..MaxRows /\ RowsIn(table, rows) /\ RowsIn(saved, rows)
  /\ dbtx \in {"auto", "open", "aborted"} /\ (dbtx = "auto" => saved = <<>>)

\* The transactions and the imports of the driver.
WorkInv ==
  /\ txs \subseteq 1..MaxTx /\ active_tx \in Nat /\ (active_tx = 0 \/ active_tx \in txs)
  /\ next_tx_id \in Nat \ {0} /\ (\A tx \in txs : tx < next_tx_id)
  /\ imports \in Seq(DuckImports \cup {None}) /\ next_import_id = Len(imports) + 1
  /\ ran \in [1..MaxTx -> Nat] /\ strayed \subseteq {"text", "commit"}

\* The connection may still be used, and no SQL text has ended a transaction.
Live == worker # "closed" /\ "text" \notin strayed

\* The engine is in a transaction exactly while one of the driver's is open.  A
\* commit that failed leaves the driver with a transaction that has no end.
Mirror ==
  /\ txs = {active_tx} \ {0}
  /\ IF "commit" \in strayed THEN dbtx = "auto" /\ active_tx # 0 /\ OpenImports = {}
     ELSE /\ dbtx = "auto" <=> (active_tx = 0 /\ OpenImports = {})
          /\ active_tx = 0 \/ OpenImports = {}
          /\ \A i, j \in OpenImports : i = j

Count(t, owner) == Cardinality(Owned(t, owner))

\* Rows that stay, rows that a rollback takes away, and none at all.
Fixed(owner, n) == Count(table, owner) = n /\ (dbtx # "auto" => Count(saved, owner) = n)
Pending(owner, n) == Count(table, owner) = n /\ Count(saved, owner) = 0
Fresh(owner) == Count(table, owner) = 0 /\ Count(saved, owner) = 0

Ended(e) ==
  \/ e.kind = "tx" /\ e.id \in Nat /\ e.id < next_tx_id /\ e.id \notin txs
  \/ e.kind = "import" /\ e.id \in DOMAIN imports /\ imports[e.id] = None

OwnerOf(e) == [kind |-> e.kind, id |-> e.id]

ToldInv == \A e \in told : Ended(e) /\ Fixed(OwnerOf(e), IF e.end = "committed" THEN e.n ELSE 0)
OpenInv ==
  strayed = {} => /\ \A tx \in txs : Pending(Owner(tx), ran[tx])
                  /\ \A i \in OpenImports : Pending(ImportOwner(i), imports[i].inserted)
FreshInv ==
  /\ \A id \in Nat : id >= next_tx_id => Fresh(Owner(id)) /\ (id \in 1..MaxTx => ran[id] = 0)
  /\ \A id \in Nat : id > Len(imports) => Fresh(ImportOwner(id))

\* A worker that is new has done nothing.
NewInv ==
  worker = "new" => /\ table = <<>> /\ saved = <<>> /\ dbtx = "auto" /\ txs = {} /\ active_tx = 0 /\ imports = <<>>
                    /\ told = {} /\ strayed = {} /\ rows = 0 /\ stable = {}

AccountInv == worker \in {"new", "open", "closed"} /\ NewInv /\ (Live => Mirror /\ ToldInv /\ OpenInv /\ FreshInv)
-----------------------------------------------------------------------------
(* Owners *)

\* Different requests are different owners.
LEMMA OwnersDiffer ==
  /\ \A a, b : Owner(a) = Owner(b) <=> a = b
  /\ \A a, b : ImportOwner(a) = ImportOwner(b) <=> a = b
  /\ \A a, b : Owner(a) # ImportOwner(b)
  /\ \A a : Owner(a) # Nobody /\ ImportOwner(a) # Nobody
  /\ Nobody \in Owners /\ \A a \in Nat : Owner(a) \in Owners /\ ImportOwner(a) \in Owners
<1>1. \A a : Owner(a).id = a /\ Owner(a).kind = "tx" BY DEF Owner
<1>2. \A a : ImportOwner(a).id = a /\ ImportOwner(a).kind = "import" BY DEF ImportOwner
<1>3. Nobody.kind = "none" BY DEF Nobody
<1>4. Nobody \in Owners /\ \A a \in Nat : Owner(a) \in Owners /\ ImportOwner(a) \in Owners
  BY DEF Owners, Nobody, Owner, ImportOwner
<1>5. \A a, b : Owner(a) = Owner(b) <=> a = b BY <1>1
<1>6. \A a, b : ImportOwner(a) = ImportOwner(b) <=> a = b BY <1>2
<1>7. \A a, b : Owner(a) # ImportOwner(b) BY <1>1, <1>2
<1>8. \A a : Owner(a) # Nobody /\ ImportOwner(a) # Nobody BY <1>1, <1>2, <1>3
<1> QED BY <1>4, <1>5, <1>6, <1>7, <1>8

\* A transaction or an import that has ended is nobody's and none that is open.
LEMMA EndedOwners ==
  ASSUME WorkInv, NEW e, Ended(e)
  PROVE  /\ OwnerOf(e) # Nobody
         /\ \A tx \in txs : OwnerOf(e) # Owner(tx)
         /\ \A i \in OpenImports : OwnerOf(e) # ImportOwner(i)
         /\ OwnerOf(e) # Owner(next_tx_id)
<1>1. OwnerOf(e).kind = e.kind /\ OwnerOf(e).id = e.id BY DEF OwnerOf
<1>2. Nobody.kind = "none" BY DEF Nobody
<1>3. \A a : Owner(a).id = a /\ Owner(a).kind = "tx" BY DEF Owner
<1>4. \A a : ImportOwner(a).id = a /\ ImportOwner(a).kind = "import" BY DEF ImportOwner
<1>5. CASE e.kind = "tx" /\ e.id \in Nat /\ e.id < next_tx_id /\ e.id \notin txs
  <2>1. e.id # next_tx_id BY <1>5 DEF WorkInv
  <2> QED BY <1>1, <1>2, <1>3, <1>4, <1>5, <2>1
<1>6. CASE e.kind = "import" /\ e.id \in DOMAIN imports /\ imports[e.id] = None
  <2>1. e.id \notin OpenImports BY <1>6 DEF OpenImports
  <2> QED BY <1>1, <1>2, <1>3, <1>4, <1>6, <2>1
<1> QED BY <1>5, <1>6 DEF Ended
-----------------------------------------------------------------------------
(* What a request does to the engine *)

Still(n) == table' = table /\ saved' = saved /\ rows' = rows + n
Grow(owner, n) == table' = table \o NewRows(owner, n) /\ saved' = saved /\ rows' = rows + n
Drop == table # <<>> /\ table[1].by = Nobody /\ table' = Tail(table) /\ saved' = saved /\ rows' = rows

\* The transaction of the engine goes on, or is aborted.
DbGoesOn == dbtx' = dbtx \/ (dbtx = "open" /\ dbtx' = "aborted")

\* Numbers are never reused.
LEMMA RowsInMore == ASSUME NEW t, NEW n \in Nat, NEW m \in Nat, RowsIn(t, n), n <= m PROVE RowsIn(t, m)
<1>1. t \in Seq(TableRows) /\ Len(t) \in Nat /\ Len(t) <= n /\ \A i \in DOMAIN t : t[i].id \in 1..n BY DEF RowsIn
<1>2. \A k \in 1..n : k \in 1..m OBVIOUS
<1>3. Len(t) <= m BY <1>1
<1> QED BY <1>1, <1>2, <1>3 DEF RowsIn

\* Rows at the end of a table.
LEMMA RowsInGrow ==
  ASSUME rows \in Nat, NEW t, RowsIn(t, rows), NEW owner \in Owners, NEW n \in Nat
  PROVE  RowsIn(t \o NewRows(owner, n), rows + n)
<1> DEFINE new == NewRows(owner, n)
           L == Len(t)
<1>0. t \in Seq(TableRows) BY DEF RowsIn
<1>1. L \in Nat /\ L <= rows /\ \A i \in DOMAIN t : t[i].id \in 1..rows BY <1>0 DEF RowsIn
<1>2. new \in Seq(TableRows) /\ Len(new) = n /\ \A i \in 1..n : new[i].id = rows + i BY NewRowsAre
<1> HIDE DEF new
<1>3. /\ DOMAIN t = 1..L /\ t \o new \in Seq(TableRows) /\ Len(t \o new) = L + n /\ DOMAIN (t \o new) = 1..(L + n)
      /\ \A i \in 1..L : (t \o new)[i] = t[i]
      /\ \A i \in (L + 1)..(L + n) : i - L \in 1..n /\ (t \o new)[i] = new[i - L]
  <2>1. new \in Seq(TableRows) /\ Len(new) = n BY <1>2
  <2> QED BY <1>0, <2>1
<1> HIDE DEF L
<1>4. L + n <= rows + n BY <1>1
<1>5. ASSUME NEW i \in 1..(L + n) PROVE (t \o new)[i].id \in 1..(rows + n)
  <2>1. CASE i \in 1..L
    <3>1. (t \o new)[i].id \in 1..rows BY <1>1, <1>3, <2>1
    <3>2. \A k \in 1..rows : k \in 1..(rows + n) OBVIOUS
    <3> QED BY <3>1, <3>2
  <2>2. CASE i \in (L + 1)..(L + n)
    <3>1. (t \o new)[i].id = rows + (i - L) /\ i - L \in 1..n BY <1>2, <1>3, <2>2
    <3>2. \A k \in 1..n : rows + k \in 1..(rows + n) OBVIOUS
    <3> QED BY <3>1, <3>2
  <2>3. i \in 1..L \/ i \in (L + 1)..(L + n) BY <1>1
  <2> QED BY <2>1, <2>2, <2>3
<1> QED BY <1>3, <1>4, <1>5 DEF RowsIn, new

\* A table without its first row.
LEMMA RowsInTail == ASSUME NEW t, NEW n \in Nat, RowsIn(t, n), t # <<>> PROVE RowsIn(Tail(t), n)
<1>1. t \in Seq(TableRows) /\ Len(t) \in Nat /\ Len(t) <= n /\ \A i \in DOMAIN t : t[i].id \in 1..n BY DEF RowsIn
<1>2. /\ Tail(t) \in Seq(TableRows) /\ Len(Tail(t)) = Len(t) - 1
      /\ \A i \in DOMAIN Tail(t) : i + 1 \in DOMAIN t /\ Tail(t)[i] = t[i + 1]
  BY <1>1
<1>3. Len(Tail(t)) <= n BY <1>1, <1>2
<1>4. \A i \in DOMAIN Tail(t) : Tail(t)[i].id \in 1..n BY <1>1, <1>2
<1> QED BY <1>2, <1>3, <1>4 DEF RowsIn

\* No row at all.
LEMMA RowsInEmpty == ASSUME NEW n \in Nat PROVE RowsIn(<<>>, n)
BY DEF RowsIn

\* The bounds are numbers.
LEMMA DuckBounds ==
  /\ MaxRows \in Nat /\ MaxTx \in Nat /\ MaxChunk \in Nat /\ MaxFetch \in Nat \ {0} /\ ExportFetchRows \in Nat \ {0}
  /\ NoLimit \notin Nat /\ RowLimits \subseteq Nat \cup {NoLimit} /\ Thresholds \subseteq Nat \cup {NoLimit}
  /\ FetchSizes \subseteq Nat /\ ReadSizes \subseteq Nat \ {0}
BY DuckAssumption

\* The effects keep the invariant of the engine.
LEMMA StillKeeps ==
  ASSUME EngineInv, NEW n \in Nat, rows + n <= MaxRows, Still(n), DbGoesOn PROVE EngineInv'
<1>1. rows \in Nat /\ rows' \in 0..MaxRows /\ rows <= rows' /\ rows' \in Nat BY DuckBounds DEF EngineInv, Still
<1>2. RowsIn(table, rows') /\ RowsIn(saved, rows') BY <1>1, RowsInMore DEF EngineInv
<1> QED BY <1>1, <1>2 DEF EngineInv, Still, DbGoesOn

LEMMA GrowKeeps ==
  ASSUME EngineInv, NEW owner \in Owners, NEW n \in Nat, rows + n <= MaxRows, Grow(owner, n), DbGoesOn PROVE EngineInv'
<1>1. rows \in Nat /\ rows' \in 0..MaxRows /\ rows <= rows' /\ rows' \in Nat BY DuckBounds DEF EngineInv, Grow
<1>2. RowsIn(table', rows') BY <1>1, RowsInGrow DEF EngineInv, Grow
<1>3. RowsIn(saved, rows') BY <1>1, RowsInMore DEF EngineInv
<1> QED BY <1>1, <1>2, <1>3 DEF EngineInv, Grow, DbGoesOn

LEMMA DropKeeps == ASSUME EngineInv, Drop, DbGoesOn PROVE EngineInv'
<1>1. rows \in Nat BY DEF EngineInv
<1>2. RowsIn(table', rows) BY <1>1, RowsInTail DEF EngineInv, Drop
<1> QED BY <1>2 DEF EngineInv, Drop, DbGoesOn

LEMMA EndKeeps == ASSUME EngineInv, rows' = rows, DbBegin \/ DbCommit \/ DbUndo PROVE EngineInv'
<1>1. rows \in Nat /\ RowsIn(<<>>, rows) BY RowsInEmpty DEF EngineInv
<1>2. CASE DbBegin BY <1>2 DEF EngineInv, DbBegin
<1>3. CASE DbCommit BY <1>1, <1>3 DEF EngineInv, DbCommit
<1>4. CASE DbUndo BY <1>1, <1>4 DEF EngineInv, DbUndo
<1> QED BY <1>2, <1>3, <1>4

\* Results of statements or rows, and how many of them failed.
LEMMA ResultsAre ==
  ASSUME NEW S, NEW results \in SeqOf(S, MaxChunk)
  PROVE  /\ results \in Seq(S) /\ Failures(results) \in Nat /\ Len(results) - Failures(results) \in Nat
         /\ (Failures(results) = 0 <=> \A i \in DOMAIN results : results[i] = "ok")
<1>1. PICK m \in 0..MaxChunk : results \in [1..m -> S] BY DEF SeqOf
<1>2. m \in Nat BY DuckBounds
<1>3. results \in Seq(S) /\ Len(results) = m /\ DOMAIN results = 1..m BY <1>1, <1>2
<1> DEFINE F == {i \in DOMAIN results : results[i] # "ok"}
<1>4. F \in SUBSET (1..m) BY <1>3
<1>5. IsFiniteSet(1..m) /\ Cardinality(1..m) = m
  <2>1. PICK a \in Int : a = 1 OBVIOUS
  <2>2. IsFiniteSet(a..m) /\ Cardinality(a..m) = IF a > m THEN 0 ELSE m - a + 1 BY <1>2, FS_Interval
  <2> QED BY <1>2, <2>1, <2>2
<1>6. IsFiniteSet(F) /\ Cardinality(F) <= m BY <1>4, <1>5, FS_Subset
<1>7. Cardinality(F) \in Nat /\ (Cardinality(F) = 0 <=> F = {}) BY <1>6, FS_CardinalityType, FS_EmptySet
<1>8. Failures(results) = Cardinality(F) BY DEF Failures
<1>9. F = {} <=> \A i \in DOMAIN results : results[i] = "ok" OBVIOUS
<1> HIDE DEF F
<1>10. m - Cardinality(F) \in Nat BY <1>2, <1>6, <1>7
<1> QED BY <1>3, <1>7, <1>8, <1>9, <1>10
-----------------------------------------------------------------------------
(* The account of who added which rows *)

account == <<txs, active_tx, next_tx_id, imports, next_import_id, told, ran, strayed>>

\* The rows of everyone but "owner" are as many as before.
Unmoved(owner) == \A o : o # owner => Count(table', o) = Count(table, o) /\ Count(saved', o) = Count(saved, o)

LEMMA StillUnmoved == ASSUME NEW n, Still(n), NEW owner PROVE Unmoved(owner)
BY DEF Still, Unmoved

LEMMA GrowUnmoved ==
  ASSUME EngineInv, NEW owner \in Owners, NEW n \in Nat, Grow(owner, n)
  PROVE  /\ Unmoved(owner) /\ Count(table', owner) = Count(table, owner) + n /\ Count(saved', owner) = Count(saved, owner)
         /\ Count(table, owner) \in Nat
<1>1. rows \in Nat /\ table \in Seq(TableRows) BY DEF EngineInv, RowsIn
<1>2. \A o : Count(table', o) = Count(table, o) + (IF o = owner THEN n ELSE 0) BY <1>1, CountGrows DEF Grow, Count
<1>3. \A o : Count(table, o) \in Nat BY <1>1, OwnedIsFinite DEF Count
<1>4. \A o : Count(saved', o) = Count(saved, o) BY DEF Grow
<1>5. \A o : o # owner => Count(table', o) = Count(table, o) BY <1>2, <1>3
<1> QED BY <1>2, <1>3, <1>4, <1>5 DEF Unmoved

LEMMA DropUnmoved == ASSUME EngineInv, Drop PROVE Unmoved(Nobody)
<1>1. table \in Seq(TableRows) BY DEF EngineInv, RowsIn
<1>2. \A o : o # Nobody => Count(table', o) = Count(table, o) BY <1>1, CountTail DEF Drop, Count
<1> QED BY <1>2 DEF Unmoved, Drop

\* The engine is in a transaction as before.
LEMMA GoesOnSame == ASSUME EngineInv, DbGoesOn PROVE dbtx' = "auto" <=> dbtx = "auto"
BY DEF EngineInv, DbGoesOn

\* A step of nobody in particular.
LEMMA AccountAlone ==
  ASSUME WorkInv, EngineInv, AccountInv, worker = "open", worker' = worker, Unmoved(Nobody), DbGoesOn, UNCHANGED account
  PROVE  AccountInv'
<1>1. UNCHANGED <<txs, active_tx, next_tx_id, imports, told, ran, strayed>> BY DEF account
<1>2. OpenImports' = OpenImports BY <1>1 DEF OpenImports
<1>3. dbtx' = "auto" <=> dbtx = "auto" BY GoesOnSame
<1>4. SUFFICES ASSUME Live PROVE (Mirror /\ ToldInv /\ OpenInv /\ FreshInv)'
  BY <1>1 DEF AccountInv, NewInv, Live
<1>5. Mirror /\ ToldInv /\ OpenInv /\ FreshInv BY <1>4 DEF AccountInv
<1>6. Mirror' BY <1>1, <1>2, <1>3, <1>5 DEF Mirror
<1>7. ToldInv'
  <2> SUFFICES ASSUME NEW e \in told PROVE Ended(e)' /\ Fixed(OwnerOf(e), IF e.end = "committed" THEN e.n ELSE 0)'
    BY <1>1 DEF ToldInv
  <2>1. Ended(e) /\ Fixed(OwnerOf(e), IF e.end = "committed" THEN e.n ELSE 0) BY <1>5 DEF ToldInv
  <2>2. OwnerOf(e) # Nobody BY <2>1, EndedOwners
  <2>3. Ended(e)' BY <1>1, <2>1 DEF Ended
  <2> QED BY <1>3, <2>1, <2>2, <2>3 DEF Fixed, Unmoved
<1>8. OpenInv' BY <1>1, <1>2, <1>5, OwnersDiffer DEF OpenInv, Pending, Unmoved
<1>9. FreshInv' BY <1>1, <1>5, OwnersDiffer DEF FreshInv, Fresh, Unmoved
<1> QED BY <1>6, <1>7, <1>8, <1>9
-----------------------------------------------------------------------------
(* The requests that change the engine or the driver's transactions and imports *)

BooksInv == EngineInv /\ WorkInv /\ AccountInv

\* A request that leaves the engine, the transactions and the imports alone.
LEMMA QuietKeeps ==
  ASSUME BooksInv, worker = "open", worker' = worker, UNCHANGED <<engine, rows, account>> PROVE BooksInv'
<1>1. Still(0) /\ DbGoesOn /\ rows \in Nat /\ rows + 0 <= MaxRows
  BY DuckBounds DEF BooksInv, EngineInv, engine, Still, DbGoesOn
<1>2. EngineInv' BY <1>1, StillKeeps DEF BooksInv
<1>3. WorkInv' BY DEF BooksInv, WorkInv, account
<1>4. AccountInv' BY <1>1, StillUnmoved, AccountAlone DEF BooksInv
<1> QED BY <1>2, <1>3, <1>4 DEF BooksInv

\* A statement of a transaction counts for it.
LEMMA ExecInTxKeeps ==
  ASSUME BooksInv, worker = "open", worker' = worker, NEW tx \in txs, Grow(Owner(tx), 1), rows + 1 <= MaxRows, dbtx' = dbtx,
         ran' = [ran EXCEPT ![tx] = @ + 1],
         UNCHANGED <<txs, active_tx, next_tx_id, imports, next_import_id, told, strayed>>
  PROVE  BooksInv'
<1>1. EngineInv /\ WorkInv /\ AccountInv BY DEF BooksInv
<1>2. tx \in 1..MaxTx /\ tx \in Nat /\ tx < next_tx_id /\ next_tx_id \in Nat BY <1>1, DuckBounds DEF WorkInv
<1>3. Owner(tx) \in Owners BY <1>2, OwnersDiffer
<1>4. DbGoesOn BY DEF DbGoesOn
<1>5. EngineInv' BY <1>1, <1>3, <1>4, GrowKeeps
<1>6. ran \in [1..MaxTx -> Nat] /\ ran' \in [1..MaxTx -> Nat] /\ ran'[tx] = ran[tx] + 1 /\ \A id \in 1..MaxTx : id # tx => ran'[id] = ran[id]
  BY <1>1, <1>2 DEF WorkInv
<1>7. WorkInv' BY <1>1, <1>6 DEF WorkInv
<1>8. /\ Unmoved(Owner(tx)) /\ Count(table', Owner(tx)) = Count(table, Owner(tx)) + 1
      /\ Count(saved', Owner(tx)) = Count(saved, Owner(tx)) /\ Count(table, Owner(tx)) \in Nat
  BY <1>1, <1>3, GrowUnmoved
<1>9. OpenImports' = OpenImports BY DEF OpenImports
<1>10. ASSUME Live PROVE (Mirror /\ ToldInv /\ OpenInv /\ FreshInv)'
  <2>1. Mirror /\ ToldInv /\ OpenInv /\ FreshInv BY <1>1, <1>10 DEF AccountInv
  <2>2. Mirror' BY <1>9, <2>1 DEF Mirror
  <2>3. ToldInv'
    <3> SUFFICES ASSUME NEW e \in told PROVE Ended(e)' /\ Fixed(OwnerOf(e), IF e.end = "committed" THEN e.n ELSE 0)'
      BY DEF ToldInv
    <3>1. Ended(e) /\ Fixed(OwnerOf(e), IF e.end = "committed" THEN e.n ELSE 0) BY <2>1 DEF ToldInv
    <3>2. OwnerOf(e) # Owner(tx) BY <1>1, <3>1, EndedOwners
    <3>3. Ended(e)' BY <3>1 DEF Ended
    <3> QED BY <1>8, <3>1, <3>2, <3>3 DEF Fixed, Unmoved
  <2>4. OpenInv'
    <3> SUFFICES ASSUME strayed = {}
                 PROVE  /\ \A t \in txs : Pending(Owner(t), ran[t])'
                        /\ \A i \in OpenImports : Pending(ImportOwner(i), imports[i].inserted)'
      BY <1>9 DEF OpenInv
    <3>1. ASSUME NEW t \in txs PROVE Pending(Owner(t), ran[t])'
      <4>1. Pending(Owner(t), ran[t]) /\ t \in 1..MaxTx BY <1>1, <2>1 DEF OpenInv, WorkInv
      <4>2. CASE t = tx BY <1>6, <1>8, <4>1, <4>2 DEF Pending
      <4>3. CASE t # tx
        <5>1. Owner(t) # Owner(tx) BY <4>3, OwnersDiffer
        <5> QED BY <1>6, <1>8, <4>1, <4>3, <5>1 DEF Pending, Unmoved
      <4> QED BY <4>2, <4>3
    <3>2. ASSUME NEW i \in OpenImports PROVE Pending(ImportOwner(i), imports[i].inserted)'
      <4>1. Pending(ImportOwner(i), imports[i].inserted) BY <2>1 DEF OpenInv
      <4>2. ImportOwner(i) # Owner(tx) BY OwnersDiffer
      <4> QED BY <1>8, <4>1, <4>2 DEF Pending, Unmoved
    <3> QED BY <3>1, <3>2
  <2>5. FreshInv'
    <3>1. ASSUME NEW id \in Nat, id >= next_tx_id PROVE Fresh(Owner(id))' /\ (id \in 1..MaxTx => ran'[id] = 0)
      <4>1. id # tx BY <1>2, <3>1
      <4>2. Owner(id) # Owner(tx) BY <4>1, OwnersDiffer
      <4>3. Fresh(Owner(id)) /\ (id \in 1..MaxTx => ran[id] = 0) BY <2>1, <3>1 DEF FreshInv
      <4> QED BY <1>6, <1>8, <4>1, <4>2, <4>3 DEF Fresh, Unmoved
    <3>2. ASSUME NEW id \in Nat, id > Len(imports) PROVE Fresh(ImportOwner(id))'
      <4>1. ImportOwner(id) # Owner(tx) BY OwnersDiffer
      <4>2. Fresh(ImportOwner(id)) BY <2>1, <3>2 DEF FreshInv
      <4> QED BY <1>8, <4>1, <4>2 DEF Fresh, Unmoved
    <3> QED BY <3>1, <3>2 DEF FreshInv
  <2> QED BY <2>2, <2>3, <2>4, <2>5
<1>11. AccountInv' BY <1>1, <1>10 DEF AccountInv, NewInv, Live
<1> QED BY <1>5, <1>7, <1>11 DEF BooksInv

\* A step that only adds or deletes rows of nobody.
LEMMA NobodyKeeps ==
  ASSUME BooksInv, worker = "open", worker' = worker, UNCHANGED account, DbGoesOn, EngineInv', Unmoved(Nobody) PROVE BooksInv'
<1>1. WorkInv' BY DEF BooksInv, WorkInv, account
<1>2. AccountInv' BY AccountAlone DEF BooksInv
<1> QED BY <1>1, <1>2 DEF BooksInv

\* exec/run
LEMMA ExecRunKeeps ==
  ASSUME BooksInv, worker = "open", worker' = worker, NEW tx \in 0..MaxTx, HandleExecRun(tx) PROVE BooksInv'
<1>1. EngineInv /\ WorkInv BY DEF BooksInv
<1>2. UNCHANGED <<saved, dbtx, txs, active_tx, next_tx_id, imports, next_import_id, told, strayed>> /\ ValidTxForConn(tx)
  BY DEF HandleExecRun, tables
<1>3. DbGoesOn BY <1>2 DEF DbGoesOn
<1>4. CASE /\ rows < MaxRows /\ table' = table \o NewRows(IF tx = 0 THEN Nobody ELSE Owner(tx), 1)
           /\ rows' = rows + 1 /\ ran' = IF tx = 0 THEN ran ELSE [ran EXCEPT ![tx] = @ + 1]
  <2>1. rows + 1 <= MaxRows BY <1>1, <1>4, DuckBounds DEF EngineInv
  <2>2. CASE tx = 0
    <3>1. Grow(Nobody, 1) /\ UNCHANGED account /\ Nobody \in Owners /\ 1 \in Nat
      BY <1>2, <1>4, <2>2, OwnersDiffer DEF Grow, account
    <3>2. EngineInv' BY <1>1, <1>3, <2>1, <3>1, GrowKeeps
    <3>3. Unmoved(Nobody) BY <1>1, <3>1, GrowUnmoved
    <3> QED BY <1>3, <3>1, <3>2, <3>3, NobodyKeeps
  <2>3. CASE tx # 0
    <3>1. tx \in txs BY <1>2, <2>3 DEF ValidTxForConn
    <3>2. Grow(Owner(tx), 1) /\ ran' = [ran EXCEPT ![tx] = @ + 1] /\ dbtx' = dbtx BY <1>2, <1>4, <2>3 DEF Grow
    <3> QED BY <1>2, <2>1, <3>1, <3>2, ExecInTxKeeps
  <2> QED BY <2>2, <2>3
<1>5. CASE table # <<>> /\ table[1].by = Nobody /\ table' = Tail(table) /\ UNCHANGED <<rows, ran>>
  <2>1. Drop /\ UNCHANGED account BY <1>2, <1>5 DEF Drop, account
  <2>2. EngineInv' /\ Unmoved(Nobody) BY <1>1, <1>3, <2>1, DropKeeps, DropUnmoved
  <2> QED BY <1>3, <2>1, <2>2, NobodyKeeps
<1> QED BY <1>4, <1>5 DEF HandleExecRun

\* exec/batch
LEMMA ExecBatchKeeps == ASSUME BooksInv, worker = "open", worker' = worker, HandleExecBatch PROVE BooksInv'
<1>1. PICK results \in SeqOf({"ok", "failed"}, MaxChunk), in_transaction \in BOOLEAN :
        LET added == Len(results) - Failures(results)
            after == table \o NewRows(Nobody, added) IN
        /\ rows + added <= MaxRows /\ rows' = rows + added
        /\ \/ /\ in_transaction /\ dbtx = "auto"
              /\ table' \in IF Failures(results) = 0 THEN {after, table} ELSE {table}
              /\ UNCHANGED dbtx
           \/ /\ ~in_transaction /\ table' = after
              /\ dbtx' = IF dbtx = "open" /\ Failures(results) > 0 THEN "aborted" ELSE dbtx
        /\ UNCHANGED <<saved, tables, heard, strayed>>
  BY DEF HandleExecBatch
<1>2. PICK n \in Nat : n = Len(results) - Failures(results) BY ResultsAre
<1>3. /\ rows + n <= MaxRows /\ rows' = rows + n /\ (table' = table \/ table' = table \o NewRows(Nobody, n))
      /\ UNCHANGED <<saved, tables, heard, strayed>> /\ DbGoesOn
  BY <1>1, <1>2 DEF DbGoesOn
<1>4. UNCHANGED account BY <1>3 DEF account, tables, heard
<1>5. EngineInv /\ Nobody \in Owners BY OwnersDiffer DEF BooksInv
<1>6. CASE table' = table
  <2>1. Still(n) BY <1>3, <1>6 DEF Still
  <2>2. EngineInv' /\ Unmoved(Nobody) BY <1>3, <1>5, <2>1, StillKeeps, StillUnmoved
  <2> QED BY <1>3, <1>4, <2>2, NobodyKeeps
<1>7. CASE table' = table \o NewRows(Nobody, n)
  <2>1. Grow(Nobody, n) BY <1>3, <1>7 DEF Grow
  <2>2. EngineInv' /\ Unmoved(Nobody) BY <1>3, <1>5, <2>1, GrowKeeps, GrowUnmoved
  <2> QED BY <1>3, <1>4, <2>2, NobodyKeeps
<1> QED BY <1>3, <1>6, <1>7

\* A statement fails in a transaction.
LEMMA StatementFailsKeeps == ASSUME BooksInv, worker = "open", worker' = worker, StatementFails PROVE BooksInv'
<1>1. UNCHANGED account /\ table' = table /\ saved' = saved /\ rows' = rows /\ DbGoesOn
  BY DEF StatementFails, tables, heard, account, DbGoesOn
<1>2. Still(0) /\ rows + 0 <= MaxRows BY <1>1, DuckBounds DEF Still, BooksInv, EngineInv
<1>3. EngineInv' /\ Unmoved(Nobody) BY <1>1, <1>2, StillKeeps, StillUnmoved DEF BooksInv
<1> QED BY <1>1, <1>3, NobodyKeeps

\* SQL text that begins or ends a transaction: the account is closed.
LEMMA ExecTextKeeps == ASSUME BooksInv, worker = "open", worker' = worker, ExecTxControlText PROVE BooksInv'
<1>1. /\ DbBegin \/ DbCommit \/ DbUndo
      /\ strayed' = strayed \cup {"text"} /\ rows' = rows /\ UNCHANGED <<txs, active_tx, next_tx_id, imports, next_import_id, ran>>
  BY DEF ExecTxControlText, tables, heard
<1>2. EngineInv' BY <1>1, EndKeeps DEF BooksInv
<1>3. WorkInv' BY <1>1 DEF BooksInv, WorkInv
<1>4. AccountInv' BY <1>1 DEF BooksInv, AccountInv, NewInv, Live
<1> QED BY <1>2, <1>3, <1>4 DEF BooksInv
-----------------------------------------------------------------------------
(* Transactions *)

LEMMA CountEmpty == ASSUME NEW o PROVE Count(<<>>, o) = 0
<1>1. Owned(<<>>, o) = {} BY DEF Owned
<1> QED BY <1>1, FS_EmptySet DEF Count

\* What stays, and what is not there, is so after a commit or a rollback too.
LEMMA EndCounts ==
  ASSUME DbCommit \/ DbUndo, NEW o, NEW n
  PROVE  (Fixed(o, n) => Fixed(o, n)') /\ (Fresh(o) => Fresh(o)')
<1>1. dbtx # "auto" /\ dbtx' = "auto" /\ saved' = <<>> /\ (table' = table \/ table' = saved) BY DEF DbCommit, DbUndo
<1>2. Count(saved', o) = 0 BY <1>1, CountEmpty
<1> QED BY <1>1, <1>2 DEF Fixed, Fresh

\* Every commit or rollback closes the account of what was told before.
LEMMA EndTold ==
  ASSUME ToldInv, DbCommit \/ DbUndo, \A e \in told : Ended(e) => Ended(e)', NEW e \in told
  PROVE  Ended(e)' /\ Fixed(OwnerOf(e), IF e.end = "committed" THEN e.n ELSE 0)'
<1>1. Ended(e) /\ Fixed(OwnerOf(e), IF e.end = "committed" THEN e.n ELSE 0) BY DEF ToldInv
<1> QED BY <1>1, EndCounts

LEMMA EndFresh ==
  ASSUME FreshInv, DbCommit \/ DbUndo, ran' = ran, next_tx_id' = next_tx_id, Len(imports') = Len(imports) PROVE FreshInv'
<1>1. ASSUME NEW id \in Nat, id >= next_tx_id PROVE Fresh(Owner(id))' /\ (id \in 1..MaxTx => ran'[id] = 0)
  BY <1>1, EndCounts DEF FreshInv
<1>2. ASSUME NEW id \in Nat, id > Len(imports) PROVE Fresh(ImportOwner(id))' BY <1>2, EndCounts DEF FreshInv
<1> QED BY <1>1, <1>2 DEF FreshInv

\* In a transaction of the engine one of the driver's is open, and nothing strayed.
LEMMA InTransaction ==
  ASSUME WorkInv, Mirror, "text" \notin strayed, dbtx # "auto"
  PROVE  strayed = {} /\ (active_tx # 0 \/ OpenImports # {}) /\ (active_tx = 0 \/ OpenImports = {}) /\ txs = {active_tx} \ {0}
         /\ \A i, j \in OpenImports : i = j
BY DEF WorkInv, Mirror

\* The same when no transaction of the engine is open and the driver has none.
LEMMA OutOfTransaction ==
  ASSUME WorkInv, Mirror, "text" \notin strayed, dbtx = "auto", active_tx = 0
  PROVE  strayed = {} /\ OpenImports = {} /\ txs = {}
BY DEF WorkInv, Mirror

\* tx/begin
LEMMA TxBeginKeeps == ASSUME BooksInv, worker = "open", worker' = worker, HandleTxBegin PROVE BooksInv'
<1>1. EngineInv /\ WorkInv /\ AccountInv BY DEF BooksInv
<1>2. /\ active_tx = 0 /\ next_tx_id <= MaxTx /\ dbtx = "auto" /\ dbtx' = "open" /\ saved' = table /\ table' = table
      /\ txs' = txs \cup {next_tx_id} /\ active_tx' = next_tx_id /\ next_tx_id' = next_tx_id + 1
      /\ UNCHANGED <<imports, next_import_id, rows, told, ran, strayed>>
  BY DEF HandleTxBegin, DbBegin, heard
<1>3. EngineInv' BY <1>1, EndKeeps DEF HandleTxBegin
<1>4. next_tx_id \in Nat \ {0} /\ next_tx_id \in 1..MaxTx /\ next_tx_id + 1 \in Nat \ {0} /\ \A tx \in txs : tx \in 1..MaxTx /\ tx < next_tx_id
  BY <1>1, <1>2, DuckBounds DEF WorkInv
<1>5. WorkInv'
  <2>1. \A tx \in txs' : tx < next_tx_id + 1 BY <1>2, <1>4
  <2> QED BY <1>1, <1>2, <1>4, <2>1 DEF WorkInv
<1>6. OpenImports' = OpenImports BY <1>2 DEF OpenImports
<1>7. ASSUME Live PROVE (Mirror /\ ToldInv /\ OpenInv /\ FreshInv)'
  <2>1. Mirror /\ ToldInv /\ OpenInv /\ FreshInv /\ "text" \notin strayed BY <1>1, <1>7 DEF AccountInv, Live
  <2>2. strayed = {} /\ OpenImports = {} /\ txs = {} BY <1>1, <1>2, <2>1, OutOfTransaction
  <2>3. Mirror' BY <1>2, <1>4, <1>6, <2>2 DEF Mirror
  <2>4. ToldInv'
    <3> SUFFICES ASSUME NEW e \in told PROVE Ended(e)' /\ Fixed(OwnerOf(e), IF e.end = "committed" THEN e.n ELSE 0)'
      BY <1>2 DEF ToldInv
    <3>1. Ended(e) /\ Fixed(OwnerOf(e), IF e.end = "committed" THEN e.n ELSE 0) BY <2>1 DEF ToldInv
    <3>2. ASSUME e.kind = "tx", e.id \in Nat, e.id < next_tx_id, e.id \notin txs PROVE e.id < next_tx_id + 1 /\ e.id \notin txs'
      BY <1>2, <1>4, <3>2
    <3>3. Ended(e)' BY <1>2, <3>1, <3>2 DEF Ended
    <3> QED BY <1>2, <3>1, <3>3 DEF Fixed
  <2>5. Fresh(Owner(next_tx_id)) /\ ran[next_tx_id] = 0 BY <1>4, <2>1 DEF FreshInv
  <2>6. OpenInv' BY <1>2, <1>6, <2>2, <2>5 DEF OpenInv, Pending, Fresh
  <2>7. FreshInv'
    <3>1. ASSUME NEW id \in Nat, id >= next_tx_id + 1 PROVE Fresh(Owner(id))' /\ (id \in 1..MaxTx => ran'[id] = 0)
      <4>1. id >= next_tx_id BY <1>4, <3>1
      <4>2. Fresh(Owner(id)) /\ (id \in 1..MaxTx => ran[id] = 0) BY <2>1, <4>1 DEF FreshInv
      <4> QED BY <1>2, <4>2 DEF Fresh
    <3>2. ASSUME NEW id \in Nat, id > Len(imports) PROVE Fresh(ImportOwner(id))' BY <1>2, <2>1, <3>2 DEF FreshInv, Fresh
    <3> QED BY <1>2, <3>1, <3>2 DEF FreshInv
  <2> QED BY <2>3, <2>4, <2>6, <2>7
<1>8. AccountInv' BY <1>1, <1>2, <1>7 DEF AccountInv, NewInv, Live
<1> QED BY <1>3, <1>5, <1>8 DEF BooksInv

\* A transaction ends: what was told of it, if anything, is what happened.
LEMMA CloseTxKeeps ==
  ASSUME BooksInv, worker = "open", worker' = worker, NEW tx \in txs, DbCommit \/ DbUndo, rows' = rows,
         txs' = txs \ {tx}, active_tx' = IF active_tx = tx THEN 0 ELSE active_tx,
         UNCHANGED <<next_tx_id, imports, next_import_id, ran, strayed>>,
         NEW end, NEW n, Tell("tx", tx, end, n),
         Live => Count(table', Owner(tx)) = IF end = "committed" THEN n ELSE 0
  PROVE  BooksInv'
<1>1. EngineInv /\ WorkInv /\ AccountInv BY DEF BooksInv
<1>2. EngineInv' BY <1>1, EndKeeps
<1>3. WorkInv' BY <1>1 DEF WorkInv
<1>4. OpenImports' = OpenImports BY DEF OpenImports
<1>5. dbtx # "auto" /\ dbtx' = "auto" BY DEF DbCommit, DbUndo
<1>6. tx \in Nat /\ tx < next_tx_id /\ tx # 0 BY <1>1, DuckBounds DEF WorkInv
<1>7. ASSUME Live PROVE (Mirror /\ ToldInv /\ OpenInv /\ FreshInv)'
  <2>1. Mirror /\ ToldInv /\ OpenInv /\ FreshInv /\ "text" \notin strayed BY <1>1, <1>7 DEF AccountInv, Live
  <2>2. strayed = {} /\ txs = {active_tx} \ {0} /\ (active_tx = 0 \/ OpenImports = {}) BY <1>1, <1>5, <2>1, InTransaction
  <2>3. tx = active_tx /\ OpenImports = {} /\ txs' = {} /\ active_tx' = 0 BY <2>2
  <2>4. Mirror' BY <1>4, <1>5, <2>2, <2>3 DEF Mirror
  <2>5. ToldInv'
    <3> DEFINE new == [kind |-> "tx", id |-> tx, end |-> end, n |-> n]
    <3>1. told' = told \cup {new} BY DEF Tell
    <3>2. \A e : Ended(e) => Ended(e)' BY DEF Ended
    <3>3. ASSUME NEW e \in told PROVE Ended(e)' /\ Fixed(OwnerOf(e), IF e.end = "committed" THEN e.n ELSE 0)'
      BY <2>1, <3>2, EndTold
    <3>4. Ended(new)' BY <1>6 DEF Ended
    <3>5. OwnerOf(new) = Owner(tx) /\ new.end = end /\ new.n = n BY DEF OwnerOf, Owner
    <3>6. Fixed(Owner(tx), IF end = "committed" THEN n ELSE 0)' BY <1>5, <1>7 DEF Fixed
    <3> HIDE DEF new
    <3>7. Fixed(OwnerOf(new), IF new.end = "committed" THEN new.n ELSE 0)' BY <3>5, <3>6
    <3> QED BY <3>1, <3>3, <3>4, <3>7 DEF ToldInv
  <2>6. OpenInv' BY <1>4, <2>3 DEF OpenInv
  <2>7. FreshInv' BY <2>1, EndFresh
  <2> QED BY <2>4, <2>5, <2>6, <2>7
<1>8. AccountInv' BY <1>1, <1>7 DEF AccountInv, NewInv, Live
<1> QED BY <1>2, <1>3, <1>8 DEF BooksInv

\* A commit that fails: the driver keeps a transaction that the engine has undone.
LEMMA CommitFailsKeeps ==
  ASSUME BooksInv, worker = "open", worker' = worker, NEW tx \in txs, DbUndo, rows' = rows, strayed' = strayed \cup {"commit"},
         UNCHANGED <<txs, active_tx, next_tx_id, imports, next_import_id, told, ran>>
  PROVE  BooksInv'
<1>1. EngineInv /\ WorkInv /\ AccountInv BY DEF BooksInv
<1>2. EngineInv' BY <1>1, EndKeeps
<1>3. WorkInv' BY <1>1 DEF WorkInv
<1>4. OpenImports' = OpenImports BY DEF OpenImports
<1>5. dbtx # "auto" /\ dbtx' = "auto" BY DEF DbUndo
<1>6. ASSUME Live PROVE (Mirror /\ ToldInv /\ OpenInv /\ FreshInv)'
  <2>1. Mirror /\ ToldInv /\ OpenInv /\ FreshInv /\ "text" \notin strayed BY <1>1, <1>6 DEF AccountInv, Live
  <2>2. strayed = {} /\ txs = {active_tx} \ {0} /\ (active_tx = 0 \/ OpenImports = {}) BY <1>1, <1>5, <2>1, InTransaction
  <2>3. tx = active_tx /\ active_tx # 0 /\ OpenImports = {} BY <2>2
  <2>4. Mirror' BY <1>4, <1>5, <2>2, <2>3 DEF Mirror
  <2>5. \A e : Ended(e) => Ended(e)' BY DEF Ended
  <2>6. ASSUME NEW e \in told PROVE Ended(e)' /\ Fixed(OwnerOf(e), IF e.end = "committed" THEN e.n ELSE 0)'
    BY <2>1, <2>5, EndTold
  <2>7. ToldInv' BY <2>6 DEF ToldInv
  <2>8. OpenInv' BY DEF OpenInv
  <2>9. FreshInv' BY <2>1, EndFresh
  <2> QED BY <2>4, <2>7, <2>8, <2>9
<1>7. Live' => Live BY DEF Live
<1>8. AccountInv' BY <1>1, <1>6, <1>7 DEF AccountInv, NewInv
<1> QED BY <1>2, <1>3, <1>8 DEF BooksInv

\* tx/commit
LEMMA TxCommitKeeps ==
  ASSUME BooksInv, worker = "open", worker' = worker, NEW tx \in 1..MaxTx, HandleTxCommit(tx) PROVE BooksInv'
<1>1. tx \in txs /\ rows' = rows /\ ran' = ran BY DEF HandleTxCommit
<1>2. CASE DbCommit /\ Tell("tx", tx, "committed", ran[tx]) /\ CloseTx(tx) /\ UNCHANGED strayed
  <2>1. ASSUME Live PROVE Count(table', Owner(tx)) = ran[tx]
    <3>1. WorkInv /\ Mirror /\ OpenInv /\ "text" \notin strayed BY <2>1 DEF BooksInv, AccountInv, Live
    <3>2. dbtx # "auto" /\ table' = table BY <1>2 DEF DbCommit
    <3>3. strayed = {} BY <3>1, <3>2, InTransaction
    <3> QED BY <1>1, <3>1, <3>2, <3>3 DEF OpenInv, Pending
  <2>2. PICK n : n = ran[tx] OBVIOUS
  <2>3. Tell("tx", tx, "committed", n) /\ (Live => Count(table', Owner(tx)) = IF "committed" = "committed" THEN n ELSE 0)
    BY <1>2, <2>1, <2>2
  <2>4. /\ DbCommit \/ DbUndo
        /\ txs' = txs \ {tx} /\ active_tx' = IF active_tx = tx THEN 0 ELSE active_tx
        /\ UNCHANGED <<next_tx_id, imports, next_import_id, ran, strayed>>
    BY <1>1, <1>2 DEF CloseTx
  <2> QED BY <1>1, <2>3, <2>4, CloseTxKeeps
<1>3. CASE DbUndo /\ strayed' = strayed \cup {"commit"} /\ UNCHANGED <<tables, told>>
  BY <1>1, <1>3, CommitFailsKeeps DEF tables
<1>4. CASE UndoneByCommit /\ Tell("tx", tx, "committed after an error", ran[tx]) /\ CloseTx(tx) /\ UNCHANGED strayed
  <2>1. PICK n : n = ran[tx] OBVIOUS
  <2>2. ASSUME Live PROVE Count(table', Owner(tx)) = 0
    <3>1. WorkInv /\ Mirror /\ OpenInv /\ "text" \notin strayed BY <2>2 DEF BooksInv, AccountInv, Live
    <3>2. dbtx # "auto" /\ table' = saved BY <1>4 DEF UndoneByCommit, DbUndo
    <3>3. strayed = {} BY <3>1, <3>2, InTransaction
    <3> QED BY <1>1, <3>1, <3>2, <3>3 DEF OpenInv, Pending
  <2>3. /\ Tell("tx", tx, "committed after an error", n)
        /\ Live => Count(table', Owner(tx)) = IF "committed after an error" = "committed" THEN n ELSE 0
    BY <1>4, <2>1, <2>2
  <2>4. /\ DbCommit \/ DbUndo
        /\ txs' = txs \ {tx} /\ active_tx' = IF active_tx = tx THEN 0 ELSE active_tx
        /\ UNCHANGED <<next_tx_id, imports, next_import_id, ran, strayed>>
    BY <1>1, <1>4 DEF CloseTx, UndoneByCommit
  <2> QED BY <1>1, <2>3, <2>4, CloseTxKeeps
<1> QED BY <1>2, <1>3, <1>4 DEF HandleTxCommit

\* tx/rollback
LEMMA TxRollbackKeeps ==
  ASSUME BooksInv, worker = "open", worker' = worker, NEW tx \in 1..MaxTx, HandleTxRollback(tx) PROVE BooksInv'
<1>1. tx \in txs /\ rows' = rows /\ ran' = ran /\ strayed' = strayed /\ DbUndo /\ CloseTx(tx) /\ Tell("tx", tx, "rolled back", 0)
  BY DEF HandleTxRollback
<1>2. ASSUME Live PROVE Count(table', Owner(tx)) = 0
  <2>1. WorkInv /\ Mirror /\ OpenInv /\ "text" \notin strayed BY <1>2 DEF BooksInv, AccountInv, Live
  <2>2. dbtx # "auto" /\ table' = saved BY <1>1 DEF DbUndo
  <2>3. strayed = {} BY <2>1, <2>2, InTransaction
  <2> QED BY <1>1, <2>1, <2>2, <2>3 DEF OpenInv, Pending
<1>3. Live => Count(table', Owner(tx)) = IF "rolled back" = "committed" THEN 0 ELSE 0 BY <1>2
<1>4. /\ txs' = txs \ {tx} /\ active_tx' = IF active_tx = tx THEN 0 ELSE active_tx
      /\ UNCHANGED <<next_tx_id, imports, next_import_id, ran, strayed>>
  BY <1>1 DEF CloseTx
<1> QED BY <1>1, <1>3, <1>4, CloseTxKeeps
-----------------------------------------------------------------------------
(* Imports *)

\* An import that is being made is not nothing.
LEMMA ImportIsSome == \A imp \in DuckImports : imp # None
<1>1. ASSUME NEW imp \in DuckImports PROVE imp # None
  <2>1. imp.kind = "import" /\ None.kind = "none" BY DEF DuckImports, None
  <2> QED BY <2>1
<1> QED BY <1>1

\* data/import_begin
LEMMA ImportBeginKeeps == ASSUME BooksInv, worker = "open", worker' = worker, HandleDataImportBegin PROVE BooksInv'
<1>1. EngineInv /\ WorkInv /\ AccountInv BY DEF BooksInv
<1>2. /\ active_tx = 0 /\ dbtx = "auto" /\ dbtx' = "open" /\ saved' = table /\ table' = table
      /\ next_import_id' = next_import_id + 1 /\ UNCHANGED <<txs, active_tx, next_tx_id, rows, told, ran, strayed>>
  BY DEF HandleDataImportBegin, DbBegin, heard
<1>3. PICK limit \in Thresholds : imports' = Append(imports, NewImport(limit)) BY DEF HandleDataImportBegin
<1> DEFINE imp == NewImport(limit)
<1>4. imp \in DuckImports /\ imp.inserted = 0 BY DuckBounds DEF NewImport, DuckImports
<1>5. imp # None BY <1>4, ImportIsSome
<1>6. imports \in Seq(DuckImports \cup {None}) BY <1>1 DEF WorkInv
<1>0. PICK L \in Nat : L = Len(imports) BY <1>6
<1> HIDE DEF imp
<1>7. /\ imports' \in Seq(DuckImports \cup {None}) /\ Len(imports') = L + 1 /\ DOMAIN imports = 1..L /\ DOMAIN imports' = 1..(L + 1)
      /\ L \in Nat /\ imports'[L + 1] = imp /\ \A i \in 1..L : imports'[i] = imports[i] /\ i \in 1..(L + 1)
  BY <1>0, <1>3, <1>4, <1>6 DEF imp
<1>8. EngineInv' BY <1>1, <1>2, EndKeeps DEF HandleDataImportBegin
<1>9. WorkInv' BY <1>0, <1>1, <1>2, <1>7 DEF WorkInv
<1>10. ASSUME Live PROVE (Mirror /\ ToldInv /\ OpenInv /\ FreshInv)'
  <2>1. Mirror /\ ToldInv /\ OpenInv /\ FreshInv /\ "text" \notin strayed BY <1>1, <1>10 DEF AccountInv, Live
  <2>2. strayed = {} /\ OpenImports = {} /\ txs = {} BY <1>1, <1>2, <2>1, OutOfTransaction
  <2>3. OpenImports' = {L + 1}
    <3>1. \A i \in 1..L : imports[i] = None BY <1>7, <2>2 DEF OpenImports
    <3>2. \A i \in 1..(L + 1) : i \in 1..L \/ i = L + 1 BY <1>7
    <3>3. L + 1 \in 1..(L + 1) BY <1>7
    <3> QED BY <1>5, <1>7, <3>1, <3>2, <3>3 DEF OpenImports
  <2>4. Mirror' BY <1>2, <2>2, <2>3 DEF Mirror
  <2>5. ToldInv'
    <3> SUFFICES ASSUME NEW e \in told PROVE Ended(e)' /\ Fixed(OwnerOf(e), IF e.end = "committed" THEN e.n ELSE 0)'
      BY <1>2 DEF ToldInv
    <3>1. Ended(e) /\ Fixed(OwnerOf(e), IF e.end = "committed" THEN e.n ELSE 0) BY <2>1 DEF ToldInv
    <3>2. Ended(e)' BY <1>2, <1>7, <3>1 DEF Ended
    <3> QED BY <1>2, <3>1, <3>2 DEF Fixed
  <2>6. Fresh(ImportOwner(L + 1))
    <3>1. L + 1 \in Nat /\ L + 1 > Len(imports) BY <1>0
    <3> QED BY <2>1, <3>1 DEF FreshInv
  <2>7. Pending(ImportOwner(L + 1), 0)' BY <1>2, <2>6 DEF Fresh, Pending
  <2>8. OpenInv' BY <1>2, <1>4, <1>7, <2>2, <2>3, <2>7 DEF OpenInv
  <2>9. FreshInv'
    <3>1. ASSUME NEW id \in Nat, id >= next_tx_id PROVE Fresh(Owner(id))' /\ (id \in 1..MaxTx => ran'[id] = 0)
      BY <1>2, <2>1, <3>1 DEF FreshInv, Fresh
    <3>2. ASSUME NEW id \in Nat, id > L + 1 PROVE Fresh(ImportOwner(id))'
      <4>1. id > Len(imports) BY <1>0, <3>2
      <4> QED BY <1>2, <2>1, <4>1 DEF FreshInv, Fresh
    <3> QED BY <1>2, <1>7, <3>1, <3>2 DEF FreshInv
  <2> QED BY <2>4, <2>5, <2>8, <2>9
<1>11. AccountInv' BY <1>1, <1>2, <1>10 DEF AccountInv, NewInv, Live
<1> QED BY <1>8, <1>9, <1>11 DEF BooksInv

\* data/import_chunk: rows that were accepted count for the import.
LEMMA ImportChunkKeeps == ASSUME BooksInv, worker = "open", worker' = worker, HandleDataImportChunk PROVE BooksInv'
<1>1. EngineInv /\ WorkInv /\ AccountInv BY DEF BooksInv
<1>2. PICK i \in DOMAIN imports, results \in SeqOf({"ok", "shape", "rejected"}, MaxChunk) :
        LET failed == Failures(results)
            added == Len(results) - failed IN
        /\ imports[i] # None /\ rows + added <= MaxRows /\ rows' = rows + added
        /\ table' = table \o NewRows(ImportOwner(i), added) /\ DbGoesOn /\ saved' = saved
        /\ imports' = [imports EXCEPT ![i] = RecordRows(@, added, failed)]
        /\ UNCHANGED <<next_import_id, txs, active_tx, next_tx_id, heard, strayed>>
  BY DEF HandleDataImportChunk, DbGoesOn
<1>3. PICK n \in Nat, f \in Nat : n = Len(results) - Failures(results) /\ f = Failures(results) BY ResultsAre
<1>4. /\ imports[i] # None /\ rows + n <= MaxRows /\ Grow(ImportOwner(i), n) /\ DbGoesOn
      /\ imports' = [imports EXCEPT ![i] = RecordRows(imports[i], n, f)]
      /\ UNCHANGED <<next_import_id, txs, active_tx, next_tx_id, told, ran, strayed>>
  BY <1>2, <1>3 DEF Grow, heard
<1>5. imports \in Seq(DuckImports \cup {None}) /\ imports[i] \in DuckImports /\ i \in Nat BY <1>1, <1>4 DEF WorkInv
<1> DEFINE imp == RecordRows(imports[i], n, f)
<1>6. imp \in DuckImports /\ imp.inserted = imports[i].inserted + n
  <2>1. PICK x \in DuckImports : x = imports[i] BY <1>5
  <2>2. x.inserted \in Nat /\ x.failed \in Nat BY DEF DuckImports
  <2>3. x.inserted + n \in Nat /\ x.failed + f \in Nat BY <2>2
  <2>4. [x EXCEPT !.inserted = @ + n, !.failed = @ + f] \in DuckImports BY <2>3 DEF DuckImports
  <2>5. [x EXCEPT !.inserted = @ + n, !.failed = @ + f].inserted = x.inserted + n BY DEF DuckImports
  <2> QED BY <2>1, <2>4, <2>5 DEF RecordRows
<1>7. imp # None BY <1>6, ImportIsSome
<1> HIDE DEF imp
<1>8. /\ imports' \in Seq(DuckImports \cup {None}) /\ Len(imports') = Len(imports) /\ DOMAIN imports' = DOMAIN imports
      /\ imports'[i] = imp /\ \A j \in DOMAIN imports : j # i => imports'[j] = imports[j]
  BY <1>4, <1>5, <1>6 DEF imp
<1>9. OpenImports' = OpenImports BY <1>4, <1>7, <1>8 DEF OpenImports
<1>10. ImportOwner(i) \in Owners /\ i \in OpenImports BY <1>4, <1>5, OwnersDiffer DEF OpenImports
<1>11. EngineInv' BY <1>1, <1>4, <1>10, GrowKeeps
<1>12. WorkInv' BY <1>1, <1>4, <1>8 DEF WorkInv
<1>13. /\ Unmoved(ImportOwner(i)) /\ Count(table', ImportOwner(i)) = Count(table, ImportOwner(i)) + n
       /\ Count(saved', ImportOwner(i)) = Count(saved, ImportOwner(i))
  BY <1>1, <1>4, <1>10, GrowUnmoved
<1>14. dbtx' = "auto" <=> dbtx = "auto" BY <1>1, <1>4, GoesOnSame
<1>15. ASSUME Live PROVE (Mirror /\ ToldInv /\ OpenInv /\ FreshInv)'
  <2>1. Mirror /\ ToldInv /\ OpenInv /\ FreshInv BY <1>1, <1>15 DEF AccountInv
  <2>2. Mirror' BY <1>4, <1>9, <1>14, <2>1 DEF Mirror
  <2>3. ToldInv'
    <3> SUFFICES ASSUME NEW e \in told PROVE Ended(e)' /\ Fixed(OwnerOf(e), IF e.end = "committed" THEN e.n ELSE 0)'
      BY <1>4 DEF ToldInv
    <3>1. Ended(e) /\ Fixed(OwnerOf(e), IF e.end = "committed" THEN e.n ELSE 0) BY <2>1 DEF ToldInv
    <3>2. OwnerOf(e) # ImportOwner(i) BY <1>1, <1>10, <3>1, EndedOwners
    <3>3. Ended(e)' BY <1>4, <1>8, <3>1 DEF Ended
    <3> QED BY <1>13, <1>14, <3>1, <3>2, <3>3 DEF Fixed, Unmoved
  <2>4. OpenInv'
    <3> SUFFICES ASSUME strayed = {}
                 PROVE  /\ \A t \in txs : Pending(Owner(t), ran[t])'
                        /\ \A j \in OpenImports : Pending(ImportOwner(j), imports[j].inserted)'
      BY <1>4, <1>9 DEF OpenInv
    <3>1. ASSUME NEW t \in txs PROVE Pending(Owner(t), ran[t])'
      <4>1. Pending(Owner(t), ran[t]) BY <2>1 DEF OpenInv
      <4>2. Owner(t) # ImportOwner(i) BY OwnersDiffer
      <4> QED BY <1>4, <1>13, <4>1, <4>2 DEF Pending, Unmoved
    <3>2. ASSUME NEW j \in OpenImports PROVE Pending(ImportOwner(j), imports[j].inserted)'
      <4>1. Pending(ImportOwner(j), imports[j].inserted) /\ j \in DOMAIN imports BY <2>1 DEF OpenInv, OpenImports
      <4>2. CASE j = i BY <1>6, <1>8, <1>13, <4>1, <4>2 DEF Pending
      <4>3. CASE j # i
        <5>1. ImportOwner(j) # ImportOwner(i) BY <4>3, OwnersDiffer
        <5> QED BY <1>8, <1>13, <4>1, <4>3, <5>1 DEF Pending, Unmoved
      <4> QED BY <4>2, <4>3
    <3> QED BY <3>1, <3>2
  <2>5. FreshInv'
    <3>1. ASSUME NEW id \in Nat, id >= next_tx_id PROVE Fresh(Owner(id))' /\ (id \in 1..MaxTx => ran'[id] = 0)
      <4>1. Owner(id) # ImportOwner(i) BY OwnersDiffer
      <4> QED BY <1>4, <1>13, <2>1, <3>1, <4>1 DEF FreshInv, Fresh, Unmoved
    <3>2. ASSUME NEW id \in Nat, id > Len(imports) PROVE Fresh(ImportOwner(id))'
      <4>1. id # i BY <1>5, <3>2
      <4>2. ImportOwner(id) # ImportOwner(i) BY <4>1, OwnersDiffer
      <4> QED BY <1>13, <2>1, <3>2, <4>2 DEF FreshInv, Fresh, Unmoved
    <3> QED BY <1>4, <1>8, <3>1, <3>2 DEF FreshInv
  <2> QED BY <2>2, <2>3, <2>4, <2>5
<1>16. AccountInv' BY <1>1, <1>4, <1>15 DEF AccountInv, NewInv, Live
<1> QED BY <1>11, <1>12, <1>16 DEF BooksInv

\* The import is forgotten: what was told of it, if anything, is what happened.
LEMMA RemoveImportKeeps ==
  ASSUME BooksInv, worker = "open", worker' = worker, NEW i \in DOMAIN imports, imports[i] # None, RemoveImport(i),
         rows' = rows, UNCHANGED <<ran, strayed>>,
         DbCommit \/ DbUndo \/ (dbtx = "auto" /\ UNCHANGED engine),
         NEW end, NEW n, told' = told \/ Tell("import", i, end, n),
         (Live /\ Tell("import", i, end, n)) => Count(table', ImportOwner(i)) = IF end = "committed" THEN n ELSE 0
  PROVE  BooksInv'
<1>1. EngineInv /\ WorkInv /\ AccountInv BY DEF BooksInv
<1>2. imports' = [imports EXCEPT ![i] = None] /\ UNCHANGED <<next_import_id, txs, active_tx, next_tx_id>> BY DEF RemoveImport
<1>3. imports \in Seq(DuckImports \cup {None}) BY <1>1 DEF WorkInv
<1>4. /\ imports' \in Seq(DuckImports \cup {None}) /\ Len(imports') = Len(imports) /\ DOMAIN imports' = DOMAIN imports
      /\ imports'[i] = None /\ \A j \in DOMAIN imports : j # i => imports'[j] = imports[j]
  BY <1>2, <1>3
<1>5. OpenImports' = OpenImports \ {i} /\ i \in OpenImports BY <1>4 DEF OpenImports
<1>6. EngineInv'
  <2>1. CASE dbtx = "auto" /\ UNCHANGED engine BY <1>1, <2>1 DEF EngineInv, engine
  <2> QED BY <1>1, <2>1, EndKeeps
<1>7. WorkInv' BY <1>1, <1>2, <1>4 DEF WorkInv
<1>8. ASSUME Live PROVE (Mirror /\ ToldInv /\ OpenInv /\ FreshInv)'
  <2>1. Mirror /\ ToldInv /\ OpenInv /\ FreshInv /\ "text" \notin strayed BY <1>1, <1>8 DEF AccountInv, Live
  <2>2. dbtx # "auto" BY <1>5, <2>1 DEF Mirror
  <2>3. DbCommit \/ DbUndo BY <2>2
  <2>4. dbtx' = "auto" BY <2>3 DEF DbCommit, DbUndo
  <2>5. strayed = {} /\ (active_tx = 0 \/ OpenImports = {}) /\ txs = {active_tx} \ {0} /\ \A j, k \in OpenImports : j = k
    BY <1>1, <2>1, <2>2, InTransaction
  <2>6. active_tx = 0 /\ txs = {} /\ OpenImports' = {} BY <1>5, <2>5
  <2>7. Mirror' BY <1>2, <2>4, <2>5, <2>6 DEF Mirror
  <2>8. ToldInv'
    <3> DEFINE new == [kind |-> "import", id |-> i, end |-> end, n |-> n]
    <3>1. \A e : Ended(e) => Ended(e)' BY <1>2, <1>4 DEF Ended
    <3>2. ASSUME NEW e \in told PROVE Ended(e)' /\ Fixed(OwnerOf(e), IF e.end = "committed" THEN e.n ELSE 0)'
      BY <2>1, <2>3, <3>1, EndTold
    <3>3. CASE told' = told BY <3>2, <3>3 DEF ToldInv
    <3>4. CASE Tell("import", i, end, n)
      <4>1. told' = told \cup {new} BY <3>4 DEF Tell
      <4>2. Ended(new)' BY <1>4 DEF Ended
      <4>3. OwnerOf(new) = ImportOwner(i) /\ new.end = end /\ new.n = n BY DEF OwnerOf, ImportOwner
      <4>4. Fixed(ImportOwner(i), IF end = "committed" THEN n ELSE 0)' BY <1>8, <2>4, <3>4 DEF Fixed
      <4> HIDE DEF new
      <4>5. Fixed(OwnerOf(new), IF new.end = "committed" THEN new.n ELSE 0)' BY <4>3, <4>4
      <4> QED BY <3>2, <4>1, <4>2, <4>5 DEF ToldInv
    <3> QED BY <3>3, <3>4
  <2>9. OpenInv' BY <1>2, <2>6 DEF OpenInv
  <2>10. FreshInv' BY <1>2, <1>4, <2>1, <2>3, EndFresh
  <2> QED BY <2>7, <2>8, <2>9, <2>10
<1>9. AccountInv' BY <1>1, <1>8 DEF AccountInv, NewInv, Live
<1> QED BY <1>6, <1>7, <1>9 DEF BooksInv

\* data/import_commit
LEMMA ImportCommitKeeps == ASSUME BooksInv, worker = "open", worker' = worker, HandleDataImportCommit PROVE BooksInv'
<1>1. PICK i \in DOMAIN imports :
        /\ imports[i] # None /\ RemoveImport(i)
        /\ \/ DbCommit /\ Tell("import", i, "committed", imports[i].inserted)
           \/ UndoneByCommit /\ Tell("import", i, "committed after an error", imports[i].inserted)
           \/ DbUndo /\ UNCHANGED told
           \/ dbtx = "auto" /\ UNCHANGED <<engine, told>>
        /\ UNCHANGED <<rows, got, read, ran, strayed>>
  BY DEF HandleDataImportCommit
<1>2. PICK n : n = imports[i].inserted OBVIOUS
<1>3. ASSUME Live, DbCommit PROVE Count(table', ImportOwner(i)) = n
  <2>1. WorkInv /\ Mirror /\ OpenInv /\ "text" \notin strayed BY <1>3 DEF BooksInv, AccountInv, Live
  <2>2. dbtx # "auto" /\ table' = table BY <1>3 DEF DbCommit
  <2>3. strayed = {} /\ i \in OpenImports BY <1>1, <2>1, <2>2, InTransaction DEF OpenImports
  <2> QED BY <1>2, <2>1, <2>2, <2>3 DEF OpenInv, Pending
<1>4. /\ rows' = rows /\ UNCHANGED <<ran, strayed>> /\ (DbCommit \/ DbUndo \/ (dbtx = "auto" /\ UNCHANGED engine))
  BY <1>1, <1>2 DEF UndoneByCommit
<1>5. CASE DbCommit /\ Tell("import", i, "committed", n)
  <2>1. (Live /\ Tell("import", i, "committed", n)) => Count(table', ImportOwner(i)) = IF "committed" = "committed" THEN n ELSE 0
    BY <1>3, <1>5
  <2> QED BY <1>1, <1>4, <1>5, <2>1, RemoveImportKeeps
<1>6. CASE UNCHANGED told
  <2>1. \A end, m : Tell("import", i, end, m) => [kind |-> "import", id |-> i, end |-> end, n |-> m] \in told BY <1>6 DEF Tell
  <2>2. ASSUME Live, Tell("import", i, "committed", n) PROVE FALSE
    <3> DEFINE e == [kind |-> "import", id |-> i, end |-> "committed", n |-> n]
    <3>1. e \in told /\ ToldInv BY <2>1, <2>2 DEF BooksInv, AccountInv
    <3>2. Ended(e) BY <3>1 DEF ToldInv
    <3> QED BY <1>1, <3>2 DEF Ended
  <2>3. (Live /\ Tell("import", i, "committed", n)) => Count(table', ImportOwner(i)) = IF "committed" = "committed" THEN n ELSE 0
    BY <2>2
  <2> QED BY <1>1, <1>4, <1>6, <2>3, RemoveImportKeeps
<1>7. CASE UndoneByCommit /\ Tell("import", i, "committed after an error", n)
  <2>1. ASSUME Live PROVE Count(table', ImportOwner(i)) = 0
    <3>1. WorkInv /\ Mirror /\ OpenInv /\ "text" \notin strayed BY <2>1 DEF BooksInv, AccountInv, Live
    <3>2. dbtx # "auto" /\ table' = saved BY <1>7 DEF UndoneByCommit, DbUndo
    <3>3. strayed = {} /\ i \in OpenImports BY <1>1, <3>1, <3>2, InTransaction DEF OpenImports
    <3> QED BY <3>1, <3>2, <3>3 DEF OpenInv, Pending
  <2>2. (Live /\ Tell("import", i, "committed after an error", n))
          => Count(table', ImportOwner(i)) = IF "committed after an error" = "committed" THEN n ELSE 0
    BY <2>1
  <2> QED BY <1>1, <1>4, <1>7, <2>2, RemoveImportKeeps
<1> QED BY <1>1, <1>2, <1>5, <1>6, <1>7

\* data/import_abort
LEMMA ImportAbortKeeps == ASSUME BooksInv, worker = "open", worker' = worker, HandleDataImportAbort PROVE BooksInv'
<1>1. PICK i \in DOMAIN imports :
        /\ imports[i] # None /\ RemoveImport(i)
        /\ \/ DbUndo /\ Tell("import", i, "rolled back", 0)
           \/ dbtx = "auto" /\ UNCHANGED <<engine, told>>
        /\ UNCHANGED <<rows, got, read, ran, strayed>>
  BY DEF HandleDataImportAbort
<1>2. ASSUME Live PROVE Count(table', ImportOwner(i)) = 0
  <2>1. WorkInv /\ Mirror /\ OpenInv /\ "text" \notin strayed BY <1>2 DEF BooksInv, AccountInv, Live
  <2>2. i \in OpenImports BY <1>1 DEF OpenImports
  <2>3. dbtx # "auto" BY <2>1, <2>2 DEF Mirror
  <2>4. table' = saved BY <1>1, <2>3 DEF DbUndo
  <2>5. strayed = {} BY <2>1, <2>3, InTransaction
  <2> QED BY <2>1, <2>2, <2>4, <2>5 DEF OpenInv, Pending
<1>3. (Live /\ Tell("import", i, "rolled back", 0)) => Count(table', ImportOwner(i)) = IF "rolled back" = "committed" THEN 0 ELSE 0
  BY <1>2
<1>4. /\ rows' = rows /\ UNCHANGED <<ran, strayed>> /\ (DbCommit \/ DbUndo \/ (dbtx = "auto" /\ UNCHANGED engine))
      /\ told' = told \/ Tell("import", i, "rolled back", 0)
  BY <1>1
<1> QED BY <1>1, <1>3, <1>4, RemoveImportKeeps
-----------------------------------------------------------------------------
(* The worker *)

\* open_connection: whatever rows are there are nobody's.
LEMMA OpenConnectionKeeps == ASSUME BooksInv, OpenConnection PROVE BooksInv'
<1>1. EngineInv /\ WorkInv /\ AccountInv BY DEF BooksInv
<1>2. worker = "new" /\ worker' = "open" /\ UNCHANGED <<saved, dbtx, txs, active_tx, next_tx_id, imports, next_import_id, told, ran, strayed>>
  BY DEF OpenConnection, tables, heard
<1>3. PICK n \in 0..MaxRows : table' = [i \in 1..n |-> [id |-> i, by |-> Nobody]] /\ rows' = n BY DEF OpenConnection
<1>4. /\ table = <<>> /\ saved = <<>> /\ dbtx = "auto" /\ txs = {} /\ active_tx = 0 /\ imports = <<>>
      /\ told = {} /\ strayed = {}
  BY <1>1, <1>2 DEF AccountInv, NewInv
<1>5. n \in Nat BY DuckBounds
<1>6. table' \in Seq(TableRows) /\ Len(table') = n /\ DOMAIN table' = 1..n /\ \A i \in 1..n : table'[i].id = i /\ table'[i].by = Nobody
  <2>1. \A i \in 1..n : [id |-> i, by |-> Nobody] \in TableRows BY <1>5, OwnersDiffer DEF TableRows
  <2> QED BY <1>3, <1>5, <2>1
<1>7. EngineInv'
  <2>1. RowsIn(table', n) BY <1>5, <1>6 DEF RowsIn
  <2>2. RowsIn(<<>>, n) BY <1>5, RowsInEmpty
  <2> QED BY <1>2, <1>3, <1>4, <2>1, <2>2 DEF EngineInv
<1>8. WorkInv' BY <1>1, <1>2 DEF WorkInv
<1>9. \A o : o # Nobody => Count(table', o) = 0
  <2>1. \A o : o # Nobody => Owned(table', o) = {} BY <1>6 DEF Owned
  <2> QED BY <2>1, FS_EmptySet DEF Count
<1>10. FreshInv BY <1>1, <1>2, <1>4 DEF AccountInv, Live
<1>11. FreshInv' BY <1>2, <1>9, <1>10, OwnersDiffer DEF FreshInv, Fresh
<1>12. OpenImports' = {} BY <1>2, <1>4 DEF OpenImports
<1>13. Mirror' /\ ToldInv' /\ OpenInv' BY <1>2, <1>4, <1>12 DEF Mirror, ToldInv, OpenInv
<1>14. AccountInv' BY <1>2, <1>11, <1>13 DEF AccountInv, NewInv
<1> QED BY <1>7, <1>8, <1>14 DEF BooksInv

\* close(): the engine undoes what was open.
LEMMA CloseKeeps == ASSUME BooksInv, Close PROVE BooksInv'
<1>1. EngineInv /\ WorkInv /\ AccountInv BY DEF BooksInv
<1>2. /\ worker' = "closed" /\ rows' = rows /\ (DbUndo \/ (dbtx = "auto" /\ UNCHANGED engine))
      /\ UNCHANGED <<txs, active_tx, next_tx_id, imports, next_import_id, ran, strayed>>
  BY DEF Close, tables, heard
<1>3. EngineInv'
  <2>1. CASE DbUndo BY <1>1, <1>2, <2>1, EndKeeps
  <2>2. CASE UNCHANGED engine BY <1>1, <1>2, <2>2 DEF EngineInv, engine
  <2> QED BY <1>2, <2>1, <2>2
<1>4. WorkInv' BY <1>1, <1>2 DEF WorkInv
<1>5. AccountInv' BY <1>1, <1>2 DEF AccountInv, NewInv, Live
<1> QED BY <1>3, <1>4, <1>5 DEF BooksInv

\* Every request of the connection keeps the books.
LEMMA RequestKeepsBooks ==
  ASSUME BooksInv, worker = "open", worker' = worker, Request \/ HandleDataExport PROVE BooksInv'
<1>1. CASE \/ HandleQueryStart \/ HandleCursorFetch \/ HandleCursorCancel \/ HandleCursorClose
           \/ HandleStreamRead \/ HandleStreamClose \/ HandleDataExport
  <2>1. UNCHANGED <<engine, rows, account>>
    BY <1>1 DEF HandleQueryStart, HandleCursorFetch, HandleCursorCancel, HandleCursorClose, HandleStreamRead, HandleStreamClose,
                HandleDataExport, engine, heard, account
  <2> QED BY <2>1, QuietKeeps
<1>2. CASE \E tx \in 0..MaxTx : HandleExecRun(tx) BY <1>2, ExecRunKeeps
<1>3. CASE ExecTxControlText \/ HandleExecBatch \/ StatementFails BY <1>3, ExecTextKeeps, ExecBatchKeeps, StatementFailsKeeps
<1>4. CASE HandleTxBegin BY <1>4, TxBeginKeeps
<1>5. CASE \E tx \in 1..MaxTx : HandleTxCommit(tx) \/ HandleTxRollback(tx) BY <1>5, TxCommitKeeps, TxRollbackKeeps
<1>6. CASE HandleDataImportBegin \/ HandleDataImportChunk BY <1>6, ImportBeginKeeps, ImportChunkKeeps
<1>7. CASE HandleDataImportCommit \/ HandleDataImportAbort BY <1>7, ImportCommitKeeps, ImportAbortKeeps
<1> QED BY <1>1, <1>2, <1>3, <1>4, <1>5, <1>6, <1>7 DEF Request

\* The books at the start.
LEMMA InitBooks == Init => BooksInv
<1> SUFFICES ASSUME Init PROVE BooksInv OBVIOUS
<1>1. /\ worker = "new" /\ table = <<>> /\ saved = <<>> /\ dbtx = "auto" /\ imports = <<>> /\ next_import_id = 1
      /\ txs = {} /\ active_tx = 0 /\ next_tx_id = 1 /\ rows = 0 /\ ran = [tx \in 1..MaxTx |-> 0] /\ told = {} /\ strayed = {} /\ stable = {}
  BY DEF Init
<1>2. EngineInv BY <1>1, RowsInEmpty, DuckBounds DEF EngineInv
<1>3. WorkInv
  <2>1. <<>> \in Seq(DuckImports \cup {None}) /\ Len(<<>>) = 0 OBVIOUS
  <2> QED BY <1>1, <2>1 DEF WorkInv
<1>4. OpenImports = {} BY <1>1 DEF OpenImports
<1>5. FreshInv BY <1>1, CountEmpty DEF FreshInv, Fresh
<1>6. Mirror /\ ToldInv /\ OpenInv BY <1>1, <1>4 DEF Mirror, ToldInv, OpenInv
<1>7. AccountInv BY <1>1, <1>5, <1>6 DEF AccountInv, NewInv
<1> QED BY <1>2, <1>3, <1>7 DEF BooksInv
-----------------------------------------------------------------------------
(* Reading: the inductive invariant *)

\* A cursor or an export that goes on has rows left to ask for.
ReaderOK(c) == c.next \in 0..MaxRows /\ (c.max # NoLimit => c.next <= c.max) /\ (~c.done => RemainingMaxRows(c) # 0)

\* The header is written with the first page, if there is one.
HeaderOK(s) ==
  /\ s.csv /\ ~s.header_written => s.next = 0
  /\ ~s.csv => ~s.header_written
  /\ s.max = 0 => s.done /\ ~s.header_written
  /\ s.done /\ s.max # 0 => s.header_written = s.csv

\* What a cursor over table t has delivered, and what an export has.
CursorOK(c, delivered, t) ==
  /\ c.next <= Len(t) /\ delivered = SubSeq(t, 1, c.next)
  /\ c.done /\ ~c.cancelled => c.next = AtMost(Len(t), c.max)

Head1(s) == IF s.csv /\ s.header_written THEN Header ELSE <<>>
StreamOK(s, delivered, t) ==
  /\ s.next <= Len(t) /\ delivered \o s.pending = Head1(s) \o RenderRows(SubSeq(t, 1, s.next))
  /\ s.done => s.next = AtMost(Len(t), s.max)

CursorsInv ==
  /\ cursors \in Seq(DuckCursors \cup {None}) /\ next_cursor_id = Len(cursors) + 1
  /\ got \in Seq(Seq(TableRows)) /\ Len(got) = Len(cursors)
  /\ \A c \in DOMAIN cursors : cursors[c] # None => ReaderOK(cursors[c])
  /\ \A c \in DOMAIN cursors : IsStable("cursor", c) /\ cursors[c] # None => CursorOK(cursors[c], got[c], table)

StreamsInv ==
  /\ streams \in [StreamIds -> DuckStreams \cup {None}] /\ read \in [StreamIds -> Seq(Nat)]
  /\ \A s \in StreamIds : streams[s] # None => ReaderOK(streams[s]) /\ HeaderOK(streams[s])
  /\ \A s \in StreamIds : IsStable("stream", s) /\ streams[s] # None => StreamOK(streams[s], read[s], table)

ReadsInv == CursorsInv /\ StreamsInv
-----------------------------------------------------------------------------
(* Pages *)

\* The smaller of two numbers.
LEMMA AtMostIs ==
  ASSUME NEW n \in Nat, NEW m \in Nat
  PROVE  AtMost(n, m) = (IF n <= m THEN n ELSE m) /\ AtMost(n, NoLimit) = n /\ AtMost(n, m) \in Nat /\ AtMost(n, m) <= n /\ AtMost(n, m) <= m
<1>1. m # NoLimit BY DuckBounds
<1> QED BY <1>1 DEF AtMost

\* A page of the table is what follows the rows before it.
LEMMA PageIs ==
  ASSUME table \in Seq(TableRows), NEW limit \in Nat, NEW next \in Nat, NEW page, page = RunQueryPage(limit, next)
  PROVE  /\ page \in Seq(TableRows) /\ Len(page) \in Nat /\ Len(page) <= limit
         /\ Len(page) = 0 \/ next + Len(page) <= Len(table)
         /\ next <= Len(table) => /\ SubSeq(table, 1, next) \o page = SubSeq(table, 1, next + Len(page))
                                  /\ next + Len(page) <= Len(table)
                                  /\ Len(page) < limit => next + Len(page) = Len(table)
<1>1. PICK L \in Nat : L = Len(table) OBVIOUS
<1>0. PICK z \in Nat : z = next + limit OBVIOUS
<1>2. PICK b \in Nat : b = AtMost(z, L) BY AtMostIs
<1>3. b = (IF next + limit <= L THEN next + limit ELSE L)
  <2>1. AtMost(z, L) = IF z <= L THEN z ELSE L BY AtMostIs
  <2> QED BY <1>0, <1>2, <2>1
<1>4. page = SubSeq(table, next + 1, b) BY <1>0, <1>1, <1>2 DEF RunQueryPage
<1>5. CASE b <= next
  <2>1. page = <<>>
    <3>1. b < next + 1 /\ next + 1 \in Int /\ b \in Int BY <1>5
    <3> QED BY <1>4, <3>1, SubSeqEmpty
  <2>2. Len(page) = 0 /\ page \in Seq(TableRows) BY <2>1
  <2>3. ASSUME next <= L PROVE SubSeq(table, 1, next) \o page = SubSeq(table, 1, next)
    <3>1. SubSeq(table, 1, next) \in Seq(TableRows) BY <1>1, <2>3
    <3> QED BY <2>1, <3>1, ConcatEmptySeq
  <2>4. next <= L => (0 < limit => next + 0 = L) BY <1>3, <1>5
  <2>5. next + 0 = next OBVIOUS
  <2> QED BY <1>1, <2>2, <2>3, <2>4, <2>5
<1>6. CASE b > next
  <2>1. next < L /\ b <= L BY <1>3, <1>6
  <2>2. page \in Seq(TableRows) /\ Len(page) = b - next
    <3>1. \A i \in (next + 1)..b : table[i] \in TableRows BY <1>1, <2>1
    <3>2. PICK m \in Int : m = next + 1 OBVIOUS
    <3>3. SubSeq(table, m, b) \in Seq(TableRows) /\ Len(SubSeq(table, m, b)) = IF m <= b THEN b - m + 1 ELSE 0
      BY <3>1, <3>2, SubSeqProperties
    <3>4. (IF m <= b THEN b - m + 1 ELSE 0) = b - next BY <1>6, <3>2
    <3> QED BY <1>4, <3>2, <3>3, <3>4
  <2>3. SubSeq(table, 1, next) \o SubSeq(table, next + 1, b) = SubSeq(table, 1, b)
    <3>1. 1 \in 1..(Len(table) + 1) /\ next \in (1 - 1)..Len(table) /\ b \in next..Len(table) BY <1>1, <1>6, <2>1
    <3> QED BY <3>1, ConcatAdjacentSubSeq
  <2>4. PICK p \in Nat : p = Len(page) BY <2>2, <1>6
  <2>5. p = b - next BY <2>2, <2>4
  <2>6. next + p = b /\ p <= limit /\ next + p <= L /\ (p < limit => next + p = L) BY <1>3, <1>6, <2>5
  <2> QED BY <1>1, <1>4, <2>2, <2>3, <2>4, <2>6
<1> QED BY <1>5, <1>6

\* How far a page takes a reader.
LEMMA Moves ==
  ASSUME NEW x \in Nat, NEW f \in Nat, NEW r \in Nat, NEW m \in Nat, NEW L \in Nat, m > x, f <= r, r <= m - x
  PROVE  /\ x + f <= m /\ ((IF m > x + f THEN m - (x + f) ELSE 0) = 0 <=> x + f = m)
         /\ (x + f <= L /\ (f < r => x + f = L) /\ (f < r \/ x + f = m)) => x + f = IF L <= m THEN L ELSE m
OBVIOUS

\* A reader that goes on reads a page of at most what it may ask for.
LEMMA ReaderMoves ==
  ASSUME NEW c, NEW d, NEW f \in Nat, NEW r \in Nat, ReaderOK(c), ~c.done, c.max \in Nat \cup {NoLimit},
         f <= r, c.max # NoLimit => r <= RemainingMaxRows(c),
         c.next + f <= MaxRows, d.next = c.next + f, d.max = c.max, d.done <=> (f < r \/ RemainingMaxRows(d) = 0)
  PROVE  /\ ReaderOK(d)
         /\ \A L \in Nat : (c.next + f <= L /\ (f < r => c.next + f = L) /\ d.done) => d.next = AtMost(L, d.max)
<1>1. PICK x \in Nat : x = c.next BY DuckBounds DEF ReaderOK
<1>2. d.next = x + f /\ x + f \in 0..MaxRows BY <1>1, DuckBounds
<1>3. CASE c.max = NoLimit
  <2>1. RemainingMaxRows(d) = NoLimit /\ NoLimit # 0 BY <1>3, DuckBounds DEF RemainingMaxRows
  <2>2. ReaderOK(d) BY <1>2, <1>3, <2>1 DEF ReaderOK
  <2>3. \A L \in Nat : AtMost(L, NoLimit) = L BY DEF AtMost
  <2>4. d.done => f < r BY <2>1
  <2> QED BY <1>1, <1>2, <1>3, <2>2, <2>3, <2>4
<1>4. CASE c.max # NoLimit
  <2>1. PICK m \in Nat : m = c.max BY <1>4
  <2>2. RemainingMaxRows(c) = (IF m > x THEN m - x ELSE 0) /\ RemainingMaxRows(d) = (IF m > x + f THEN m - (x + f) ELSE 0)
    BY <1>1, <1>2, <1>4, <2>1 DEF RemainingMaxRows
  <2>3. RemainingMaxRows(c) # 0 BY DEF ReaderOK
  <2>4. m > x /\ r <= m - x BY <1>4, <2>2, <2>3
  <2>5. x + f <= m /\ (RemainingMaxRows(d) = 0 <=> x + f = m) BY <2>2, <2>4, Moves
  <2>6. ReaderOK(d) BY <1>2, <2>1, <2>5 DEF ReaderOK
  <2>7. ASSUME NEW L \in Nat, x + f <= L, f < r => x + f = L, d.done PROVE x + f = AtMost(L, m)
    <3>1. f < r \/ x + f = m BY <2>5, <2>7
    <3>2. x + f = IF L <= m THEN L ELSE m BY <2>4, <2>7, <3>1, Moves
    <3> QED BY <3>2, AtMostIs
  <2> QED BY <1>1, <1>2, <2>1, <2>6, <2>7
<1> QED BY <1>3, <1>4
-----------------------------------------------------------------------------
(* Cursors *)

\* A cursor is not nothing, and neither is an export.
LEMMA ReadersAreSome == (\A c \in DuckCursors : c # None) /\ (\A s \in DuckStreams : s # None)
<1>1. ASSUME NEW c \in DuckCursors PROVE c # None
  <2>1. c.kind = "cursor" /\ None.kind = "none" BY DEF DuckCursors, None
  <2> QED BY <2>1
<1>2. ASSUME NEW s \in DuckStreams PROVE s # None
  <2>1. s.kind = "stream" /\ None.kind = "none" BY DEF DuckStreams, None
  <2> QED BY <2>1
<1> QED BY <1>1, <1>2

\* What an advance changes.
LEMMA AdvanceCursor ==
  ASSUME NEW c \in DuckCursors, NEW f \in Nat, NEW r \in Nat, ~c.done, NEW d, d = Advance(c, f, r)
  PROVE  /\ d \in DuckCursors /\ d.next = c.next + f /\ d.max = c.max /\ d.cancelled = c.cancelled
         /\ d.done <=> (f < r \/ RemainingMaxRows(d) = 0)
<1> DEFINE moved == [c EXCEPT !.next = c.next + f]
           done == c.done \/ f < r \/ RemainingMaxRows(moved) = 0
<1>1. c.next + f \in Nat BY DEF DuckCursors
<1>2. moved \in DuckCursors /\ moved.next = c.next + f /\ moved.max = c.max /\ moved.cancelled = c.cancelled /\ moved.done = c.done
  BY <1>1 DEF DuckCursors
<1>3. d = [moved EXCEPT !.done = done] BY <1>2 DEF Advance
<1>4. done \in BOOLEAN OBVIOUS
<1> HIDE DEF moved, done
<1>5. d \in DuckCursors /\ d.next = moved.next /\ d.max = moved.max /\ d.cancelled = moved.cancelled /\ d.done = done
  BY <1>2, <1>3, <1>4 DEF DuckCursors
<1>6. RemainingMaxRows(d) = RemainingMaxRows(moved) BY <1>5 DEF RemainingMaxRows
<1> QED BY <1>2, <1>5, <1>6 DEF done

\* The size of a page is a number, and what the cursor may still ask for.
LEMMA FetchLimit ==
  ASSUME NEW c \in DuckCursors, ReaderOK(c), NEW n \in Nat
  PROVE  CursorFetchLimit(c, n) \in Nat /\ (c.max # NoLimit => CursorFetchLimit(c, n) <= RemainingMaxRows(c))
<1>1. PICK k \in Nat : k = AtMost(n, MaxFetch) BY AtMostIs, DuckBounds
<1>2. CASE c.max = NoLimit
  <2>1. RemainingMaxRows(c) = NoLimit BY <1>2 DEF RemainingMaxRows
  <2>2. AtMost(k, NoLimit) = k BY DEF AtMost
  <2> QED BY <1>1, <1>2, <2>1, <2>2 DEF CursorFetchLimit
<1>3. CASE c.max # NoLimit
  <2>1. PICK q \in Nat : q = RemainingMaxRows(c) BY <1>3 DEF RemainingMaxRows, DuckCursors, ReaderOK
  <2>2. AtMost(k, q) \in Nat /\ AtMost(k, q) <= q BY AtMostIs
  <2> QED BY <1>1, <1>3, <2>1, <2>2 DEF CursorFetchLimit
<1> QED BY <1>2, <1>3

\* A fetch continues where the last one ended.
LEMMA FetchOK ==
  ASSUME table \in Seq(TableRows), Len(table) <= MaxRows, NEW c \in DuckCursors, ReaderOK(c), NEW n \in Nat,
         NEW g \in Seq(TableRows)
  PROVE  LET fetched == FetchCursorPage(c, n) IN
         /\ fetched.cursor \in DuckCursors /\ ReaderOK(fetched.cursor) /\ fetched.rows \in Seq(TableRows)
         /\ CursorOK(c, g, table) => CursorOK(fetched.cursor, g \o fetched.rows, table)
<1> DEFINE limit == CursorFetchLimit(c, n)
           page == RunQueryPage(limit, c.next)
           d == Advance(c, Len(page), limit)
           fetched == FetchCursorPage(c, n)
<1>1. CASE c.done \/ limit = 0
  <2>1. fetched.rows = <<>> /\ fetched.cursor = c BY <1>1 DEF FetchCursorPage
  <2>2. g \o <<>> = g /\ <<>> \in Seq(TableRows) BY ConcatEmptySeq
  <2> QED BY <2>1, <2>2
<1>2. CASE ~(c.done \/ limit = 0)
  <2>1. fetched.rows = page /\ fetched.cursor = d BY <1>2 DEF FetchCursorPage
  <2>2. limit \in Nat /\ (c.max # NoLimit => limit <= RemainingMaxRows(c)) BY FetchLimit
  <2>3. c.next \in Nat /\ c.max \in Nat \cup {NoLimit} BY DEF DuckCursors
  <2> HIDE DEF limit
  <2>4. PICK x \in Nat : x = c.next BY <2>3
  <2>5. PICK L \in Nat : L = Len(table) OBVIOUS
  <2>6. /\ page \in Seq(TableRows) /\ Len(page) \in Nat /\ Len(page) <= limit
        /\ Len(page) = 0 \/ x + Len(page) <= L
        /\ x <= L => /\ SubSeq(table, 1, x) \o page = SubSeq(table, 1, x + Len(page))
                     /\ x + Len(page) <= L
                     /\ Len(page) < limit => x + Len(page) = L
    <3>1. page = RunQueryPage(limit, x) BY <2>4
    <3> HIDE DEF page
    <3> QED BY <2>2, <2>5, <3>1, PageIs
  <2> HIDE DEF page
  <2>7. PICK f \in Nat : f = Len(page) BY <2>6
  <2>8. x + f <= MaxRows
    <3>1. x <= MaxRows /\ L <= MaxRows BY <2>4, <2>5, DuckBounds DEF ReaderOK
    <3>2. f = 0 \/ x + f <= L BY <2>6, <2>7
    <3> QED BY <3>1, <3>2, DuckBounds
  <2>9. /\ d \in DuckCursors /\ d.next = c.next + f /\ d.max = c.max /\ d.cancelled = c.cancelled
        /\ d.done <=> (f < limit \/ RemainingMaxRows(d) = 0)
    BY <1>2, <2>2, <2>7, AdvanceCursor DEF limit
  <2> HIDE DEF d
  <2>10. f <= limit /\ ~c.done /\ c.next + f <= MaxRows BY <1>2, <2>4, <2>6, <2>7, <2>8
  <2>11. /\ ReaderOK(d)
         /\ \A K \in Nat : (c.next + f <= K /\ (f < limit => c.next + f = K) /\ d.done) => d.next = AtMost(K, d.max)
    BY <2>2, <2>3, <2>9, <2>10, ReaderMoves
  <2>12. ASSUME CursorOK(c, g, table) PROVE CursorOK(d, g \o page, table)
    <3>1. x <= L /\ g = SubSeq(table, 1, x) BY <2>4, <2>5, <2>12 DEF CursorOK
    <3>2. g \o page = SubSeq(table, 1, x + f) /\ x + f <= L /\ (f < limit => x + f = L) BY <2>6, <2>7, <3>1
    <3>3. d.next = x + f BY <2>4, <2>9
    <3>4. d.done => d.next = AtMost(L, d.max) BY <2>4, <2>11, <3>2
    <3> QED BY <2>5, <3>2, <3>3, <3>4 DEF CursorOK
  <2> QED BY <2>1, <2>6, <2>9, <2>11, <2>12
<1> QED BY <1>1, <1>2
-----------------------------------------------------------------------------
(* Exports *)

\* Bytes are put together in any grouping.
LEMMA BytesAssociate == \A a, b, c \in Seq(Nat) : (a \o b) \o c = a \o (b \o c)
<1> TAKE a, b, c \in Seq(Nat)
<1> QED BY SMTT(30)

\* Rendering a page gives two bytes for every row.
LEMMA RenderIs ==
  ASSUME NEW q \in Seq(TableRows)
  PROVE  /\ RenderRows(q) \in Seq(Nat) /\ Len(RenderRows(q)) = 2 * Len(q)
         /\ \A i \in 1..(2 * Len(q)) : RenderRows(q)[i] = q[(i + 1) \div 2].id /\ (i + 1) \div 2 \in 1..Len(q)
<1>1. PICK L \in Nat : L = Len(q) OBVIOUS
<1>2. \A i \in 1..(2 * L) : (i + 1) \div 2 \in 1..L OBVIOUS
<1>3. \A i \in 1..L : q[i].id \in Nat
  <2>1. \A i \in 1..L : q[i] \in TableRows BY <1>1
  <2> QED BY <2>1 DEF TableRows
<1>4. 2 * L \in Nat OBVIOUS
<1>5. \A i \in 1..(2 * L) : q[(i + 1) \div 2].id \in Nat BY <1>2, <1>3
<1>6. RenderRows(q) = [i \in 1..(2 * L) |-> q[(i + 1) \div 2].id] BY <1>1 DEF RenderRows
<1>7. RenderRows(q) \in Seq(Nat) /\ Len(RenderRows(q)) = 2 * L BY <1>4, <1>5, <1>6
<1> QED BY <1>1, <1>2, <1>6, <1>7

\* No row, no byte.
LEMMA RenderEmpty == RenderRows(<<>>) = <<>>
<1>1. <<>> \in Seq(TableRows) /\ Len(<<>>) = 0 OBVIOUS
<1>2. RenderRows(<<>>) \in Seq(Nat) /\ Len(RenderRows(<<>>)) = 2 * 0 BY <1>1, RenderIs
<1> QED BY <1>2

\* Two pages are rendered one after the other.
LEMMA RenderConcat ==
  ASSUME NEW q \in Seq(TableRows), NEW r \in Seq(TableRows) PROVE RenderRows(q \o r) = RenderRows(q) \o RenderRows(r)
<1>1. PICK L \in Nat : L = Len(q) OBVIOUS
<1>2. PICK K \in Nat : K = Len(r) OBVIOUS
<1>3. q \o r \in Seq(TableRows) /\ Len(q \o r) = L + K /\ (\A i \in 1..L : (q \o r)[i] = q[i])
      /\ \A i \in 1..(L + K) : i > L => i - L \in 1..K /\ (q \o r)[i] = r[i - L]
  BY <1>1, <1>2
<1> DEFINE A == RenderRows(q)
           B == RenderRows(r)
           C == RenderRows(q \o r)
<1>4. A \in Seq(Nat) /\ Len(A) = 2 * L /\ \A i \in 1..(2 * L) : A[i] = q[(i + 1) \div 2].id /\ (i + 1) \div 2 \in 1..L BY <1>1, RenderIs
<1>5. B \in Seq(Nat) /\ Len(B) = 2 * K /\ \A i \in 1..(2 * K) : B[i] = r[(i + 1) \div 2].id /\ (i + 1) \div 2 \in 1..K BY <1>2, RenderIs
<1>6. C \in Seq(Nat) /\ Len(C) = 2 * (L + K) /\ \A i \in 1..(2 * (L + K)) : C[i] = (q \o r)[(i + 1) \div 2].id /\ (i + 1) \div 2 \in 1..(L + K)
  BY <1>3, RenderIs
<1> HIDE DEF A, B, C
<1>7. A \o B \in Seq(Nat) /\ Len(A \o B) = 2 * L + 2 * K /\ (\A i \in 1..(2 * L) : (A \o B)[i] = A[i])
      /\ \A i \in 1..(2 * L + 2 * K) : i > 2 * L => i - 2 * L \in 1..(2 * K) /\ (A \o B)[i] = B[i - 2 * L]
  <2>1. PICK a \in Nat : a = 2 * L OBVIOUS
  <2>2. PICK b \in Nat : b = 2 * K OBVIOUS
  <2>3. A \in Seq(Nat) /\ B \in Seq(Nat) /\ Len(A) = a /\ Len(B) = b BY <1>4, <1>5, <2>1, <2>2
  <2>4. A \o B \in Seq(Nat) /\ Len(A \o B) = a + b /\ (\A i \in 1..a : (A \o B)[i] = A[i])
        /\ \A i \in 1..(a + b) : i > a => i - a \in 1..b /\ (A \o B)[i] = B[i - a]
    <3>1. A \o B \in Seq(Nat) /\ Len(A \o B) = a + b /\ \A i \in 1..(a + b) : (A \o B)[i] = IF i <= a THEN A[i] ELSE B[i - a]
      BY <2>3, ConcatProperties
    <3>2. \A i \in 1..a : i \in 1..(a + b) /\ i <= a OBVIOUS
    <3>3. \A i \in 1..(a + b) : i > a => i - a \in 1..b /\ ~(i <= a) OBVIOUS
    <3> QED BY <3>1, <3>2, <3>3
  <2> QED BY <2>1, <2>2, <2>4
<1>8. ASSUME NEW i \in 1..(2 * L + 2 * K) PROVE C[i] = (A \o B)[i]
  <2>1. i \in 1..(2 * (L + K)) OBVIOUS
  <2>2. C[i] = (q \o r)[(i + 1) \div 2].id /\ (i + 1) \div 2 \in 1..(L + K) BY <1>6, <2>1
  <2>3. CASE i <= 2 * L
    <3>1. i \in 1..(2 * L) BY <2>3
    <3>2. (A \o B)[i] = q[(i + 1) \div 2].id /\ (i + 1) \div 2 \in 1..L BY <1>4, <1>7, <3>1
    <3> QED BY <1>3, <2>2, <3>2
  <2>4. CASE i > 2 * L
    <3>1. i - 2 * L \in 1..(2 * K) /\ (A \o B)[i] = B[i - 2 * L] BY <1>7, <2>4
    <3>2. B[i - 2 * L] = r[((i - 2 * L) + 1) \div 2].id BY <1>5, <3>1
    <3>3. ((i - 2 * L) + 1) \div 2 = (i + 1) \div 2 - L /\ (i + 1) \div 2 > L BY <2>4
    <3>4. (q \o r)[(i + 1) \div 2] = r[(i + 1) \div 2 - L] BY <1>3, <2>2, <3>3
    <3> QED BY <2>2, <3>1, <3>2, <3>3, <3>4
  <2>5. i <= 2 * L \/ i > 2 * L OBVIOUS
  <2> QED BY <2>3, <2>4, <2>5
<1>9. C = A \o B
  <2>1. PICK n \in Nat : n = 2 * L + 2 * K OBVIOUS
  <2>2. C \in Seq(Nat) /\ Len(C) = n /\ A \o B \in Seq(Nat) /\ Len(A \o B) = n
    <3>1. 2 * (L + K) = 2 * L + 2 * K OBVIOUS
    <3> QED BY <1>6, <1>7, <2>1, <3>1
  <2>3. \A i \in 1..n : C[i] = (A \o B)[i] BY <1>8, <2>1
  <2> HIDE DEF A, B, C
  <2> QED BY <2>2, <2>3, SeqEqual
<1> QED BY <1>9 DEF A, B, C

\* What an advance changes in an export.
LEMMA AdvanceStream ==
  ASSUME NEW c \in DuckStreams, NEW f \in Nat, NEW r \in Nat, ~c.done, NEW d, d = Advance(c, f, r)
  PROVE  /\ d \in DuckStreams /\ d.next = c.next + f /\ d.max = c.max /\ d.csv = c.csv
         /\ d.header_written = c.header_written /\ d.pending = c.pending
         /\ d.done <=> (f < r \/ RemainingMaxRows(d) = 0)
<1> DEFINE moved == [c EXCEPT !.next = c.next + f]
           done == c.done \/ f < r \/ RemainingMaxRows(moved) = 0
<1>1. c.next + f \in Nat BY DEF DuckStreams
<1>2. /\ moved \in DuckStreams /\ moved.next = c.next + f /\ moved.max = c.max /\ moved.csv = c.csv
      /\ moved.header_written = c.header_written /\ moved.pending = c.pending /\ moved.done = c.done
  BY <1>1 DEF DuckStreams
<1>3. d = [moved EXCEPT !.done = done] BY <1>2 DEF Advance
<1>4. done \in BOOLEAN OBVIOUS
<1> HIDE DEF moved, done
<1>5. /\ d \in DuckStreams /\ d.next = moved.next /\ d.max = moved.max /\ d.csv = moved.csv
      /\ d.header_written = moved.header_written /\ d.pending = moved.pending /\ d.done = done
  BY <1>2, <1>3, <1>4 DEF DuckStreams
<1>6. RemainingMaxRows(d) = RemainingMaxRows(moved) BY <1>5 DEF RemainingMaxRows
<1> QED BY <1>2, <1>5, <1>6 DEF done

\* The size of a page of an export.
LEMMA FillLimit ==
  ASSUME NEW s \in DuckStreams, ReaderOK(s)
  PROVE  /\ AtMost(ExportFetchRows, RemainingMaxRows(s)) \in Nat
         /\ s.max # NoLimit => AtMost(ExportFetchRows, RemainingMaxRows(s)) <= RemainingMaxRows(s)
<1>1. PICK k \in Nat : k = ExportFetchRows BY DuckBounds
<1>2. CASE s.max = NoLimit
  <2>1. RemainingMaxRows(s) = NoLimit BY <1>2 DEF RemainingMaxRows
  <2>2. AtMost(k, NoLimit) = k BY DEF AtMost
  <2> QED BY <1>1, <1>2, <2>1, <2>2
<1>3. CASE s.max # NoLimit
  <2>1. PICK q \in Nat : q = RemainingMaxRows(s) BY <1>3 DEF RemainingMaxRows, DuckStreams, ReaderOK
  <2>2. AtMost(k, q) \in Nat /\ AtMost(k, q) <= q BY AtMostIs
  <2> QED BY <1>1, <1>3, <2>1, <2>2
<1> QED BY <1>2, <1>3

\* A page that is filled in continues what was rendered, after a header if it is the
\* first of a CSV file.
LEMMA FillOK ==
  ASSUME table \in Seq(TableRows), Len(table) <= MaxRows, NEW s \in DuckStreams, ReaderOK(s), HeaderOK(s), NeedsFill(s),
         NEW r \in Seq(Nat)
  PROVE  LET d == FillStreamBuffer(s) IN
         /\ d \in DuckStreams /\ ReaderOK(d) /\ HeaderOK(d)
         /\ StreamOK(s, r, table) => StreamOK(d, r, table)
<1> DEFINE limit == AtMost(ExportFetchRows, RemainingMaxRows(s))
           page == RunQueryPage(limit, s.next)
           head == IF s.csv /\ ~s.header_written THEN Header ELSE <<>>
           bytes == s.pending \o head \o RenderRows(page)
           c == [s EXCEPT !.pending = bytes, !.header_written = s.csv]
           d == FillStreamBuffer(s)
<1>1. limit \in Nat /\ (s.max # NoLimit => limit <= RemainingMaxRows(s)) BY FillLimit
<1>2. /\ s.next \in Nat /\ s.max \in Nat \cup {NoLimit} /\ s.csv \in BOOLEAN /\ s.header_written \in BOOLEAN
      /\ s.pending = <<>> /\ ~s.done
  BY DEF DuckStreams, NeedsFill
<1>3. PICK x \in Nat : x = s.next BY <1>2
<1>4. PICK L \in Nat : L = Len(table) OBVIOUS
<1> HIDE DEF limit
<1>5. /\ page \in Seq(TableRows) /\ Len(page) \in Nat /\ Len(page) <= limit
      /\ Len(page) = 0 \/ x + Len(page) <= L
      /\ x <= L => /\ SubSeq(table, 1, x) \o page = SubSeq(table, 1, x + Len(page))
                   /\ x + Len(page) <= L
                   /\ Len(page) < limit => x + Len(page) = L
  <2>1. page = RunQueryPage(limit, x) BY <1>3
  <2> HIDE DEF page, head, bytes, c, d
  <2> QED BY <1>1, <1>4, <2>1, PageIs
<1> HIDE DEF page
<1>6. PICK f \in Nat : f = Len(page) BY <1>5
<1>7. x + f <= MaxRows
  <2>1. x <= MaxRows /\ L <= MaxRows BY <1>3, <1>4, DuckBounds DEF ReaderOK
  <2>2. f = 0 \/ x + f <= L BY <1>5, <1>6
  <2> QED BY <2>1, <2>2, DuckBounds
<1>8. head \in Seq(Nat) /\ RenderRows(page) \in Seq(Nat) /\ bytes = head \o RenderRows(page) /\ bytes \in Seq(Nat)
  <2>1. head \in Seq(Nat) BY DEF Header
  <2>2. RenderRows(page) \in Seq(Nat) BY <1>5, RenderIs
  <2> HIDE DEF head
  <2>3. <<>> \o head = head BY <2>1, ConcatEmptySeq
  <2>4. head \o RenderRows(page) \in Seq(Nat) BY <2>1, <2>2, ConcatProperties
  <2> QED BY <1>2, <2>1, <2>2, <2>3, <2>4
<1> HIDE DEF bytes
<1>9. /\ c \in DuckStreams /\ c.next = s.next /\ c.max = s.max /\ c.csv = s.csv /\ c.done = s.done
      /\ c.header_written = s.csv /\ c.pending = bytes
  BY <1>2, <1>8 DEF DuckStreams
<1>10. d = Advance(c, f, limit) BY <1>6 DEF FillStreamBuffer, limit, page, bytes
<1> HIDE DEF c, d
<1>11. /\ d \in DuckStreams /\ d.next = s.next + f /\ d.max = s.max /\ d.csv = s.csv
       /\ d.header_written = s.csv /\ d.pending = bytes
       /\ d.done <=> (f < limit \/ RemainingMaxRows(d) = 0)
  <2>1. ~c.done BY <1>2, <1>9
  <2>2. /\ d \in DuckStreams /\ d.next = c.next + f /\ d.max = c.max /\ d.csv = c.csv
        /\ d.header_written = c.header_written /\ d.pending = c.pending
        /\ d.done <=> (f < limit \/ RemainingMaxRows(d) = 0)
    BY <1>1, <1>9, <1>10, <2>1, AdvanceStream
  <2> QED BY <1>9, <2>2
<1>12. f <= limit /\ ~s.done /\ s.next + f <= MaxRows BY <1>2, <1>3, <1>5, <1>6, <1>7
<1>13. /\ ReaderOK(d)
       /\ \A K \in Nat : (s.next + f <= K /\ (f < limit => s.next + f = K) /\ d.done) => d.next = AtMost(K, d.max)
  <2>1. s.max \in Nat \cup {NoLimit} BY <1>2
  <2>2. d.next = s.next + f /\ d.max = s.max /\ (d.done <=> (f < limit \/ RemainingMaxRows(d) = 0)) BY <1>11
  <2>3. f \in Nat /\ limit \in Nat /\ ReaderOK(s) /\ (s.max # NoLimit => limit <= RemainingMaxRows(s)) BY <1>1
  <2> HIDE DEF head
  <2> QED BY ONLY <1>12, <2>1, <2>2, <2>3, ReaderMoves
<1>14. HeaderOK(d) BY <1>2, <1>11 DEF HeaderOK
<1>15. ASSUME StreamOK(s, r, table) PROVE StreamOK(d, r, table)
  <2>1. x <= L /\ r \o s.pending = Head1(s) \o RenderRows(SubSeq(table, 1, x)) BY <1>3, <1>4, <1>15 DEF StreamOK
  <2>2. /\ SubSeq(table, 1, x) \o page = SubSeq(table, 1, x + f) /\ x + f <= L /\ (f < limit => x + f = L)
    BY <1>5, <1>6, <2>1
  <2>3. d.next = x + f BY <1>3, <1>11
  <2>4. d.done => d.next = AtMost(L, d.max) BY <1>3, <1>13, <2>2
  <2>5. SubSeq(table, 1, x) \in Seq(TableRows) BY <1>4, <2>1
  <2> DEFINE old == RenderRows(SubSeq(table, 1, x))
             new == RenderRows(page)
  <2>6. old \in Seq(Nat) /\ new \in Seq(Nat) BY <1>8, <2>5, RenderIs
  <2>7. RenderRows(SubSeq(table, 1, x + f)) = old \o new BY <1>5, <2>2, <2>5, RenderConcat
  <2>8. r = Head1(s) \o old
    <3>1. r \o <<>> = r BY ConcatEmptySeq
    <3> QED BY <1>2, <2>1, <3>1
  <2>9. Head1(d) = IF s.csv THEN Header ELSE <<>> BY <1>11 DEF Head1
  <2>10. Header \in Seq(Nat) /\ <<>> \in Seq(Nat) BY DEF Header
  <2> HIDE DEF old, new
  <2>11. ASSUME s.csv /\ ~s.header_written PROVE r \o bytes = Head1(d) \o (old \o new)
    <3>1. old = <<>>
      <4>1. x = 0 BY <1>3, <2>11 DEF HeaderOK
      <4>2. SubSeq(table, 1, 0) = <<>> BY SubSeqEmpty
      <4> QED BY <4>1, <4>2, RenderEmpty DEF old
    <3>2. Head1(s) = <<>> /\ head = Header /\ Head1(d) = Header BY <2>9, <2>11 DEF Head1
    <3>3. r = <<>> /\ old \o new = new /\ <<>> \o bytes = bytes
      <4>1. <<>> \o <<>> = <<>> BY <2>10, ConcatEmptySeq
      <4>2. <<>> \o new = new /\ <<>> \o bytes = bytes BY <1>8, <2>6, ConcatEmptySeq
      <4> QED BY <2>8, <3>1, <3>2, <4>1, <4>2
    <3>4. bytes = Header \o new BY <1>8, <3>2 DEF new
    <3> QED BY <3>2, <3>3, <3>4
  <2>12. ASSUME ~(s.csv /\ ~s.header_written) PROVE r \o bytes = Head1(d) \o (old \o new)
    <3>1. head = <<>> /\ Head1(d) = Head1(s) /\ Head1(s) \in Seq(Nat) BY <2>9, <2>10, <2>12 DEF Head1
    <3>2. bytes = new
      <4>1. <<>> \o new = new BY <2>6, ConcatEmptySeq
      <4> QED BY <1>8, <3>1, <4>1 DEF new
    <3>3. (Head1(s) \o old) \o new = Head1(s) \o (old \o new) 
      <4>1. PICK h \in Seq(Nat) : h = Head1(s) BY <3>1
      <4>2. (h \o old) \o new = h \o (old \o new) BY <2>6, BytesAssociate
      <4> QED BY <4>1, <4>2
    <3> QED BY <2>8, <3>1, <3>2, <3>3
  <2>13. r \o bytes = Head1(d) \o (old \o new) BY <2>11, <2>12
  <2> QED BY <1>4, <1>11, <2>2, <2>3, <2>4, <2>7, <2>13 DEF StreamOK
<1> QED BY <1>11, <1>13, <1>14, <1>15 DEF d

\* A read takes the bytes at the front of what is pending, and loses none.
LEMMA DrainOK ==
  ASSUME NEW s \in DuckStreams, ReaderOK(s), HeaderOK(s), NEW n \in Nat, NEW r \in Seq(Nat)
  PROVE  LET drained == DrainPending(s, n) IN
         /\ drained.stream \in DuckStreams /\ ReaderOK(drained.stream) /\ HeaderOK(drained.stream) /\ drained.bytes \in Seq(Nat)
         /\ StreamOK(s, r, table) => StreamOK(drained.stream, r \o drained.bytes, table)
<1>1. PICK p \in Seq(Nat) : p = s.pending BY DEF DuckStreams
<1>2. PICK K \in Nat : K = Len(p) OBVIOUS
<1>3. PICK k \in Nat : k = AtMost(n, K) /\ k <= K BY AtMostIs
<1> DEFINE bytes == SubSeq(p, 1, k)
           left == SubSeq(p, k + 1, K)
           d == [s EXCEPT !.pending = left]
<1>4. bytes \in Seq(Nat) /\ left \in Seq(Nat) /\ bytes \o left = p
  <2>1. \A i \in 1..k : p[i] \in Nat BY <1>2, <1>3
  <2>2. \A i \in (k + 1)..K : p[i] \in Nat BY <1>2, <1>3
  <2>3. bytes \in Seq(Nat) BY <2>1, SubSeqProperties
  <2>4. left \in Seq(Nat)
    <3>1. PICK m \in Int : m = k + 1 OBVIOUS
    <3> QED BY <2>2, <3>1, SubSeqProperties
  <2>5. bytes \o left = SubSeq(p, 1, K)
    <3>1. 1 \in 1..(Len(p) + 1) /\ k \in (1 - 1)..Len(p) /\ K \in k..Len(p) BY <1>2, <1>3
    <3> QED BY <3>1, ConcatAdjacentSubSeq
  <2>6. SubSeq(p, 1, K) = p BY <1>2, SubSeqFull
  <2> QED BY <2>3, <2>4, <2>5, <2>6
<1>5. DrainPending(s, n).bytes = bytes /\ DrainPending(s, n).stream = d
  <2>1. AtMost(n, Len(s.pending)) = k /\ Len(s.pending) = K BY <1>1, <1>2, <1>3
  <2>2. DrainPending(s, n) = [bytes |-> bytes, stream |-> d] BY <1>1, <2>1 DEF DrainPending, DuckStreams
  <2> HIDE DEF bytes, d
  <2> QED BY <2>2
<1> HIDE DEF bytes, left
<1>6. /\ d \in DuckStreams /\ d.next = s.next /\ d.max = s.max /\ d.csv = s.csv /\ d.done = s.done
      /\ d.header_written = s.header_written /\ d.pending = left
  BY <1>4 DEF DuckStreams
<1> HIDE DEF d
<1>7. RemainingMaxRows(d) = RemainingMaxRows(s) BY <1>6 DEF RemainingMaxRows
<1>8. ReaderOK(d) /\ HeaderOK(d) BY <1>6, <1>7 DEF ReaderOK, HeaderOK
<1>9. (r \o bytes) \o left = r \o p
  <2>1. PICK u \in Seq(Nat), v \in Seq(Nat) : u = bytes /\ v = left BY <1>4
  <2>2. (r \o u) \o v = r \o (u \o v) BY BytesAssociate
  <2> QED BY <1>4, <2>1, <2>2
<1>10. Head1(d) = Head1(s) BY <1>6 DEF Head1
<1>11. StreamOK(s, r, table) => StreamOK(d, r \o bytes, table) BY <1>1, <1>6, <1>9, <1>10 DEF StreamOK
<1> QED BY <1>4, <1>5, <1>6, <1>8, <1>11
-----------------------------------------------------------------------------
(* Reading is kept *)

\* The names of readers in "stable", after a request.
CursorName(c) == [kind |-> "cursor", id |-> c]
StreamName(s) == [kind |-> "stream", id |-> s]
StableNext ==
  stable' = IF table' = table
            THEN stable \cup {[kind |-> "cursor", id |-> c] : c \in DOMAIN cursors' \ DOMAIN cursors}
            ELSE {}

\* A cursor that is stable was stable already or is new; an export was stable.
LEMMA StableIs ==
  ASSUME StableNext
  PROVE  /\ \A c : CursorName(c) \in stable' => table' = table /\ (CursorName(c) \in stable \/ c \in DOMAIN cursors' \ DOMAIN cursors)
         /\ \A s : StreamName(s) \in stable' => table' = table /\ StreamName(s) \in stable
<1>1. ASSUME NEW c, CursorName(c) \in stable'
      PROVE  table' = table /\ (CursorName(c) \in stable \/ c \in DOMAIN cursors' \ DOMAIN cursors)
  <2>1. table' = table /\ (CursorName(c) \in stable \/ \E b \in DOMAIN cursors' \ DOMAIN cursors : CursorName(c) = CursorName(b))
    BY <1>1 DEF StableNext, CursorName
  <2>2. \A b : CursorName(c).id = c /\ CursorName(b).id = b BY DEF CursorName
  <2> QED BY <2>1, <2>2
<1>2. ASSUME NEW s, StreamName(s) \in stable' PROVE table' = table /\ StreamName(s) \in stable
  <2>1. table' = table /\ (StreamName(s) \in stable \/ \E b \in DOMAIN cursors' \ DOMAIN cursors : StreamName(s) = CursorName(b))
    BY <1>2 DEF StableNext, CursorName
  <2>2. \A b : StreamName(s).kind = "stream" /\ CursorName(b).kind = "cursor" BY DEF CursorName, StreamName
  <2> QED BY <2>1, <2>2
<1> QED BY <1>1, <1>2

\* Requests that touch no cursor, and requests that touch no export.
LEMMA CursorsStay ==
  ASSUME CursorsInv, UNCHANGED <<cursors, next_cursor_id, got>>,
         \A c : CursorName(c) \in stable' => table' = table /\ CursorName(c) \in stable
  PROVE  CursorsInv'
BY DEF CursorsInv, IsStable, CursorName

LEMMA StreamsStay ==
  ASSUME StreamsInv, UNCHANGED <<streams, read>>, \A s : StreamName(s) \in stable' => table' = table /\ StreamName(s) \in stable
  PROVE  StreamsInv'
BY DEF StreamsInv, IsStable, StreamName

\* One cursor is replaced.
LEMMA CursorMoves ==
  ASSUME CursorsInv, StableNext, NEW c \in DOMAIN cursors, NEW d \in DuckCursors \cup {None}, NEW g \in Seq(TableRows),
         cursors' = [cursors EXCEPT ![c] = d], got' = [got EXCEPT ![c] = g], UNCHANGED <<table, next_cursor_id>>,
         d # None => ReaderOK(d), d # None /\ CursorOK(cursors[c], got[c], table) => CursorOK(d, g, table), cursors[c] # None
  PROVE  CursorsInv'
<1>1. /\ cursors' \in Seq(DuckCursors \cup {None}) /\ Len(cursors') = Len(cursors) /\ DOMAIN cursors' = DOMAIN cursors
      /\ cursors'[c] = d /\ \A b \in DOMAIN cursors : b # c => cursors'[b] = cursors[b]
  BY DEF CursorsInv
<1>2. /\ got' \in Seq(Seq(TableRows)) /\ Len(got') = Len(got) /\ got'[c] = g
      /\ \A b \in DOMAIN cursors : b # c => got'[b] = got[b]
  BY DEF CursorsInv
<1>3. \A b \in DOMAIN cursors' : cursors'[b] # None => ReaderOK(cursors'[b])
  BY <1>1 DEF CursorsInv
<1>4. ASSUME NEW b \in DOMAIN cursors', CursorName(b) \in stable', cursors'[b] # None PROVE CursorOK(cursors'[b], got'[b], table')
  <2>1. CursorName(b) \in stable BY <1>1, <1>4, StableIs
  <2>2. cursors[b] # None => CursorOK(cursors[b], got[b], table) BY <1>1, <2>1 DEF CursorsInv, IsStable, CursorName
  <2> QED BY <1>1, <1>2, <1>4, <2>2
<1> QED BY <1>1, <1>2, <1>3, <1>4 DEF CursorsInv, IsStable, CursorName

\* One export is replaced, and may become stable.
LEMMA StreamMoves ==
  ASSUME StreamsInv, NEW s \in StreamIds, NEW d \in DuckStreams \cup {None}, NEW g \in Seq(Nat),
         streams' = [streams EXCEPT ![s] = d], read' = [read EXCEPT ![s] = g], table' = table,
         d # None => ReaderOK(d) /\ HeaderOK(d),
         \A b : StreamName(b) \in stable' => b = s \/ StreamName(b) \in stable,
         d # None /\ StreamName(s) \in stable' => StreamOK(d, g, table)
  PROVE  StreamsInv'
<1>1. /\ streams' \in [StreamIds -> DuckStreams \cup {None}] /\ read' \in [StreamIds -> Seq(Nat)]
      /\ streams'[s] = d /\ read'[s] = g /\ \A b \in StreamIds : b # s => streams'[b] = streams[b] /\ read'[b] = read[b]
  BY DEF StreamsInv
<1>2. \A b \in StreamIds : streams'[b] # None => ReaderOK(streams'[b]) /\ HeaderOK(streams'[b]) BY <1>1 DEF StreamsInv
<1>3. ASSUME NEW b \in StreamIds, StreamName(b) \in stable', streams'[b] # None PROVE StreamOK(streams'[b], read'[b], table')
  <2>1. CASE b = s BY <1>1, <1>3, <2>1
  <2>2. CASE b # s
    <3>1. StreamName(b) \in stable BY <1>3, <2>2
    <3>2. streams[b] # None => StreamOK(streams[b], read[b], table) BY <3>1 DEF StreamsInv, IsStable, StreamName
    <3> QED BY <1>1, <1>3, <2>2, <3>2
  <2> QED BY <2>1, <2>2
<1> QED BY <1>1, <1>2, <1>3 DEF StreamsInv, IsStable, StreamName

\* The requests on cursors.
LEMMA NewCursorOK ==
  ASSUME NEW max \in Nat \cup {NoLimit}, table \in Seq(TableRows)
  PROVE  NewCursor(max) \in DuckCursors /\ ReaderOK(NewCursor(max)) /\ CursorOK(NewCursor(max), <<>>, table)
<1>1. PICK c : c = NewCursor(max) OBVIOUS
<1>2. (max = 0) \in BOOLEAN OBVIOUS
<1>3. c \in DuckCursors /\ c.next = 0 /\ c.max = max /\ c.done = (max = 0) BY <1>1, <1>2 DEF NewCursor, DuckCursors
<1>4. RemainingMaxRows(c) = 0 => max = 0 BY <1>3, DuckBounds DEF RemainingMaxRows
<1>5. ReaderOK(c)
  <2>1. 0 \in 0..MaxRows /\ (max # NoLimit => 0 <= max) BY DuckBounds
  <2> QED BY <1>3, <1>4, <2>1 DEF ReaderOK
<1>6. SubSeq(table, 1, 0) = <<>> BY SubSeqEmpty
<1>7. Len(table) \in Nat /\ AtMost(Len(table), 0) = 0
  <2>1. PICK L \in Nat : L = Len(table) OBVIOUS
  <2>2. AtMost(L, 0) \in Nat /\ AtMost(L, 0) <= 0 BY AtMostIs
  <2> QED BY <2>1, <2>2
<1>8. CursorOK(c, <<>>, table)
  <2>1. 0 <= Len(table) BY <1>7
  <2>2. c.done => c.next = AtMost(Len(table), c.max) BY <1>3, <1>7
  <2> QED BY <1>3, <1>6, <2>1, <2>2 DEF CursorOK
<1> QED BY <1>1, <1>3, <1>5, <1>8

LEMMA QueryStartReads == ASSUME EngineInv, CursorsInv, StableNext, HandleQueryStart PROVE CursorsInv'
<1>1. PICK max \in RowLimits : cursors' = Append(cursors, NewCursor(max)) /\ next_cursor_id' = next_cursor_id + 1 BY DEF HandleQueryStart
<1>2. got' = Append(got, <<>>) /\ table' = table BY DEF HandleQueryStart, engine
<1>3. max \in Nat \cup {NoLimit} /\ table \in Seq(TableRows) BY DuckBounds DEF EngineInv, RowsIn
<1>4. PICK d \in DuckCursors : d = NewCursor(max) /\ ReaderOK(d) /\ CursorOK(d, <<>>, table) BY <1>3, NewCursorOK
<1>5. PICK L \in Nat : L = Len(cursors) /\ L = Len(got) /\ DOMAIN cursors = 1..L BY DEF CursorsInv
<1>6. /\ cursors' \in Seq(DuckCursors \cup {None}) /\ Len(cursors') = L + 1 /\ DOMAIN cursors' = 1..(L + 1) /\ cursors'[L + 1] = d
      /\ \A b \in 1..L : cursors'[b] = cursors[b]
  BY <1>1, <1>4, <1>5 DEF CursorsInv
<1>7. /\ got' \in Seq(Seq(TableRows)) /\ Len(got') = L + 1 /\ got'[L + 1] = <<>>
      /\ \A b \in 1..L : got'[b] = got[b]
  BY <1>2, <1>5 DEF CursorsInv
<1>8. \A b \in 1..(L + 1) : b \in 1..L \/ b = L + 1 OBVIOUS
<1>9. \A b \in DOMAIN cursors' : cursors'[b] # None => ReaderOK(cursors'[b]) BY <1>4, <1>5, <1>6, <1>8 DEF CursorsInv
<1>10. ASSUME NEW b \in DOMAIN cursors', CursorName(b) \in stable', cursors'[b] # None PROVE CursorOK(cursors'[b], got'[b], table')
  <2>1. CASE b = L + 1 BY <1>2, <1>4, <1>6, <1>7, <2>1
  <2>2. CASE b \in 1..L
    <3>1. CursorName(b) \in stable BY <1>5, <1>10, <2>2, StableIs
    <3>2. cursors[b] # None => CursorOK(cursors[b], got[b], table) BY <1>5, <2>2, <3>1 DEF CursorsInv, IsStable, CursorName
    <3> QED BY <1>2, <1>6, <1>7, <1>10, <2>2, <3>2
  <2> QED BY <1>6, <1>8, <2>1, <2>2
<1>11. next_cursor_id' = Len(cursors') + 1 BY <1>1, <1>5, <1>6 DEF CursorsInv
<1> QED BY <1>6, <1>7, <1>9, <1>10, <1>11 DEF CursorsInv, IsStable, CursorName

LEMMA CursorFetchReads == ASSUME EngineInv, CursorsInv, StableNext, HandleCursorFetch PROVE CursorsInv'
<1>1. PICK c \in DOMAIN cursors, n \in FetchSizes :
        /\ cursors[c] # None
        /\ cursors' = [cursors EXCEPT ![c] = FetchCursorPage(cursors[c], n).cursor]
        /\ got' = [got EXCEPT ![c] = got[c] \o FetchCursorPage(cursors[c], n).rows]
  BY DEF HandleCursorFetch
<1>2. UNCHANGED <<table, next_cursor_id>> BY DEF HandleCursorFetch, engine
<1>3. table \in Seq(TableRows) /\ Len(table) <= MaxRows
  <2>1. PICK L \in Nat : L = Len(table) BY DEF EngineInv, RowsIn
  <2>2. L <= rows /\ rows \in 0..MaxRows BY <2>1 DEF EngineInv, RowsIn
  <2>3. L <= MaxRows BY <2>2, DuckBounds
  <2> QED BY <2>1, <2>3 DEF EngineInv, RowsIn
<1>4. n \in Nat BY DuckBounds
<1>5. cursors[c] \in DuckCursors /\ ReaderOK(cursors[c]) /\ got[c] \in Seq(TableRows) BY <1>1 DEF CursorsInv
<1>6. PICK d, page : d = FetchCursorPage(cursors[c], n).cursor /\ page = FetchCursorPage(cursors[c], n).rows OBVIOUS
<1>7. /\ d \in DuckCursors /\ ReaderOK(d) /\ page \in Seq(TableRows)
      /\ CursorOK(cursors[c], got[c], table) => CursorOK(d, got[c] \o page, table)
  BY <1>3, <1>4, <1>5, <1>6, FetchOK
<1>8. PICK g \in Seq(TableRows) : g = got[c] \o page BY <1>5, <1>7, ConcatProperties
<1> QED BY <1>1, <1>2, <1>6, <1>7, <1>8, CursorMoves

LEMMA CursorEndReads == ASSUME CursorsInv, StableNext, HandleCursorCancel \/ HandleCursorClose PROVE CursorsInv'
<1>0. UNCHANGED <<table, next_cursor_id, got>> BY DEF HandleCursorCancel, HandleCursorClose, engine, heard
<1>1. CASE HandleCursorCancel
  <2>1. PICK c \in DOMAIN cursors :
          /\ cursors[c] # None
          /\ cursors' = [cursors EXCEPT ![c] = [cursors[c] EXCEPT !.done = TRUE, !.cancelled = TRUE]]
    <3>1. PICK c \in DOMAIN cursors : cursors[c] # None /\ cursors' = [cursors EXCEPT ![c].done = TRUE, ![c].cancelled = TRUE]
      BY <1>1 DEF HandleCursorCancel
    <3> QED BY <3>1 DEF CursorsInv
  <2>2. cursors[c] \in DuckCursors /\ ReaderOK(cursors[c]) /\ got[c] \in Seq(TableRows) BY <2>1 DEF CursorsInv
  <2>3. PICK d : d = [cursors[c] EXCEPT !.done = TRUE, !.cancelled = TRUE] OBVIOUS
  <2>4. d \in DuckCursors /\ d.next = cursors[c].next /\ d.max = cursors[c].max /\ d.done /\ d.cancelled BY <2>2, <2>3 DEF DuckCursors
  <2>5. ReaderOK(d) BY <2>2, <2>4 DEF ReaderOK
  <2>6. CursorOK(cursors[c], got[c], table) => CursorOK(d, got[c], table) BY <2>4 DEF CursorOK
  <2>7. got' = [got EXCEPT ![c] = got[c]] BY <1>0 DEF CursorsInv
  <2> QED BY <1>0, <2>1, <2>2, <2>3, <2>4, <2>5, <2>6, <2>7, CursorMoves
<1>2. CASE HandleCursorClose
  <2>1. PICK c \in DOMAIN cursors : cursors[c] # None /\ cursors' = [cursors EXCEPT ![c] = None] BY <1>2 DEF HandleCursorClose
  <2>2. got[c] \in Seq(TableRows) /\ got' = [got EXCEPT ![c] = got[c]] BY <1>0 DEF CursorsInv
  <2> QED BY <1>0, <2>1, <2>2, CursorMoves
<1> QED BY <1>1, <1>2

\* The requests on exports.
LEMMA NewStreamOK ==
  ASSUME NEW max \in Nat \cup {NoLimit}, NEW csv \in BOOLEAN, table \in Seq(TableRows)
  PROVE  /\ NewStream(max, csv) \in DuckStreams /\ ReaderOK(NewStream(max, csv)) /\ HeaderOK(NewStream(max, csv))
         /\ StreamOK(NewStream(max, csv), <<>>, table)
<1>1. PICK c : c = NewStream(max, csv) OBVIOUS
<1>2. (max = 0) \in BOOLEAN /\ <<>> \in Seq(Nat) OBVIOUS
<1>3. /\ c \in DuckStreams /\ c.next = 0 /\ c.max = max /\ c.done = (max = 0) /\ c.csv = csv /\ c.header_written = FALSE
      /\ c.pending = <<>>
  BY <1>1, <1>2 DEF NewStream, DuckStreams
<1>4. RemainingMaxRows(c) = 0 => max = 0 BY <1>3, DuckBounds DEF RemainingMaxRows
<1>5. ReaderOK(c)
  <2>1. 0 \in 0..MaxRows /\ (max # NoLimit => 0 <= max) BY DuckBounds
  <2> QED BY <1>3, <1>4, <2>1 DEF ReaderOK
<1>6. HeaderOK(c) BY <1>3 DEF HeaderOK
<1>7. SubSeq(table, 1, 0) = <<>> BY SubSeqEmpty
<1>8. Len(table) \in Nat /\ AtMost(Len(table), 0) = 0
  <2>1. PICK L \in Nat : L = Len(table) OBVIOUS
  <2>2. AtMost(L, 0) \in Nat /\ AtMost(L, 0) <= 0 BY AtMostIs
  <2> QED BY <2>1, <2>2
<1>9. StreamOK(c, <<>>, table)
  <2>1. 0 <= Len(table) BY <1>8
  <2>2. c.done => c.next = AtMost(Len(table), c.max) BY <1>3, <1>8
  <2>3. Head1(c) = <<>> BY <1>3 DEF Head1
  <2> QED BY <1>3, <1>7, <2>1, <2>2, <2>3, RenderEmpty DEF StreamOK
<1> QED BY <1>1, <1>3, <1>5, <1>6, <1>9

LEMMA DataExportReads == ASSUME EngineInv, ReadsInv, HandleDataExport PROVE ReadsInv'
<1>1. PICK s \in StreamIds, max \in RowLimits, csv \in BOOLEAN :
        /\ streams' = [streams EXCEPT ![s] = NewStream(max, csv)] /\ read' = [read EXCEPT ![s] = <<>>]
        /\ stable' = stable \cup {StreamName(s)}
  BY DEF HandleDataExport, StreamName
<1>2. UNCHANGED <<table, cursors, next_cursor_id, got>> BY DEF HandleDataExport, engine
<1>3. max \in Nat \cup {NoLimit} /\ table \in Seq(TableRows) BY DuckBounds DEF EngineInv, RowsIn
<1>4. PICK d \in DuckStreams : d = NewStream(max, csv) /\ ReaderOK(d) /\ HeaderOK(d) /\ StreamOK(d, <<>>, table) BY <1>3, NewStreamOK
<1>5. <<>> \in Seq(Nat) /\ d \in DuckStreams \cup {None} BY <1>4
<1>6. /\ \A b : StreamName(b) \in stable' => b = s \/ StreamName(b) \in stable
      /\ \A c : CursorName(c) \in stable' => CursorName(c) \in stable
  <2>1. \A b : StreamName(b).id = b /\ StreamName(b).kind = "stream" BY DEF StreamName
  <2>2. \A b : CursorName(b).kind = "cursor" BY DEF CursorName
  <2> QED BY <1>1, <2>1, <2>2
<1>7. StreamsInv' BY <1>1, <1>2, <1>4, <1>5, <1>6, StreamMoves DEF ReadsInv
<1>8. CursorsInv' BY <1>2, <1>6, CursorsStay DEF ReadsInv
<1> QED BY <1>7, <1>8 DEF ReadsInv

LEMMA StreamReadReads == ASSUME EngineInv, StreamsInv, StableNext, HandleStreamRead PROVE StreamsInv'
<1>1. PICK s \in StreamIds, n \in ReadSizes :
        /\ streams[s] # None
        /\ streams' = [streams EXCEPT ![s] = DrainPending(EnsureStreamBuffered(streams[s]), n).stream]
        /\ read' = [read EXCEPT ![s] = read[s] \o DrainPending(EnsureStreamBuffered(streams[s]), n).bytes]
  BY DEF HandleStreamRead
<1>2. table' = table BY DEF HandleStreamRead, engine
<1>3. table \in Seq(TableRows) /\ Len(table) <= MaxRows
  <2>1. PICK L \in Nat : L = Len(table) BY DEF EngineInv, RowsIn
  <2>2. L <= rows /\ rows \in 0..MaxRows BY <2>1 DEF EngineInv, RowsIn
  <2>3. L <= MaxRows BY <2>2, DuckBounds
  <2> QED BY <2>1, <2>3 DEF EngineInv, RowsIn
<1>4. n \in Nat BY DuckBounds
<1>5. streams[s] \in DuckStreams /\ ReaderOK(streams[s]) /\ HeaderOK(streams[s]) /\ read[s] \in Seq(Nat) BY <1>1 DEF StreamsInv
<1>6. PICK st \in DuckStreams, r \in Seq(Nat) : st = streams[s] /\ r = read[s] BY <1>5
<1>7. PICK e : e = EnsureStreamBuffered(st) OBVIOUS
<1>8. e \in DuckStreams /\ ReaderOK(e) /\ HeaderOK(e) /\ (StreamOK(st, r, table) => StreamOK(e, r, table))
  <2>1. ReaderOK(st) /\ HeaderOK(st) BY <1>5, <1>6
  <2>2. CASE NeedsFill(st)
    <3>1. e = FillStreamBuffer(st) BY <1>7, <2>2 DEF EnsureStreamBuffered
    <3> QED BY <1>3, <2>1, <2>2, <3>1, FillOK
  <2>3. CASE ~NeedsFill(st) BY <1>7, <2>1, <2>3 DEF EnsureStreamBuffered
  <2> QED BY <2>2, <2>3
<1>9. PICK d, bytes : d = DrainPending(e, n).stream /\ bytes = DrainPending(e, n).bytes OBVIOUS
<1>10. /\ d \in DuckStreams /\ ReaderOK(d) /\ HeaderOK(d) /\ bytes \in Seq(Nat)
       /\ StreamOK(e, r, table) => StreamOK(d, r \o bytes, table)
  BY <1>4, <1>8, <1>9, DrainOK
<1>11. PICK g \in Seq(Nat) : g = r \o bytes BY <1>10, ConcatProperties
<1>12. \A b : StreamName(b) \in stable' => StreamName(b) \in stable BY StableIs
<1>13. StreamName(s) \in stable' => StreamOK(st, r, table) BY <1>1, <1>6, <1>12 DEF StreamsInv, IsStable, StreamName
<1>14. streams' = [streams EXCEPT ![s] = d] /\ read' = [read EXCEPT ![s] = g] BY <1>1, <1>6, <1>7, <1>9, <1>11
<1>15. d \in DuckStreams \cup {None} /\ (StreamName(s) \in stable' => StreamOK(d, g, table)) BY <1>8, <1>10, <1>11, <1>13
<1> QED BY <1>2, <1>10, <1>12, <1>14, <1>15, StreamMoves

LEMMA StreamCloseReads == ASSUME StreamsInv, StableNext, HandleStreamClose PROVE StreamsInv'
<1>1. PICK s \in StreamIds : streams' = [streams EXCEPT ![s] = None] /\ read' = [read EXCEPT ![s] = <<>>] BY DEF HandleStreamClose
<1>2. table' = table /\ <<>> \in Seq(Nat) BY DEF HandleStreamClose, engine
<1>3. \A b : StreamName(b) \in stable' => StreamName(b) \in stable BY StableIs
<1> QED BY <1>1, <1>2, <1>3, StreamMoves

\* Every request keeps what the cursors and the exports delivered.
LEMMA RequestKeepsReads == ASSUME EngineInv, ReadsInv, Request, StableNext PROVE ReadsInv'
<1> DEFINE quietStreams == UNCHANGED <<streams, read>>
           quietCursors == UNCHANGED <<cursors, next_cursor_id, got>>
<1>1. ASSUME quietStreams PROVE StreamsInv' BY <1>1, StableIs, StreamsStay DEF ReadsInv
<1>2. ASSUME quietCursors PROVE CursorsInv'
  <2>1. \A c : CursorName(c) \in stable' => table' = table /\ CursorName(c) \in stable BY <1>2, StableIs
  <2> QED BY <1>2, <2>1, CursorsStay DEF ReadsInv
<1>3. CASE HandleQueryStart \/ HandleCursorFetch \/ HandleCursorCancel \/ HandleCursorClose
  <2>1. quietStreams BY <1>3 DEF HandleQueryStart, HandleCursorFetch, HandleCursorCancel, HandleCursorClose, heard
  <2>2. CursorsInv' BY <1>3, QueryStartReads, CursorFetchReads, CursorEndReads DEF ReadsInv
  <2> QED BY <1>1, <2>1, <2>2 DEF ReadsInv
<1>4. CASE HandleStreamRead \/ HandleStreamClose
  <2>1. quietCursors BY <1>4 DEF HandleStreamRead, HandleStreamClose
  <2>2. StreamsInv' BY <1>4, StreamReadReads, StreamCloseReads DEF ReadsInv
  <2> QED BY <1>2, <2>1, <2>2 DEF ReadsInv
<1>5. CASE \/ \E tx \in 0..MaxTx : HandleExecRun(tx)
           \/ ExecTxControlText \/ HandleExecBatch \/ StatementFails \/ HandleTxBegin
           \/ \E tx \in 1..MaxTx : HandleTxCommit(tx) \/ HandleTxRollback(tx)
           \/ HandleDataImportBegin \/ HandleDataImportChunk \/ HandleDataImportCommit \/ HandleDataImportAbort
  <2>1. CASE \E tx \in 0..MaxTx : HandleExecRun(tx) BY <1>1, <1>2, <2>1 DEF HandleExecRun, tables, ReadsInv
  <2>2. CASE ExecTxControlText \/ StatementFails BY <1>1, <1>2, <2>2 DEF ExecTxControlText, StatementFails, tables, heard, ReadsInv
  <2>3. CASE HandleExecBatch BY <1>1, <1>2, <2>3 DEF HandleExecBatch, tables, heard, ReadsInv
  <2>4. CASE HandleTxBegin BY <1>1, <1>2, <2>4 DEF HandleTxBegin, heard, ReadsInv
  <2>5. CASE \E tx \in 1..MaxTx : HandleTxCommit(tx) \/ HandleTxRollback(tx)
    BY <1>1, <1>2, <2>5 DEF HandleTxCommit, HandleTxRollback, CloseTx, tables, ReadsInv
  <2>6. CASE HandleDataImportBegin \/ HandleDataImportChunk
    BY <1>1, <1>2, <2>6 DEF HandleDataImportBegin, HandleDataImportChunk, heard, ReadsInv
  <2>7. CASE HandleDataImportCommit \/ HandleDataImportAbort
    BY <1>1, <1>2, <2>7 DEF HandleDataImportCommit, HandleDataImportAbort, RemoveImport, ReadsInv
  <2> QED BY <1>5, <2>1, <2>2, <2>3, <2>4, <2>5, <2>6, <2>7
<1> QED BY <1>3, <1>4, <1>5 DEF Request
-----------------------------------------------------------------------------
(* The theorem *)

\* Nothing has been read at the start.
LEMMA InitReads == Init => ReadsInv
<1> SUFFICES ASSUME Init PROVE ReadsInv OBVIOUS
<1>1. cursors = <<>> /\ next_cursor_id = 1 /\ got = <<>> /\ stable = {} BY DEF Init
<1>2. streams = [s \in StreamIds |-> None] /\ read = [s \in StreamIds |-> <<>>] BY DEF Init
<1>3. /\ <<>> \in Seq(DuckCursors \cup {None}) /\ <<>> \in Seq(Seq(TableRows)) /\ <<>> \in Seq(Nat)
      /\ Len(<<>>) = 0 /\ DOMAIN <<>> = {}
  OBVIOUS
<1>4. CursorsInv BY <1>1, <1>3 DEF CursorsInv
<1>5. StreamsInv BY <1>1, <1>2, <1>3 DEF StreamsInv, IsStable
<1> QED BY <1>4, <1>5 DEF ReadsInv

\* Opening and closing the connection leave no stable reader.
LEMMA EndsKeepReads == ASSUME BooksInv, ReadsInv, OpenConnection \/ Close PROVE ReadsInv'
<1>1. UNCHANGED <<cursors, next_cursor_id, got, streams, read>> BY DEF OpenConnection, Close, tables, heard
<1>2. stable' = {} BY DEF OpenConnection, Close, BooksInv, AccountInv, NewInv
<1> QED BY <1>1, <1>2, CursorsStay, StreamsStay DEF ReadsInv

\* Every step keeps the invariant.
LEMMA DuckStep == ASSUME BooksInv, ReadsInv, [Next]_vars PROVE BooksInv' /\ ReadsInv'
<1>1. CASE OpenConnection BY <1>1, OpenConnectionKeeps, EndsKeepReads
<1>2. CASE Close BY <1>2, CloseKeeps, EndsKeepReads
<1>3. CASE Call
  <2>1. worker = "open" /\ worker' = worker BY <1>3 DEF Call
  <2>2. EngineInv BY DEF BooksInv
  <2>3. CASE HandleDataExport BY <2>1, <2>2, <2>3, RequestKeepsBooks, DataExportReads
  <2>4. CASE Request /\ StableNext BY <2>1, <2>2, <2>4, RequestKeepsBooks, RequestKeepsReads
  <2> QED BY <1>3, <2>3, <2>4 DEF Call, StableNext
<1>4. CASE UNCHANGED vars
  <2>1. UNCHANGED <<worker, table, saved, dbtx, rows, stable, strayed, told, ran>> BY <1>4 DEF vars, engine, heard
  <2>2. UNCHANGED <<cursors, next_cursor_id, got, streams, read>> BY <1>4 DEF vars, tables, heard
  <2>3. UNCHANGED <<imports, next_import_id, txs, active_tx, next_tx_id>> BY <1>4 DEF vars, tables
  <2>4. EngineInv' BY <2>1 DEF BooksInv, EngineInv
  <2>5. WorkInv' BY <2>1, <2>3 DEF BooksInv, WorkInv
  <2>6. Mirror' = Mirror /\ ToldInv' = ToldInv /\ OpenInv' = OpenInv /\ FreshInv' = FreshInv
    BY <2>1, <2>3 DEF Mirror, OpenImports, ToldInv, Ended, Fixed, OpenInv, Pending, FreshInv, Fresh
  <2>7. AccountInv' BY <2>1, <2>3, <2>6 DEF BooksInv, AccountInv, NewInv, Live
  <2>8. ReadsInv' BY <2>1, <2>2, CursorsStay, StreamsStay DEF ReadsInv
  <2> QED BY <2>4, <2>5, <2>7, <2>8 DEF BooksInv
<1> QED BY <1>1, <1>2, <1>3, <1>4 DEF Next

\* What the invariant says of the transactions and the imports.
LEMMA BooksAreTrue == ASSUME BooksInv PROVE TxMirrorsEngine /\ AnswersAreTrue
<1>1. ASSUME worker = "open", strayed = {}
      PROVE  /\ Cardinality(txs) + Cardinality(OpenImports) = (IF dbtx = "auto" THEN 0 ELSE 1)
             /\ txs = {active_tx} \ {0}
  <2>1. Mirror BY <1>1 DEF BooksInv, AccountInv, Live
  <2>2. /\ txs = {active_tx} \ {0} /\ (dbtx = "auto" <=> (active_tx = 0 /\ OpenImports = {}))
        /\ active_tx = 0 \/ OpenImports = {}
        /\ \A i, j \in OpenImports : i = j
    BY <1>1, <2>1 DEF Mirror
  <2>3. Cardinality({}) = 0 BY FS_EmptySet
  <2>4. \A x : Cardinality({x}) = 1 BY FS_Singleton
  <2>5. CASE active_tx # 0
    <3>1. txs = {active_tx} /\ OpenImports = {} /\ dbtx # "auto" BY <2>2, <2>5
    <3> QED BY <2>2, <2>3, <2>4, <3>1
  <2>6. CASE active_tx = 0 /\ OpenImports = {}
    <3>1. txs = {} /\ OpenImports = {} /\ dbtx = "auto" BY <2>2, <2>6
    <3> QED BY <2>2, <2>3, <3>1
  <2>7. CASE active_tx = 0 /\ OpenImports # {}
    <3>1. PICK i : i \in OpenImports BY <2>7
    <3>2. OpenImports = {i} BY <2>2, <3>1
    <3>3. txs = {} /\ dbtx # "auto" BY <2>2, <2>7
    <3>4. Cardinality(OpenImports) = 1 /\ Cardinality(txs) = 0 BY <2>3, <2>4, <3>2, <3>3
    <3> QED BY <2>2, <3>3, <3>4
  <2> QED BY <2>5, <2>6, <2>7
<1>2. ASSUME worker = "open", "text" \notin strayed, NEW e \in told
      PROVE  Cardinality(RowsOf(e)) = (IF e.end = "committed" THEN e.n ELSE 0)
  <2>1. ToldInv BY <1>2 DEF BooksInv, AccountInv, Live
  <2>2. Count(table, OwnerOf(e)) = (IF e.end = "committed" THEN e.n ELSE 0) BY <2>1 DEF ToldInv, Fixed
  <2>3. RowsOf(e) = Owned(table, OwnerOf(e)) BY DEF RowsOf, Owned, OwnerOf
  <2> QED BY <2>2, <2>3 DEF Count
<1> QED BY <1>1, <1>2 DEF TxMirrorsEngine, AnswersAreTrue

\* What it says of the cursors and the exports.
LEMMA ReadsAreTrue == ASSUME EngineInv, ReadsInv PROVE CursorDelivers /\ StreamsDeliver
<1>1. ASSUME NEW c \in DOMAIN cursors, IsStable("cursor", c), cursors[c] # None
      PROVE  /\ got[c] = SubSeq(table, 1, cursors[c].next)
             /\ cursors[c].done /\ ~cursors[c].cancelled => Len(got[c]) = AtMost(Len(table), cursors[c].max)
  <2>1. CursorOK(cursors[c], got[c], table) BY <1>1 DEF ReadsInv, CursorsInv
  <2>2. cursors[c] \in DuckCursors BY <1>1 DEF ReadsInv, CursorsInv
  <2>3. PICK x \in Nat : x = cursors[c].next BY <2>2 DEF DuckCursors
  <2>4. table \in Seq(TableRows) /\ x <= Len(table) /\ got[c] = SubSeq(table, 1, x) BY <2>1, <2>3 DEF CursorOK, EngineInv, RowsIn
  <2>5. Len(got[c]) = x BY <2>4
  <2> QED BY <2>1, <2>3, <2>5 DEF CursorOK
<1>2. ASSUME NEW s \in StreamIds, IsStable("stream", s), streams[s] # None
      PROVE  LET st == streams[s] IN
             /\ read[s] \o st.pending =
                  (IF st.csv /\ st.header_written THEN Header ELSE <<>>) \o RenderRows(SubSeq(table, 1, st.next))
             /\ st.done => /\ st.next = AtMost(Len(table), st.max)
                           /\ st.header_written = (st.csv /\ st.max # 0)
  <2>1. StreamOK(streams[s], read[s], table) /\ HeaderOK(streams[s]) BY <1>2 DEF ReadsInv, StreamsInv
  <2>2. streams[s] \in DuckStreams BY <1>2 DEF ReadsInv, StreamsInv
  <2>3. PICK st \in DuckStreams : st = streams[s] BY <2>2
  <2>4. st.csv \in BOOLEAN /\ st.header_written \in BOOLEAN BY DEF DuckStreams
  <2>5. st.done => st.header_written = (st.csv /\ st.max # 0) BY <2>1, <2>3, <2>4 DEF HeaderOK
  <2> QED BY <2>1, <2>3, <2>5 DEF StreamOK, Head1
<1> QED BY <1>1, <1>2 DEF CursorDelivers, StreamsDeliver

\* The types follow.
LEMMA TypesHold == ASSUME BooksInv, ReadsInv PROVE TypeOK
<1>1. EngineInv /\ WorkInv /\ AccountInv /\ CursorsInv /\ StreamsInv BY DEF BooksInv, ReadsInv
<1>2. \A i \in DOMAIN table : table[i].id \in 1..MaxRows
  <2>1. PICK r \in 0..MaxRows : r = rows BY <1>1 DEF EngineInv
  <2>2. \A i \in DOMAIN table : table[i].id \in 1..r BY <1>1, <2>1 DEF EngineInv, RowsIn
  <2>3. \A k \in 1..r : k \in 1..MaxRows BY DuckBounds
  <2> QED BY <2>2, <2>3
<1>3. \A c \in DOMAIN cursors : cursors[c] = None \/ cursors[c].next \in 0..MaxRows BY <1>1 DEF CursorsInv, ReaderOK
<1>4. \A s \in StreamIds : streams[s] = None \/ streams[s].next \in 0..MaxRows BY <1>1 DEF StreamsInv, ReaderOK
<1>5. worker \in {"new", "open", "closed"} /\ dbtx \in {"auto", "open", "aborted"} BY <1>1 DEF AccountInv, EngineInv
<1>6. /\ txs \subseteq 1..MaxTx /\ (active_tx = 0 \/ active_tx \in txs) /\ next_import_id = Len(imports) + 1
      /\ strayed \subseteq {"text", "commit"}
  BY <1>1 DEF WorkInv
<1>7. next_cursor_id = Len(cursors) + 1 BY <1>1 DEF CursorsInv
<1> QED BY <1>2, <1>3, <1>4, <1>5, <1>6, <1>7 DEF TypeOK

\* A DuckDB connection tells the host what the engine did, for every size of page
\* and chunk and every number of requests: the driver is in a transaction exactly
\* when the engine is, what a commit or a rollback answered stays true for good
\* (of a commit that came after a statement had aborted the transaction nothing
\* is kept, though the engine's OK is passed on), and a cursor or an export of a table that does not change delivers every row
\* once and in order (handlers.rs: handle_tx_commit, handle_data_import_commit,
\* fetch_cursor_page, fill_stream_buffer).
THEOREM DuckConnectionIsTrue == Spec => []ConnectionIsTrue
<1>1. Init => BooksInv /\ ReadsInv BY InitBooks, InitReads
<1>2. BooksInv /\ ReadsInv /\ [Next]_vars => (BooksInv /\ ReadsInv)' BY DuckStep
<1>3. BooksInv /\ ReadsInv => ConnectionIsTrue
  BY BooksAreTrue, ReadsAreTrue, TypesHold DEF ConnectionIsTrue, BooksInv
<1> QED BY <1>1, <1>2, <1>3, PTL DEF Spec
-----------------------------------------------------------------------------
(* openGauss: sessions of the server, and what the host knows of them *)

OgRow == [id : Nat, by : Nat]
OgMarks == [name : Savepoints, rows : Seq(OgRow)]
OgSessions == [rows : Seq(OgRow), tx : {"auto", "open", "aborted"}, saved : Seq(OgRow), marks : Seq(OgMarks)]

\* A table of some of the first n rows ever inserted, by the first m imports.
OgTable(t, n, m) == t \in Seq(OgRow) /\ InOrder(t) /\ \A i \in DOMAIN t : t[i].id <= n /\ t[i].by <= m

\* A session: what it may go back to is a table before the one it has.
OgSound(d, n, m) ==
  /\ d \in OgSessions /\ OgTable(d.rows, n, m) /\ OgTable(d.saved, n, m)
  /\ \A k \in DOMAIN d.marks : OgTable(d.marks[k].rows, n, m)
  /\ d.tx = "auto" => d.saved = <<>> /\ d.marks = <<>>
  /\ Len(d.saved) <= Len(d.rows)
  /\ \A k \in DOMAIN d.marks : Len(d.saved) <= Len(d.marks[k].rows) /\ Len(d.marks[k].rows) <= Len(d.rows)
  /\ \A j, k \in DOMAIN d.marks : j <= k => Len(d.marks[j].rows) <= Len(d.marks[k].rows)

OgTold(b, t, o) == b \in Seq(OgRow) /\ IsTold(b, t, o)

\* The session the host was told of is the server's but for the rows in o.
OgAgree(b, d, o) ==
  /\ b \in OgSessions /\ b.tx = d.tx /\ OgTold(b.rows, d.rows, o) /\ OgTold(b.saved, d.saved, o)
  /\ DOMAIN b.marks = DOMAIN d.marks
  /\ \A k \in DOMAIN d.marks : b.marks[k].name = d.marks[k].name /\ OgTold(b.marks[k].rows, d.marks[k].rows, o)
-----------------------------------------------------------------------------
(* What each statement does to a session *)

\* The first elements of a sequence.
LEMMA FirstOf ==
  ASSUME NEW S, NEW s \in Seq(S), NEW k \in 0..Len(s)
  PROVE  /\ SubSeq(s, 1, k) \in Seq(S) /\ Len(SubSeq(s, 1, k)) = k /\ DOMAIN SubSeq(s, 1, k) = 1..k
         /\ \A i \in 1..k : i \in DOMAIN s /\ SubSeq(s, 1, k)[i] = s[i]
<1>1. k \in Nat /\ k <= Len(s) OBVIOUS
<1>2. \A i \in 1..k : i \in DOMAIN s /\ s[i] \in S BY <1>1
<1>3. SubSeq(s, 1, k) \in Seq(S) /\ Len(SubSeq(s, 1, k)) = k /\ \A i \in 1..k : SubSeq(s, 1, k)[i] = s[i] BY <1>1, <1>2
<1> QED BY <1>2, <1>3

OgBefore == {ss \in Nat \X Nat : ss[1] < ss[2]}

\* A savepoint that was set was set last somewhere.
LEMMA LastMarkIs ==
  ASSUME NEW d \in OgSessions, NEW n, MarksOf(d, n) # {}
  PROVE  LastMark(d, n) \in DOMAIN d.marks
<1>1. PICK L \in Nat : L = Len(d.marks) BY DEF OgSessions
<1>2. d.marks \in Seq(OgMarks) /\ DOMAIN d.marks = 1..L BY <1>1 DEF OgSessions
<1> DEFINE K == MarksOf(d, n)
           S == {j \in Nat : j <= L /\ L - j \in K}
<1>3. \A i \in K : i \in 1..L /\ L - i \in S
  <2>1. ASSUME NEW i \in K PROVE i \in 1..L /\ L - i \in S
    <3>1. i \in 1..L BY <1>2 DEF MarksOf
    <3>2. L - i \in Nat /\ L - i <= L /\ L - (L - i) = i BY <3>1
    <3> QED BY <3>1, <3>2
  <2> QED BY <2>1
<1>4. S # {} BY <1>3
<1>5. OgBefore = OpToRel(<, Nat) BY Zenon DEF OpToRel, OgBefore
<1>6. IsWellFoundedOn(OgBefore, Nat) BY <1>5, NatLessThanWellFounded, Zenon
<1>7. S \subseteq Nat OBVIOUS
<1> HIDE DEF S, K
<1>8. PICK x \in S : \A y \in S : ~(<<y, x>> \in OgBefore) BY <1>4, <1>6, <1>7, WFMin, Zenon
<1>9. x \in Nat /\ x <= L /\ L - x \in K BY DEF S
<1>10. \A i \in K : i <= L - x
  <2>1. ASSUME NEW i \in K PROVE i <= L - x
    <3>1. i \in 1..L /\ L - i \in S BY <1>3
    <3>2. ~(L - i < x) BY <1>7, <1>8, <1>9, <3>1 DEF OgBefore
    <3> QED BY <1>9, <3>1, <3>2
  <2> QED BY <2>1
<1>11. \E i \in K : \A j \in K : j <= i BY <1>9, <1>10
<1>12. LastMark(d, n) \in MarksOf(d, n) BY <1>11 DEF LastMark, K
<1> QED BY <1>12 DEF MarksOf

\* Parts of a session that is changed in one of them.
LEMMA SessionParts ==
  ASSUME NEW d \in OgSessions
  PROVE  /\ d.rows \in Seq(OgRow) /\ d.tx \in {"auto", "open", "aborted"} /\ d.saved \in Seq(OgRow) /\ d.marks \in Seq(OgMarks)
         /\ <<>> \in Seq(OgRow) /\ <<>> \in Seq(OgMarks)
BY DEF OgSessions

LEMMA UndoneIs ==
  ASSUME NEW d \in OgSessions, NEW e, e = Undone(d)
  PROVE  /\ e \in OgSessions /\ e.rows = (IF d.tx = "auto" THEN d.rows ELSE d.saved)
         /\ e.tx = "auto" /\ e.saved = <<>> /\ e.marks = <<>>
BY SessionParts DEF OgSessions, Undone

LEMMA BeginIs ==
  ASSUME NEW d \in OgSessions, NEW e, e = After(d, Cmd("BEGIN"))
  PROVE  /\ d.tx # "auto" => e = d
         /\ d.tx = "auto" => e \in OgSessions /\ e.rows = d.rows /\ e.tx = "open" /\ e.saved = d.rows /\ e.marks = d.marks
<1>1. e = IF d.tx = "auto" THEN [d EXCEPT !.tx = "open", !.saved = d.rows] ELSE d BY DEF After, Cmd
<1> QED BY <1>1, SessionParts DEF OgSessions

LEMMA CommitIs ==
  ASSUME NEW d \in OgSessions, NEW e, e = After(d, Cmd("COMMIT"))
  PROVE  /\ d.tx = "aborted" => e = Undone(d)
         /\ d.tx # "aborted" => e \in OgSessions /\ e.rows = d.rows /\ e.tx = "auto" /\ e.saved = <<>> /\ e.marks = <<>>
<1>1. e = IF d.tx = "aborted" THEN Undone(d) ELSE [d EXCEPT !.tx = "auto", !.saved = <<>>, !.marks = <<>>] BY DEF After, Cmd
<1> QED BY <1>1, SessionParts DEF OgSessions

LEMMA RollbackIs == ASSUME NEW d PROVE After(d, Cmd("ROLLBACK")) = Undone(d)
BY DEF After, Cmd

LEMMA SaveIs ==
  ASSUME NEW d \in OgSessions, NEW n \in Savepoints, NEW e, e = After(d, Save(n))
  PROVE  /\ e \in OgSessions /\ e.rows = d.rows /\ e.tx = d.tx /\ e.saved = d.saved
         /\ e.marks = Append(d.marks, [name |-> n, rows |-> d.rows]) /\ [name |-> n, rows |-> d.rows] \in OgMarks
<1>1. e = [d EXCEPT !.marks = Append(@, [name |-> n, rows |-> d.rows])] BY DEF After, Save
<1>2. [name |-> n, rows |-> d.rows] \in OgMarks BY SessionParts DEF OgMarks
<1>3. Append(d.marks, [name |-> n, rows |-> d.rows]) \in Seq(OgMarks) BY <1>2, SessionParts
<1> QED BY <1>1, <1>2, <1>3 DEF OgSessions

LEMMA RollbackToIs ==
  ASSUME NEW d \in OgSessions, NEW n, MarksOf(d, n) # {}, NEW e, e = After(d, RollbackTo(n))
  PROVE  /\ e \in OgSessions /\ e.rows = d.marks[LastMark(d, n)].rows /\ e.tx = "open" /\ e.saved = d.saved
         /\ e.marks = SubSeq(d.marks, 1, LastMark(d, n))
<1>1. e = [d EXCEPT !.tx = "open", !.rows = d.marks[LastMark(d, n)].rows, !.marks = SubSeq(@, 1, LastMark(d, n))]
  BY DEF After, RollbackTo
<1>2. PICK k : k = LastMark(d, n) /\ k \in DOMAIN d.marks BY LastMarkIs
<1>3. d.marks \in Seq(OgMarks) /\ k \in 0..Len(d.marks) BY <1>2, SessionParts
<1>4. SubSeq(d.marks, 1, k) \in Seq(OgMarks) BY <1>3, FirstOf
<1>5. d.marks[k] \in OgMarks BY <1>2, <1>3
<1>6. d.marks[k].rows \in Seq(OgRow) BY <1>5 DEF OgMarks
<1> QED BY <1>1, <1>2, <1>4, <1>6 DEF OgSessions

LEMMA ReleaseIs ==
  ASSUME NEW d \in OgSessions, NEW n, MarksOf(d, n) # {}, NEW e, e = After(d, Release(n))
  PROVE  /\ e \in OgSessions /\ e.rows = d.rows /\ e.tx = d.tx /\ e.saved = d.saved
         /\ e.marks = SubSeq(d.marks, 1, LastMark(d, n) - 1)
<1>1. e = [d EXCEPT !.marks = SubSeq(@, 1, LastMark(d, n) - 1)] BY DEF After, Release
<1>2. PICK k : k = LastMark(d, n) /\ k \in DOMAIN d.marks BY LastMarkIs
<1>3. d.marks \in Seq(OgMarks) /\ k - 1 \in 0..Len(d.marks) BY <1>2, SessionParts
<1>4. SubSeq(d.marks, 1, k - 1) \in Seq(OgMarks) BY <1>3, FirstOf
<1> QED BY <1>1, <1>2, <1>4 DEF OgSessions

\* A statement that fails, but for the end of a transaction.
LEMMA AbortIs ==
  ASSUME NEW d \in OgSessions, NEW s, s.cmd \notin {"COMMIT", "ROLLBACK"}, NEW e, e = Failed(d, s)
  PROVE  /\ e \in OgSessions /\ e.rows = d.rows /\ e.saved = d.saved /\ e.marks = d.marks
         /\ e.tx = IF d.tx = "open" THEN "aborted" ELSE d.tx
<1>1. e = IF d.tx = "open" THEN [d EXCEPT !.tx = "aborted"] ELSE d BY DEF Failed
<1> QED BY <1>1, SessionParts DEF OgSessions

\* Rows at the end of the table.
LEMMA InsertAllIs ==
  ASSUME NEW d \in OgSessions, NEW new \in Seq(OgRow), NEW e, e = InsertAll(d, new)
  PROVE  e \in OgSessions /\ e.rows = d.rows \o new /\ e.saved = d.saved /\ e.marks = d.marks /\ e.tx = d.tx
<1>1. e = [d EXCEPT !.rows = @ \o new] BY DEF InsertAll
<1>2. d.rows \o new \in Seq(OgRow) BY SessionParts
<1> QED BY <1>1, <1>2 DEF OgSessions

LEMMA InsertIs ==
  ASSUME NEW d \in OgSessions, NEW r \in OgRow, NEW e, e = After(d, Insert(r))
  PROVE  e = InsertAll(d, <<r>>)
<1>1. e = [d EXCEPT !.rows = Append(@, r)] BY DEF After, Insert
<1>2. Append(d.rows, r) = d.rows \o <<r>> BY SessionParts, AppendIsConcat
<1> QED BY <1>1, <1>2 DEF InsertAll
-----------------------------------------------------------------------------
(* Every statement keeps a session sound *)

LEMMA EmptyTable == ASSUME NEW n, NEW m PROVE OgTable(<<>>, n, m) /\ \A o : OgTold(<<>>, <<>>, o)
<1>1. <<>> \in Seq(OgRow) /\ DOMAIN <<>> = {} /\ Range(<<>>) = {} BY DEF Range
<1> QED BY <1>1 DEF OgTable, OgTold, IsTold, InOrder

\* More rows and imports later.
LEMMA SoundLater ==
  ASSUME NEW d, NEW n \in Nat, NEW m \in Nat, OgSound(d, n, m), NEW n2 \in Nat, NEW m2 \in Nat, n <= n2, m <= m2
  PROVE  OgSound(d, n2, m2)
<1>1. ASSUME NEW t, OgTable(t, n, m) PROVE OgTable(t, n2, m2)
  <2>0. \A i \in DOMAIN t : t[i] \in OgRow BY <1>1 DEF OgTable
  <2>1. \A i \in DOMAIN t : t[i].id \in Nat /\ t[i].by \in Nat BY <2>0 DEF OgRow
  <2> QED BY <1>1, <2>1 DEF OgTable
<1> QED BY <1>1 DEF OgSound

LEMMA SoundUndone == ASSUME NEW d, NEW n, NEW m, OgSound(d, n, m) PROVE OgSound(Undone(d), n, m)
<1>1. PICK e : e = Undone(d) OBVIOUS
<1>2. d \in OgSessions BY DEF OgSound
<1>3. /\ e \in OgSessions /\ e.rows = (IF d.tx = "auto" THEN d.rows ELSE d.saved)
      /\ e.tx = "auto" /\ e.saved = <<>> /\ e.marks = <<>>
  BY <1>1, <1>2, UndoneIs
<1>4. OgTable(e.rows, n, m) /\ OgTable(e.saved, n, m) /\ Len(e.rows) \in Nat BY <1>3, EmptyTable, SessionParts DEF OgSound
<1>5. Len(<<>>) = 0 /\ DOMAIN <<>> = {} OBVIOUS
<1> QED BY <1>1, <1>3, <1>4, <1>5 DEF OgSound

LEMMA SoundBegin == ASSUME NEW d, NEW n, NEW m, OgSound(d, n, m) PROVE OgSound(After(d, Cmd("BEGIN")), n, m)
<1>1. PICK e : e = After(d, Cmd("BEGIN")) OBVIOUS
<1>2. d \in OgSessions BY DEF OgSound
<1>3. /\ d.tx # "auto" => e = d
      /\ d.tx = "auto" => e \in OgSessions /\ e.rows = d.rows /\ e.tx = "open" /\ e.saved = d.rows /\ e.marks = d.marks
  BY <1>1, <1>2, BeginIs
<1>4. CASE d.tx = "auto"
  <2>1. d.marks = <<>> /\ Len(d.rows) \in Nat BY <1>2, <1>4, SessionParts DEF OgSound
  <2>2. DOMAIN <<>> = {} OBVIOUS
  <2> QED BY <1>1, <1>3, <1>4, <2>1, <2>2 DEF OgSound
<1> QED BY <1>1, <1>3, <1>4

LEMMA SoundCommit == ASSUME NEW d, NEW n, NEW m, OgSound(d, n, m) PROVE OgSound(After(d, Cmd("COMMIT")), n, m)
<1>1. PICK e : e = After(d, Cmd("COMMIT")) OBVIOUS
<1>2. d \in OgSessions BY DEF OgSound
<1>3. /\ d.tx = "aborted" => e = Undone(d)
      /\ d.tx # "aborted" => e \in OgSessions /\ e.rows = d.rows /\ e.tx = "auto" /\ e.saved = <<>> /\ e.marks = <<>>
  BY <1>1, <1>2, CommitIs
<1>4. CASE d.tx # "aborted"
  <2>1. OgTable(e.rows, n, m) /\ OgTable(e.saved, n, m) /\ Len(e.rows) \in Nat BY <1>2, <1>3, <1>4, EmptyTable, SessionParts DEF OgSound
  <2>2. Len(<<>>) = 0 /\ DOMAIN <<>> = {} OBVIOUS
  <2> QED BY <1>1, <1>3, <1>4, <2>1, <2>2 DEF OgSound
<1> QED BY <1>1, <1>3, <1>4, SoundUndone

LEMMA SoundSave ==
  ASSUME NEW d, NEW n, NEW m, OgSound(d, n, m), d.tx = "open", NEW p \in Savepoints PROVE OgSound(After(d, Save(p)), n, m)
<1>1. PICK e : e = After(d, Save(p)) OBVIOUS
<1>2. d \in OgSessions BY DEF OgSound
<1> DEFINE mark == [name |-> p, rows |-> d.rows]
<1>3. /\ e \in OgSessions /\ e.rows = d.rows /\ e.tx = d.tx /\ e.saved = d.saved
      /\ e.marks = Append(d.marks, mark) /\ mark \in OgMarks
  BY <1>1, <1>2, SaveIs
<1>4. mark.rows = d.rows OBVIOUS
<1> HIDE DEF mark
<1>5. PICK L \in Nat : L = Len(d.marks) BY <1>2, SessionParts
<1>6. /\ DOMAIN d.marks = 1..L /\ DOMAIN e.marks = 1..(L + 1)
      /\ e.marks[L + 1] = mark /\ \A k \in 1..L : e.marks[k] = d.marks[k]
  BY <1>2, <1>3, <1>5, SessionParts
<1>7. \A k \in 1..(L + 1) : (k \in 1..L \/ k = L + 1) /\ (k \in 1..L => k # L + 1) OBVIOUS
<1>8. Len(d.rows) \in Nat BY <1>2, SessionParts
<1>9. \A k \in DOMAIN e.marks : OgTable(e.marks[k].rows, n, m) /\ Len(d.saved) <= Len(e.marks[k].rows) /\ Len(e.marks[k].rows) <= Len(d.rows)
  BY <1>4, <1>6, <1>7, <1>8 DEF OgSound
<1>10. ASSUME NEW j \in DOMAIN e.marks, NEW k \in DOMAIN e.marks, j <= k PROVE Len(e.marks[j].rows) <= Len(e.marks[k].rows)
  <2>1. CASE k = L + 1 BY <1>4, <1>6, <1>9, <2>1
  <2>2. CASE k # L + 1
    <3>1. j \in 1..L /\ k \in 1..L BY <1>6, <1>7, <1>10, <2>2
    <3> QED BY <1>6, <1>10, <3>1 DEF OgSound
  <2> QED BY <2>1, <2>2
<1>11. OgTable(e.rows, n, m) /\ OgTable(e.saved, n, m) /\ Len(e.saved) <= Len(e.rows) /\ e.tx # "auto" BY <1>3 DEF OgSound
<1> QED BY <1>1, <1>3, <1>9, <1>10, <1>11 DEF OgSound

\* The first savepoints of a session.
LEMMA SoundMarks ==
  ASSUME NEW d, NEW n, NEW m, OgSound(d, n, m), NEW k \in 0..Len(d.marks), NEW marks, marks = SubSeq(d.marks, 1, k)
  PROVE  /\ DOMAIN marks = 1..k /\ k \in Nat
         /\ \A j \in DOMAIN marks : j \in DOMAIN d.marks /\ marks[j] = d.marks[j]
BY FirstOf, SessionParts DEF OgSound

LEMMA SoundRollbackTo ==
  ASSUME NEW d, NEW n, NEW m, OgSound(d, n, m), NEW p, d.tx # "auto", MarksOf(d, p) # {} PROVE OgSound(After(d, RollbackTo(p)), n, m)
<1>1. PICK e : e = After(d, RollbackTo(p)) OBVIOUS
<1>2. d \in OgSessions BY DEF OgSound
<1>3. PICK k : k = LastMark(d, p) /\ k \in DOMAIN d.marks BY <1>2, LastMarkIs
<1>4. e \in OgSessions /\ e.rows = d.marks[k].rows /\ e.tx = "open" /\ e.saved = d.saved /\ e.marks = SubSeq(d.marks, 1, k)
  BY <1>1, <1>2, <1>3, RollbackToIs
<1>5. k \in 0..Len(d.marks) BY <1>2, <1>3, SessionParts
<1>6. DOMAIN e.marks = 1..k /\ k \in Nat /\ \A j \in DOMAIN e.marks : j \in DOMAIN d.marks /\ e.marks[j] = d.marks[j]
  BY <1>4, <1>5, SoundMarks
<1>7. \A j \in DOMAIN e.marks : OgTable(e.marks[j].rows, n, m) /\ Len(e.saved) <= Len(e.marks[j].rows) BY <1>4, <1>6 DEF OgSound
<1>8. \A j \in DOMAIN e.marks : Len(e.marks[j].rows) <= Len(e.rows)
  <2>1. ASSUME NEW j \in DOMAIN e.marks PROVE Len(e.marks[j].rows) <= Len(e.rows)
    <3>1. j <= k /\ j \in DOMAIN d.marks BY <1>6
    <3>2. Len(d.marks[j].rows) <= Len(d.marks[k].rows) BY <1>3, <3>1 DEF OgSound
    <3> QED BY <1>4, <1>6, <3>2
  <2> QED BY <2>1
<1>9. \A i, j \in DOMAIN e.marks : i <= j => Len(e.marks[i].rows) <= Len(e.marks[j].rows) BY <1>6 DEF OgSound
<1>10. OgTable(e.rows, n, m) /\ OgTable(e.saved, n, m) /\ Len(e.saved) <= Len(e.rows) BY <1>3, <1>4 DEF OgSound
<1>11. e.tx # "auto" BY <1>4
<1> QED BY <1>1, <1>4, <1>7, <1>8, <1>9, <1>10, <1>11 DEF OgSound

LEMMA SoundRelease ==
  ASSUME NEW d, NEW n, NEW m, OgSound(d, n, m), NEW p, d.tx # "auto", MarksOf(d, p) # {} PROVE OgSound(After(d, Release(p)), n, m)
<1>1. PICK e : e = After(d, Release(p)) OBVIOUS
<1>2. d \in OgSessions BY DEF OgSound
<1>3. PICK k : k = LastMark(d, p) /\ k \in DOMAIN d.marks BY <1>2, LastMarkIs
<1>4. e \in OgSessions /\ e.rows = d.rows /\ e.tx = d.tx /\ e.saved = d.saved /\ e.marks = SubSeq(d.marks, 1, k - 1)
  BY <1>1, <1>2, <1>3, ReleaseIs
<1>5. k - 1 \in 0..Len(d.marks) BY <1>2, <1>3, SessionParts
<1>6. \A j \in DOMAIN e.marks : j \in DOMAIN d.marks /\ e.marks[j] = d.marks[j]
  <2>1. PICK z : z = k - 1 OBVIOUS
  <2> QED BY <1>4, <1>5, <2>1, SoundMarks
<1> QED BY <1>1, <1>4, <1>6 DEF OgSound

LEMMA SoundAbort ==
  ASSUME NEW d, NEW n, NEW m, OgSound(d, n, m), NEW s, s.cmd \notin {"COMMIT", "ROLLBACK"} PROVE OgSound(Failed(d, s), n, m)
<1>1. PICK e : e = Failed(d, s) OBVIOUS
<1>2. d \in OgSessions BY DEF OgSound
<1>3. /\ e \in OgSessions /\ e.rows = d.rows /\ e.saved = d.saved /\ e.marks = d.marks
      /\ e.tx = IF d.tx = "open" THEN "aborted" ELSE d.tx
  BY <1>1, <1>2, AbortIs
<1> QED BY <1>1, <1>3 DEF OgSound
-----------------------------------------------------------------------------
(* Every statement keeps what the host knows *)

LEMMA AgreeUndone ==
  ASSUME NEW b, NEW d, NEW o, d \in OgSessions, OgAgree(b, d, o) PROVE OgAgree(Undone(b), Undone(d), o)
<1>1. PICK e, f : e = Undone(d) /\ f = Undone(b) OBVIOUS
<1>2. b \in OgSessions BY DEF OgAgree
<1>3. /\ e.rows = (IF d.tx = "auto" THEN d.rows ELSE d.saved) /\ e.tx = "auto" /\ e.saved = <<>> /\ e.marks = <<>>
  BY <1>1, UndoneIs
<1>4. /\ f \in OgSessions /\ f.rows = (IF b.tx = "auto" THEN b.rows ELSE b.saved)
      /\ f.tx = "auto" /\ f.saved = <<>> /\ f.marks = <<>>
  BY <1>1, <1>2, UndoneIs
<1>5. OgTold(f.rows, e.rows, o) /\ OgTold(f.saved, e.saved, o) BY <1>3, <1>4, EmptyTable DEF OgAgree
<1>6. DOMAIN <<>> = {} OBVIOUS
<1> QED BY <1>1, <1>3, <1>4, <1>5, <1>6 DEF OgAgree

LEMMA AgreeBegin ==
  ASSUME NEW b, NEW d, NEW o, d \in OgSessions, OgAgree(b, d, o) PROVE OgAgree(After(b, Cmd("BEGIN")), After(d, Cmd("BEGIN")), o)
<1>1. PICK e, f : e = After(d, Cmd("BEGIN")) /\ f = After(b, Cmd("BEGIN")) OBVIOUS
<1>2. b \in OgSessions /\ b.tx = d.tx BY DEF OgAgree
<1>3. /\ d.tx # "auto" => e = d
      /\ d.tx = "auto" => e.rows = d.rows /\ e.tx = "open" /\ e.saved = d.rows /\ e.marks = d.marks
  BY <1>1, BeginIs
<1>4. /\ b.tx # "auto" => f = b
      /\ b.tx = "auto" => f \in OgSessions /\ f.rows = b.rows /\ f.tx = "open" /\ f.saved = b.rows /\ f.marks = b.marks
  BY <1>1, <1>2, BeginIs
<1> QED BY <1>1, <1>2, <1>3, <1>4 DEF OgAgree

LEMMA AgreeCommit ==
  ASSUME NEW b, NEW d, NEW o, d \in OgSessions, OgAgree(b, d, o) PROVE OgAgree(After(b, Cmd("COMMIT")), After(d, Cmd("COMMIT")), o)
<1>1. PICK e, f : e = After(d, Cmd("COMMIT")) /\ f = After(b, Cmd("COMMIT")) OBVIOUS
<1>2. b \in OgSessions /\ b.tx = d.tx BY DEF OgAgree
<1>3. /\ d.tx = "aborted" => e = Undone(d)
      /\ d.tx # "aborted" => e.rows = d.rows /\ e.tx = "auto" /\ e.saved = <<>> /\ e.marks = <<>>
  BY <1>1, CommitIs
<1>4. /\ b.tx = "aborted" => f = Undone(b)
      /\ b.tx # "aborted" => f \in OgSessions /\ f.rows = b.rows /\ f.tx = "auto" /\ f.saved = <<>> /\ f.marks = <<>>
  BY <1>1, <1>2, CommitIs
<1>5. CASE d.tx # "aborted"
  <2>1. OgTold(f.rows, e.rows, o) /\ OgTold(f.saved, e.saved, o) BY <1>2, <1>3, <1>4, <1>5, EmptyTable DEF OgAgree
  <2>2. DOMAIN <<>> = {} OBVIOUS
  <2> QED BY <1>1, <1>2, <1>3, <1>4, <1>5, <2>1, <2>2 DEF OgAgree
<1> QED BY <1>1, <1>2, <1>3, <1>4, <1>5, AgreeUndone

LEMMA AgreeSave ==
  ASSUME NEW b, NEW d, NEW o, d \in OgSessions, OgAgree(b, d, o), NEW p \in Savepoints
  PROVE  OgAgree(After(b, Save(p)), After(d, Save(p)), o)
<1>1. PICK e, f : e = After(d, Save(p)) /\ f = After(b, Save(p)) OBVIOUS
<1>2. b \in OgSessions BY DEF OgAgree
<1> DEFINE md == [name |-> p, rows |-> d.rows]
           mb == [name |-> p, rows |-> b.rows]
<1>3. e \in OgSessions /\ e.rows = d.rows /\ e.tx = d.tx /\ e.saved = d.saved /\ e.marks = Append(d.marks, md) /\ md \in OgMarks
  BY <1>1, SaveIs
<1>4. f \in OgSessions /\ f.rows = b.rows /\ f.tx = b.tx /\ f.saved = b.saved /\ f.marks = Append(b.marks, mb) /\ mb \in OgMarks
  BY <1>1, <1>2, SaveIs
<1>5. md.name = mb.name /\ md.rows = d.rows /\ mb.rows = b.rows OBVIOUS
<1> HIDE DEF md, mb
<1>6. PICK L \in Nat : L = Len(d.marks) BY SessionParts
<1>7. Len(b.marks) = L
  <2>1. d.marks \in Seq(OgMarks) /\ b.marks \in Seq(OgMarks) /\ DOMAIN b.marks = DOMAIN d.marks BY <1>2, SessionParts DEF OgAgree
  <2> QED BY <1>6, <2>1
<1>8. /\ DOMAIN d.marks = 1..L /\ DOMAIN e.marks = 1..(L + 1) /\ e.marks[L + 1] = md /\ \A k \in 1..L : e.marks[k] = d.marks[k]
  BY <1>3, <1>6, SessionParts
<1>9. /\ DOMAIN b.marks = 1..L /\ DOMAIN f.marks = 1..(L + 1) /\ f.marks[L + 1] = mb /\ \A k \in 1..L : f.marks[k] = b.marks[k]
  BY <1>2, <1>4, <1>7, SessionParts
<1>10. \A k \in 1..(L + 1) : k \in 1..L \/ k = L + 1 OBVIOUS
<1>11. ASSUME NEW k \in DOMAIN e.marks PROVE f.marks[k].name = e.marks[k].name /\ OgTold(f.marks[k].rows, e.marks[k].rows, o)
  BY <1>5, <1>8, <1>9, <1>10, <1>11 DEF OgAgree
<1> QED BY <1>1, <1>3, <1>4, <1>8, <1>9, <1>11 DEF OgAgree

\* Both know the same savepoints.
LEMMA AgreeMarks ==
  ASSUME NEW b, NEW d, NEW o, d \in OgSessions, OgAgree(b, d, o), NEW p
  PROVE  /\ b \in OgSessions /\ Len(b.marks) = Len(d.marks) /\ MarksOf(b, p) = MarksOf(d, p) /\ LastMark(b, p) = LastMark(d, p)
<1>1. b \in OgSessions /\ DOMAIN b.marks = DOMAIN d.marks /\ \A k \in DOMAIN d.marks : b.marks[k].name = d.marks[k].name BY DEF OgAgree
<1>2. MarksOf(b, p) = MarksOf(d, p) BY <1>1 DEF MarksOf
<1>3. LastMark(b, p) = LastMark(d, p) BY <1>2 DEF LastMark
<1>4. Len(b.marks) = Len(d.marks)
  <2>1. d.marks \in Seq(OgMarks) /\ b.marks \in Seq(OgMarks) BY <1>1, SessionParts
  <2> QED BY <1>1, <2>1
<1> QED BY <1>1, <1>2, <1>3, <1>4

LEMMA AgreeRollbackTo ==
  ASSUME NEW b, NEW d, NEW o, d \in OgSessions, OgAgree(b, d, o), NEW p, MarksOf(d, p) # {}
  PROVE  OgAgree(After(b, RollbackTo(p)), After(d, RollbackTo(p)), o)
<1>1. PICK e, f : e = After(d, RollbackTo(p)) /\ f = After(b, RollbackTo(p)) OBVIOUS
<1>2. b \in OgSessions /\ MarksOf(b, p) # {} /\ LastMark(b, p) = LastMark(d, p) BY AgreeMarks
<1>3. PICK k : k = LastMark(d, p) /\ k \in DOMAIN d.marks BY LastMarkIs
<1>4. e.rows = d.marks[k].rows /\ e.tx = "open" /\ e.saved = d.saved /\ e.marks = SubSeq(d.marks, 1, k)
  BY <1>1, <1>3, RollbackToIs
<1>5. f \in OgSessions /\ f.rows = b.marks[k].rows /\ f.tx = "open" /\ f.saved = b.saved /\ f.marks = SubSeq(b.marks, 1, k)
  BY <1>1, <1>2, <1>3, RollbackToIs
<1>6. k \in 0..Len(d.marks) BY <1>3, SessionParts
<1>7. DOMAIN f.marks = DOMAIN e.marks /\ \A j \in DOMAIN e.marks : f.marks[j].name = e.marks[j].name /\ OgTold(f.marks[j].rows, e.marks[j].rows, o)
  <2>1. d.marks \in Seq(OgMarks) /\ b.marks \in Seq(OgMarks) /\ k \in 0..Len(b.marks) /\ k \in 0..Len(d.marks)
    BY <1>6, AgreeMarks, SessionParts
  <2>2. DOMAIN e.marks = 1..k /\ \A i \in 1..k : i \in DOMAIN d.marks /\ e.marks[i] = d.marks[i] BY <1>4, <2>1, FirstOf
  <2>3. DOMAIN f.marks = 1..k /\ \A i \in 1..k : i \in DOMAIN b.marks /\ f.marks[i] = b.marks[i] BY <1>5, <2>1, FirstOf
  <2> QED BY <2>2, <2>3 DEF OgAgree
<1>8. OgTold(f.rows, e.rows, o) /\ OgTold(f.saved, e.saved, o) /\ f.tx = e.tx BY <1>3, <1>4, <1>5 DEF OgAgree
<1> QED BY <1>1, <1>5, <1>7, <1>8 DEF OgAgree

LEMMA AgreeRelease ==
  ASSUME NEW b, NEW d, NEW o, d \in OgSessions, OgAgree(b, d, o), NEW p, MarksOf(d, p) # {}
  PROVE  OgAgree(After(b, Release(p)), After(d, Release(p)), o)
<1>1. PICK e, f : e = After(d, Release(p)) /\ f = After(b, Release(p)) OBVIOUS
<1>2. b \in OgSessions /\ MarksOf(b, p) # {} /\ LastMark(b, p) = LastMark(d, p) BY AgreeMarks
<1>3. PICK k : k = LastMark(d, p) /\ k \in DOMAIN d.marks BY LastMarkIs
<1>4. e.rows = d.rows /\ e.tx = d.tx /\ e.saved = d.saved /\ e.marks = SubSeq(d.marks, 1, k - 1)
  BY <1>1, <1>3, ReleaseIs
<1>5. f \in OgSessions /\ f.rows = b.rows /\ f.tx = b.tx /\ f.saved = b.saved /\ f.marks = SubSeq(b.marks, 1, k - 1)
  BY <1>1, <1>2, <1>3, ReleaseIs
<1>6. PICK z : z = k - 1 OBVIOUS
<1>7. z \in 0..Len(d.marks) BY <1>3, <1>6, SessionParts
<1>8. DOMAIN f.marks = DOMAIN e.marks /\ \A j \in DOMAIN e.marks : f.marks[j].name = e.marks[j].name /\ OgTold(f.marks[j].rows, e.marks[j].rows, o)
  <2>1. d.marks \in Seq(OgMarks) /\ b.marks \in Seq(OgMarks) /\ z \in 0..Len(b.marks) /\ z \in 0..Len(d.marks)
    BY <1>7, AgreeMarks, SessionParts
  <2>2. DOMAIN e.marks = 1..z /\ \A i \in 1..z : i \in DOMAIN d.marks /\ e.marks[i] = d.marks[i]
    <3>1. e.marks = SubSeq(d.marks, 1, z) BY <1>4, <1>6
    <3> QED BY <2>1, <3>1, FirstOf
  <2>3. DOMAIN f.marks = 1..z /\ \A i \in 1..z : i \in DOMAIN b.marks /\ f.marks[i] = b.marks[i]
    <3>1. f.marks = SubSeq(b.marks, 1, z) BY <1>5, <1>6
    <3> QED BY <2>1, <3>1, FirstOf
  <2> QED BY <2>2, <2>3 DEF OgAgree
<1>9. OgTold(f.rows, e.rows, o) /\ OgTold(f.saved, e.saved, o) /\ f.tx = e.tx BY <1>4, <1>5 DEF OgAgree
<1> QED BY <1>1, <1>5, <1>8, <1>9 DEF OgAgree

LEMMA AgreeAbort ==
  ASSUME NEW b, NEW d, NEW o, d \in OgSessions, OgAgree(b, d, o), NEW s, s.cmd \notin {"COMMIT", "ROLLBACK"}
  PROVE  OgAgree(Failed(b, s), Failed(d, s), o)
<1>1. PICK e, f : e = Failed(d, s) /\ f = Failed(b, s) OBVIOUS
<1>2. b \in OgSessions BY DEF OgAgree
<1>3. e.rows = d.rows /\ e.saved = d.saved /\ e.marks = d.marks /\ e.tx = IF d.tx = "open" THEN "aborted" ELSE d.tx BY <1>1, AbortIs
<1>4. /\ f \in OgSessions /\ f.rows = b.rows /\ f.saved = b.saved /\ f.marks = b.marks
      /\ f.tx = IF b.tx = "open" THEN "aborted" ELSE b.tx
  BY <1>1, <1>2, AbortIs
<1> QED BY <1>1, <1>3, <1>4 DEF OgAgree
-----------------------------------------------------------------------------
(* New rows *)

\* Rows n + 1 .. n + c, all of one import or of none.
OgFresh(new, n, c, i) ==
  /\ new \in Seq(OgRow) /\ Len(new) = c /\ \A k \in 1..c : new[k].id = n + k /\ new[k].by = i

LEMMA NewRowsFresh == ASSUME ogRows \in Nat, NEW c \in Nat, NEW i \in Nat PROVE OgFresh(OgNewRows(c, i), ogRows, c, i)
<1>1. \A k \in 1..c : NewRow(k, i) \in OgRow /\ NewRow(k, i).id = ogRows + k /\ NewRow(k, i).by = i BY DEF NewRow, OgRow
<1> QED BY <1>1 DEF OgFresh, OgNewRows

\* A table with new rows at its end.
LEMMA TableGrows ==
  ASSUME NEW n \in Nat, NEW m \in Nat, NEW t, OgTable(t, n, m), NEW c \in Nat, NEW i \in Nat, i <= m, NEW new, OgFresh(new, n, c, i)
  PROVE  OgTable(t \o new, n + c, m) /\ Len(t \o new) = Len(t) + c
<1>1. PICK L \in Nat : L = Len(t) /\ DOMAIN t = 1..L BY DEF OgTable
<1>2. t \in Seq(OgRow) /\ new \in Seq(OgRow) /\ Len(new) = c BY DEF OgTable, OgFresh
<1>3. /\ t \o new \in Seq(OgRow) /\ Len(t \o new) = L + c /\ DOMAIN (t \o new) = 1..(L + c)
      /\ \A k \in 1..L : (t \o new)[k] = t[k]
      /\ \A k \in (L + 1)..(L + c) : k - L \in 1..c /\ (t \o new)[k] = new[k - L]
  BY <1>1, <1>2
<1>4. PICK s : s = t \o new OBVIOUS
<1>5. \A k \in 1..L : t[k] \in OgRow BY <1>1, <1>2
<1>6. \A k \in 1..L : s[k] = t[k] /\ s[k].id \in Nat /\ s[k].id <= n /\ s[k].by \in Nat /\ s[k].by <= m
  BY <1>1, <1>3, <1>4, <1>5 DEF OgTable, OgRow
<1>7. \A k \in (L + 1)..(L + c) : s[k].id = n + (k - L) /\ s[k].by = i BY <1>3, <1>4 DEF OgFresh
<1>8. \A k \in 1..(L + c) : k \in 1..L \/ k \in (L + 1)..(L + c) OBVIOUS
<1>9. ASSUME NEW k \in 1..(L + c) PROVE s[k].id <= n + c /\ s[k].by <= m
  <2>1. CASE k \in 1..L BY <1>6, <2>1
  <2>2. CASE k \in (L + 1)..(L + c) BY <1>7, <2>2
  <2> QED BY <1>8, <2>1, <2>2
<1>10. ASSUME NEW j \in 1..(L + c), NEW k \in 1..(L + c), j < k PROVE s[j].id < s[k].id
  <2>1. CASE k \in 1..L
    <3>1. j \in 1..L BY <1>10, <2>1
    <3> QED BY <1>1, <1>6, <1>10, <2>1, <3>1 DEF OgTable, InOrder
  <2>2. CASE k \in (L + 1)..(L + c)
    <3>1. CASE j \in 1..L BY <1>6, <1>7, <2>2, <3>1
    <3>2. CASE j \in (L + 1)..(L + c) BY <1>7, <1>10, <2>2, <3>2
    <3> QED BY <1>8, <3>1, <3>2
  <2> QED BY <1>8, <2>1, <2>2
<1>11. InOrder(s) BY <1>3, <1>4, <1>10 DEF InOrder
<1> QED BY <1>1, <1>3, <1>4, <1>9, <1>11 DEF OgTable

LEMMA SoundGrows ==
  ASSUME NEW n \in Nat, NEW m \in Nat, NEW d, OgSound(d, n, m), NEW c \in Nat, NEW i \in Nat, i <= m, NEW new, OgFresh(new, n, c, i)
  PROVE  OgSound(InsertAll(d, new), n + c, m)
<1>1. PICK e : e = InsertAll(d, new) OBVIOUS
<1>2. d \in OgSessions /\ new \in Seq(OgRow) /\ OgTable(d.rows, n, m) BY DEF OgSound, OgFresh
<1>3. e \in OgSessions /\ e.rows = d.rows \o new /\ e.saved = d.saved /\ e.marks = d.marks /\ e.tx = d.tx BY <1>1, <1>2, InsertAllIs
<1>4. OgTable(e.rows, n + c, m) /\ Len(e.rows) = Len(d.rows) + c
  <2>1. PICK t : t = d.rows /\ OgTable(t, n, m) BY <1>2
  <2>2. OgTable(t \o new, n + c, m) BY <2>1, TableGrows
  <2>3. Len(t \o new) = Len(t) + c
    <3>1. t \in Seq(OgRow) BY <2>1 DEF OgTable
    <3>2. new \in Seq(OgRow) /\ Len(new) = c BY DEF OgFresh
    <3>3. Len(t \o new) = Len(t) + Len(new) BY <3>1, <3>2, ConcatProperties
    <3> QED BY <3>2, <3>3
  <2> QED BY <1>3, <2>1, <2>2, <2>3
<1>5. OgSound(d, n + c, m) BY SoundLater
<1>6. Len(d.rows) \in Nat /\ Len(d.saved) \in Nat BY <1>2, SessionParts
<1>7. \A k \in DOMAIN d.marks : Len(d.marks[k].rows) \in Nat
  <2>1. \A k \in DOMAIN d.marks : d.marks[k].rows \in Seq(OgRow) BY DEF OgSound, OgTable
  <2> QED BY <2>1
<1>8. Len(e.saved) <= Len(e.rows) /\ \A k \in DOMAIN d.marks : Len(d.marks[k].rows) <= Len(e.rows)
  BY <1>3, <1>4, <1>6, <1>7 DEF OgSound
<1> QED BY <1>1, <1>3, <1>4, <1>5, <1>8 DEF OgSound

\* Rows that are new were never hidden, and are in no table yet.
LEMMA ToldGrows ==
  ASSUME NEW n \in Nat, NEW m \in Nat, NEW t, OgTable(t, n, m), NEW c \in Nat, NEW i \in Nat, i <= m, NEW new, OgFresh(new, n, c, i),
         NEW o \in SUBSET (1..n), NEW b, OgTold(b, t, o)
  PROVE  /\ OgTold(b \o new, t \o new, o)
         /\ OgTold(b, t \o new, o \cup {n + k : k \in 1..c}) /\ OgTold(b, t, o \cup {n + k : k \in 1..c})
<1>1. b \in Seq(OgRow) /\ t \in Seq(OgRow) /\ new \in Seq(OgRow) /\ Len(new) = c BY DEF OgTold, OgTable, OgFresh
<1>2. Range(t \o new) = Range(t) \cup Range(new) /\ Range(b \o new) = Range(b) \cup Range(new) BY <1>1, RangeConcatenation
<1>3. \A r \in Range(t) : r \in OgRow /\ r.id \in Nat /\ r.id <= n
  <2>1. ASSUME NEW k \in DOMAIN t PROVE t[k] \in OgRow /\ t[k].id <= n BY <1>1 DEF OgTable
  <2>2. \A r \in Range(t) : r \in OgRow /\ r.id <= n BY <2>1 DEF Range
  <2> QED BY <2>2 DEF OgRow
<1>4. \A r \in Range(new) : \E k \in 1..c : r.id = n + k
  <2>1. DOMAIN new = 1..c BY <1>1
  <2> QED BY <2>1 DEF Range, OgFresh
<1>5. Range(b) = {r \in Range(t) : r.id \notin o} /\ InOrder(b) BY DEF OgTold, IsTold
<1>6. PICK h : h = o \cup {n + k : k \in 1..c} OBVIOUS
<1>7. \A r \in Range(t) : r.id \in h <=> r.id \in o
  <2>1. ASSUME NEW r \in Range(t), NEW k \in 1..c PROVE r.id # n + k BY <1>3
  <2> QED BY <1>6, <2>1
<1>8. \A r \in Range(new) : r.id \in h /\ r.id \notin o
  <2>1. \A k \in 1..c : n + k \in h /\ n + k \notin o BY <1>6
  <2> QED BY <1>4, <2>1
<1>9. Range(b \o new) = {r \in Range(t \o new) : r.id \notin o} BY <1>2, <1>5, <1>8
<1>10. Range(b) = {r \in Range(t \o new) : r.id \notin h} /\ Range(b) = {r \in Range(t) : r.id \notin h} BY <1>2, <1>5, <1>7, <1>8
<1>11. OgTable(b, n, m)
  <2>1. ASSUME NEW k \in DOMAIN b PROVE b[k].id <= n /\ b[k].by <= m
    <3>1. b[k] \in Range(t) BY <1>5 DEF Range
    <3>2. PICK j \in DOMAIN t : b[k] = t[j] BY <3>1 DEF Range
    <3> QED BY <3>2 DEF OgTable
  <2> QED BY <1>1, <1>5, <2>1 DEF OgTable
<1>12. b \o new \in Seq(OgRow) /\ InOrder(b \o new) BY <1>11, TableGrows DEF OgTable
<1> QED BY <1>1, <1>5, <1>6, <1>9, <1>10, <1>12 DEF OgTold, IsTold

LEMMA AgreeGrows ==
  ASSUME NEW n \in Nat, NEW m \in Nat, NEW d, OgSound(d, n, m), NEW c \in Nat, NEW i \in Nat, i <= m, NEW new, OgFresh(new, n, c, i),
         NEW o \in SUBSET (1..n), NEW b, OgAgree(b, d, o)
  PROVE  /\ OgAgree(InsertAll(b, new), InsertAll(d, new), o)
         /\ OgAgree(b, InsertAll(d, new), o \cup {n + k : k \in 1..c})
<1>1. PICK e, f : e = InsertAll(d, new) /\ f = InsertAll(b, new) OBVIOUS
<1>2. d \in OgSessions /\ b \in OgSessions /\ new \in Seq(OgRow) BY DEF OgSound, OgAgree, OgFresh
<1>3. e \in OgSessions /\ e.rows = d.rows \o new /\ e.saved = d.saved /\ e.marks = d.marks /\ e.tx = d.tx BY <1>1, <1>2, InsertAllIs
<1>4. f \in OgSessions /\ f.rows = b.rows \o new /\ f.saved = b.saved /\ f.marks = b.marks /\ f.tx = b.tx BY <1>1, <1>2, InsertAllIs
<1>5. PICK h : h = o \cup {n + k : k \in 1..c} OBVIOUS
<1>6. ASSUME NEW t, NEW s, OgTable(t, n, m), OgTold(s, t, o) PROVE OgTold(s, t, h) /\ OgTold(s, t \o new, h) /\ OgTold(s \o new, t \o new, o)
  BY <1>5, <1>6, ToldGrows
<1>7. OgTold(f.rows, e.rows, o) /\ OgTold(b.rows, e.rows, h) BY <1>3, <1>4, <1>6 DEF OgSound, OgAgree
<1>8. OgTold(b.saved, d.saved, h) /\ \A k \in DOMAIN d.marks : OgTold(b.marks[k].rows, d.marks[k].rows, h) BY <1>6 DEF OgSound, OgAgree
<1>9. OgAgree(f, e, o) BY <1>3, <1>4, <1>7 DEF OgAgree
<1>10. OgAgree(b, e, h) BY <1>3, <1>7, <1>8 DEF OgAgree
<1> QED BY <1>1, <1>5, <1>9, <1>10
-----------------------------------------------------------------------------
(* The inductive invariant of an openGauss connection *)

OgImportRecs == [kind : {"import"}, limit : Nat \cup {Unlimited}, track : BOOLEAN, inserted : Nat, failed : Nat, next_row : Nat]
OgCursorRecs == [kind : {"cursor"}, rows : Seq(OgRow), next : Nat, max : Nat \cup {Unlimited}, done : BOOLEAN,
                 cancelled : BOOLEAN, got : Seq(OgRow)]
OgStreamRecs == [kind : {"stream"}, data : Seq(Nat), offset : Nat, got : Seq(Nat)]

\* The server's session is sound, and the host knows it.
SessionInv ==
  /\ ogRows \in Nat /\ orphans \in SUBSET (1..ogRows) /\ lost \in BOOLEAN /\ swallowed \in BOOLEAN
  /\ OgSound(db, ogRows, Len(ogImports))
  /\ ~swallowed => OgAgree(belief, db, orphans)

\* A transaction of the server has an id.
IdsInv ==
  /\ conn \in {"open", "closed"} /\ next_tx \in Nat \ {0} /\ tx_conn \in SUBSET (1..(next_tx - 1))
  /\ conn = "open" /\ db.tx # "auto" => tx_conn # {}

\* The imports: what an id that was not given out yet stands for is nothing.
ImportsInv ==
  /\ ogImports \in Seq(OgImportRecs \cup {OgNone}) /\ Len(ogImports) <= OgMaxImports
  /\ skipped \in [1..OgMaxImports -> Nat] /\ \A i \in 1..OgMaxImports : i > Len(ogImports) => skipped[i] = 0
  /\ ImportsAccounted

\* A cursor has delivered what it went over, and stops where it must.
OgCursorOK(c) ==
  /\ c \in OgCursorRecs /\ c.next <= Len(c.rows) /\ (c.max # Unlimited => c.next <= c.max)
  /\ c.got = SubSeq(c.rows, 1, c.next) /\ (~c.done => ~c.cancelled /\ c.max # 0)
  /\ ~c.cancelled /\ c.done => c.next = OgAtMost(Len(c.rows), c.max)
  /\ c.next = OgAtMost(Len(c.rows), c.max) /\ c.next # 0 => c.done

OgStreamOK(s) == s \in OgStreamRecs /\ s.offset <= Len(s.data) /\ s.got = SubSeq(s.data, 1, s.offset)

OgReadsInv ==
  /\ ogCursors \in Seq(OgCursorRecs \cup {OgNone})
  /\ \A c \in DOMAIN ogCursors : ogCursors[c] = OgNone \/ OgCursorOK(ogCursors[c])
  /\ DOMAIN ogStreams = OgStreamIds
  /\ \A s \in OgStreamIds : ogStreams[s] = OgNone \/ OgStreamOK(ogStreams[s])

OgInv == SessionInv /\ IdsInv /\ ImportsInv /\ OgReadsInv
-----------------------------------------------------------------------------
(* Statements *)

OgStatement(s) ==
  \/ s = Cmd("BEGIN") \/ s = Cmd("COMMIT") \/ s = Cmd("ROLLBACK")
  \/ \E p \in Savepoints : s = Save(p) \/ s = RollbackTo(p) \/ s = Release(p)

\* A statement adds no row.
NoLonger(d, e) == Len(e.rows) <= Len(d.rows)

LEMMA UndoneShorter == ASSUME NEW d, NEW n, NEW m, OgSound(d, n, m) PROVE NoLonger(d, Undone(d))
<1>1. PICK e : e = Undone(d) OBVIOUS
<1>2. d \in OgSessions BY DEF OgSound
<1>3. e.rows = (IF d.tx = "auto" THEN d.rows ELSE d.saved) BY <1>1, <1>2, UndoneIs
<1>4. Len(d.rows) \in Nat BY <1>2, SessionParts
<1> QED BY <1>1, <1>3, <1>4 DEF OgSound, NoLonger

LEMMA StatementRuns ==
  ASSUME NEW s, OgStatement(s), NEW d, NEW n, NEW m, OgSound(d, n, m), Accepts(d, s)
  PROVE  /\ OgSound(After(d, s), n, m) /\ NoLonger(d, After(d, s))
         /\ \A b, o : OgAgree(b, d, o) => OgAgree(After(b, s), After(d, s), o)
<1> DEFINE Kept == /\ OgSound(After(d, s), n, m) /\ NoLonger(d, After(d, s))
                    /\ \A b, o : OgAgree(b, d, o) => OgAgree(After(b, s), After(d, s), o)
<1>1. d \in OgSessions /\ Len(d.rows) \in Nat BY SessionParts DEF OgSound
<1>2. CASE s = Cmd("BEGIN")
  <2>1. After(d, Cmd("BEGIN")).rows = d.rows BY <1>1, BeginIs
  <2> QED BY <1>1, <1>2, <2>1, SoundBegin, AgreeBegin DEF NoLonger
<1>3. CASE s = Cmd("COMMIT")
  <2>1. d.tx # "aborted" => After(d, Cmd("COMMIT")).rows = d.rows BY <1>1, CommitIs
  <2>2. d.tx = "aborted" => After(d, Cmd("COMMIT")) = Undone(d) BY <1>1, CommitIs
  <2>3. NoLonger(d, After(d, s)) BY <1>1, <1>3, <2>1, <2>2, UndoneShorter DEF NoLonger
  <2> QED BY <1>1, <1>3, <2>3, SoundCommit, AgreeCommit
<1>4. CASE s = Cmd("ROLLBACK")
  <2>1. \A b : After(b, s) = Undone(b) BY <1>4, RollbackIs
  <2> QED BY <1>1, <2>1, SoundUndone, UndoneShorter, AgreeUndone
<1>5. ASSUME NEW p \in Savepoints, s = Save(p) PROVE Kept
  <2>1. d.tx = "open" BY <1>5 DEF Accepts, Save
  <2>2. After(d, s).rows = d.rows BY <1>1, <1>5, SaveIs
  <2>3. OgSound(After(d, s), n, m) BY <1>5, <2>1, SoundSave
  <2>4. \A b, o : OgAgree(b, d, o) => OgAgree(After(b, s), After(d, s), o) BY <1>1, <1>5, AgreeSave
  <2> QED BY <1>1, <2>2, <2>3, <2>4 DEF NoLonger
<1>6. ASSUME NEW p \in Savepoints, s = RollbackTo(p) PROVE Kept
  <2>1. d.tx # "auto" /\ MarksOf(d, p) # {} BY <1>6 DEF Accepts, RollbackTo
  <2>2. PICK k : k = LastMark(d, p) /\ k \in DOMAIN d.marks BY <1>1, <2>1, LastMarkIs
  <2>3. After(d, s).rows = d.marks[k].rows BY <1>1, <1>6, <2>1, <2>2, RollbackToIs
  <2>4. OgSound(After(d, s), n, m) BY <1>6, <2>1, SoundRollbackTo
  <2>5. \A b, o : OgAgree(b, d, o) => OgAgree(After(b, s), After(d, s), o) BY <1>1, <1>6, <2>1, AgreeRollbackTo
  <2>6. NoLonger(d, After(d, s)) BY <2>2, <2>3 DEF NoLonger, OgSound
  <2> QED BY <2>4, <2>5, <2>6
<1>7. ASSUME NEW p \in Savepoints, s = Release(p) PROVE Kept
  <2>1. d.tx # "auto" /\ MarksOf(d, p) # {} BY <1>7 DEF Accepts, Release
  <2>2. After(d, s).rows = d.rows BY <1>1, <1>7, <2>1, ReleaseIs
  <2>3. OgSound(After(d, s), n, m) BY <1>7, <2>1, SoundRelease
  <2>4. \A b, o : OgAgree(b, d, o) => OgAgree(After(b, s), After(d, s), o) BY <1>1, <1>7, <2>1, AgreeRelease
  <2> QED BY <1>1, <2>2, <2>3, <2>4 DEF NoLonger
<1> QED BY <1>2, <1>3, <1>4, <1>5, <1>6, <1>7 DEF OgStatement

LEMMA FailureKeeps ==
  ASSUME NEW s, NEW d, NEW n, NEW m, OgSound(d, n, m)
  PROVE  /\ OgSound(Failed(d, s), n, m) /\ NoLonger(d, Failed(d, s))
         /\ \A b, o : OgAgree(b, d, o) => OgAgree(Failed(b, s), Failed(d, s), o)
<1>1. d \in OgSessions /\ Len(d.rows) \in Nat BY SessionParts DEF OgSound
<1>2. CASE s.cmd \in {"COMMIT", "ROLLBACK"}
  <2>1. \A b : Failed(b, s) = Undone(b) BY <1>2 DEF Failed
  <2> QED BY <1>1, <2>1, SoundUndone, UndoneShorter, AgreeUndone
<1>3. CASE s.cmd \notin {"COMMIT", "ROLLBACK"}
  <2>1. Failed(d, s).rows = d.rows BY <1>1, <1>3, AbortIs
  <2> QED BY <1>1, <1>3, <2>1, SoundAbort, AgreeAbort DEF NoLonger
<1> QED BY <1>2, <1>3

\* A table that is no longer, and that the old one is a prefix of, is the old one.
LEMMA PrefixSame ==
  ASSUME NEW S, NEW s \in Seq(S), NEW t \in Seq(S), IsPrefix(s, t), Len(t) <= Len(s) PROVE t = s
<1>1. Len(s) = Len(t) BY DEF IsPrefix
<1>2. SubSeq(s, 1, Len(s)) = SubSeq(t, 1, Len(t)) BY <1>1 DEF IsPrefix
<1> QED BY <1>2, SubSeqFull

\* One statement sent to the server, and answered.
LEMMA ExecuteKeeps ==
  ASSUME SessionInv, NEW s, OgStatement(s), SimpleExecute(s, s), ogImports' = ogImports
  PROVE  SessionInv' /\ (~lost' => ~lost /\ db'.rows = db.rows) /\ (db' = Failed(db, s) \/ (Accepts(db, s) /\ db' = After(db, s)))
<1>1. OgSound(db, ogRows, Len(ogImports)) /\ (~swallowed => OgAgree(belief, db, orphans)) BY DEF SessionInv
<1>2. /\ UNCHANGED <<orphans, ogRows, skipped, swallowed>> /\ lost' = (lost \/ ~IsPrefix(db.rows, db'.rows))
  BY DEF SimpleExecute, Noted
<1>3. \/ Accepts(db, s) /\ db' = After(db, s) /\ belief' = After(belief, s)
      \/ db' = Failed(db, s) /\ belief' = Failed(belief, s)
  BY DEF SimpleExecute
<1>4. OgSound(db', ogRows, Len(ogImports)) /\ NoLonger(db, db') /\ (~swallowed => OgAgree(belief', db', orphans))
  <2>1. CASE Accepts(db, s) /\ db' = After(db, s) /\ belief' = After(belief, s) BY <1>1, <2>1, StatementRuns
  <2>2. CASE db' = Failed(db, s) /\ belief' = Failed(belief, s) BY <1>1, <2>2, FailureKeeps
  <2> QED BY <1>3, <2>1, <2>2
<1>5. db.rows \in Seq(OgRow) /\ db'.rows \in Seq(OgRow) BY <1>1, <1>4 DEF OgSound, OgTable
<1>6. IsPrefix(db.rows, db'.rows) => db'.rows = db.rows BY <1>4, <1>5, PrefixSame DEF NoLonger
<1>7. SessionInv' BY <1>2, <1>4 DEF SessionInv
<1> QED BY <1>2, <1>3, <1>6, <1>7
-----------------------------------------------------------------------------
(* Counting rows *)

OgOwned(t, i) == {k \in DOMAIN t : t[k].by = i}

LEMMA OgOwnedFinite ==
  ASSUME NEW t \in Seq(OgRow), NEW i PROVE IsFiniteSet(OgOwned(t, i)) /\ Cardinality(OgOwned(t, i)) \in Nat
<1>1. OgOwned(t, i) \in SUBSET (1..Len(t)) /\ Len(t) \in Nat BY DEF OgOwned
<1>2. IsFiniteSet(1..Len(t)) BY <1>1, FS_Interval
<1>3. IsFiniteSet(OgOwned(t, i)) BY <1>1, <1>2, FS_Subset
<1> QED BY <1>3, FS_CardinalityType

\* New rows count for their import and for no other.
LEMMA OgCountGrows ==
  ASSUME NEW t \in Seq(OgRow), NEW n \in Nat, NEW c \in Nat, NEW j \in Nat, NEW new, OgFresh(new, n, c, j), NEW i \in Nat
  PROVE  Cardinality(OgOwned(t \o new, i)) = Cardinality(OgOwned(t, i)) + (IF i = j THEN c ELSE 0)
<1>1. new \in Seq(OgRow) /\ Len(new) = c /\ \A k \in 1..c : new[k].by = j BY DEF OgFresh
<1>2. PICK L \in Nat : L = Len(t) /\ DOMAIN t = 1..L OBVIOUS
<1>3. /\ DOMAIN (t \o new) = 1..(L + c) /\ \A k \in 1..L : (t \o new)[k] = t[k]
      /\ \A k \in (L + 1)..(L + c) : k - L \in 1..c /\ (t \o new)[k] = new[k - L]
  BY <1>1, <1>2
<1>4. IsFiniteSet(OgOwned(t, i)) /\ Cardinality(OgOwned(t, i)) \in Nat BY OgOwnedFinite
<1>5. \A k \in (L + 1)..(L + c) : (t \o new)[k].by = j BY <1>1, <1>3
<1>6. CASE i # j
  <2>1. \A k \in 1..(L + c) : k \in 1..L \/ k \in (L + 1)..(L + c) OBVIOUS
  <2>2. \A k \in 1..L : k \in 1..(L + c) OBVIOUS
  <2>3. OgOwned(t \o new, i) = OgOwned(t, i) BY <1>2, <1>3, <1>5, <1>6, <2>1, <2>2 DEF OgOwned
  <2> QED BY <1>4, <1>6, <2>3
<1>7. CASE i = j
  <2> DEFINE I == (L + 1)..(L + c)
  <2>1. IsFiniteSet(I) /\ Cardinality(I) = c
    <3>1. PICK a, b \in Int : a = L + 1 /\ b = L + c OBVIOUS
    <3>2. IsFiniteSet(a..b) /\ Cardinality(a..b) = IF a > b THEN 0 ELSE b - a + 1 BY FS_Interval
    <3>3. (IF a > b THEN 0 ELSE b - a + 1) = c BY <3>1
    <3> QED BY <3>1, <3>2, <3>3
  <2>2. \A k \in 1..(L + c) : k \in 1..L \/ k \in I OBVIOUS
  <2>3. \A k \in 1..L : k \in 1..(L + c) /\ k \notin I OBVIOUS
  <2>4. \A k \in I : k \in 1..(L + c) OBVIOUS
  <2> HIDE DEF I
  <2>5. OgOwned(t \o new, i) = OgOwned(t, i) \cup I BY <1>2, <1>3, <1>5, <1>7, <2>2, <2>3, <2>4 DEF OgOwned, I
  <2>6. OgOwned(t, i) \cap I = {} BY <1>2, <2>3 DEF OgOwned
  <2>7. Cardinality(OgOwned(t, i) \cup I) = Cardinality(OgOwned(t, i)) + Cardinality(I) - Cardinality(OgOwned(t, i) \cap I)
    BY <1>4, <2>1, FS_Union
  <2>8. Cardinality(OgOwned(t, i) \cap I) = 0 BY <2>6, FS_EmptySet
  <2> QED BY <1>4, <1>7, <2>1, <2>5, <2>7, <2>8
<1> QED BY <1>6, <1>7

\* The results of a chunk, counted.
LEMMA ThoseAre ==
  ASSUME NEW R, NEW results \in SeqOf(R, OgMaxChunk)
  PROVE  /\ results \in Seq(R) /\ \A kinds : Those(results, kinds) \in Nat
         /\ Those(results, {"ok", "skipped"}) = Those(results, {"ok"}) + Those(results, {"skipped"})
<1>0. OgMaxChunk \in Nat BY OpenGaussAssumption
<1>1. PICK z \in 0..OgMaxChunk : results \in [1..z -> R] BY DEF SeqOf
<1>2. z \in Nat /\ DOMAIN results = 1..z /\ results \in Seq(R) BY <1>0, <1>1
<1> DEFINE T(kinds) == {i \in DOMAIN results : results[i] \in kinds}
<1>3. IsFiniteSet(1..z) BY <1>2, FS_Interval
<1>4. \A kinds : IsFiniteSet(T(kinds)) BY <1>2, <1>3, FS_Subset
<1>5. \A kinds : Cardinality(T(kinds)) \in Nat BY <1>4, FS_CardinalityType
<1>6. T({"ok", "skipped"}) = T({"ok"}) \cup T({"skipped"}) /\ T({"ok"}) \cap T({"skipped"}) = {} OBVIOUS
<1>7. Cardinality(T({"ok"}) \cap T({"skipped"})) = 0 BY <1>6, FS_EmptySet
<1>8. PICK A, B : A = T({"ok"}) /\ B = T({"skipped"}) /\ IsFiniteSet(A) /\ IsFiniteSet(B) BY <1>4
<1>9. Cardinality(A \cup B) = Cardinality(A) + Cardinality(B) - Cardinality(A \cap B) BY <1>8, FS_Union
<1>10. Cardinality(A) \in Nat /\ Cardinality(B) \in Nat /\ Cardinality(A \cap B) = 0 /\ A \cup B = T({"ok", "skipped"}) BY <1>5, <1>6, <1>7, <1>8
<1>11. \A kinds : Those(results, kinds) = Cardinality(T(kinds)) BY DEF Those
<1> HIDE DEF T
<1>12. PICK U : U = A \cup B /\ U = T({"ok", "skipped"}) BY <1>10
<1>13. Cardinality(U) = Cardinality(A) + Cardinality(B)
  <2>1. PICK x, y, z1 : x = Cardinality(A) /\ y = Cardinality(B) /\ z1 = Cardinality(A \cap B) OBVIOUS
  <2>2. x \in Nat /\ y \in Nat /\ z1 = 0 BY <1>10, <2>1
  <2>3. Cardinality(U) = x + y - z1 BY <1>9, <1>12, <2>1
  <2> QED BY <2>1, <2>2, <2>3
<1>14. \A kinds : Those(results, kinds) \in Nat BY <1>5, <1>11
<1>15. Those(results, {"ok", "skipped"}) = Cardinality(U) BY <1>11, <1>12
<1>16. Those(results, {"ok"}) = Cardinality(A) /\ Those(results, {"skipped"}) = Cardinality(B) BY <1>8, <1>11
<1> QED BY <1>2, <1>13, <1>14, <1>15, <1>16

LEMMA OgSome ==
  /\ \A x \in OgImportRecs : x # OgNone
  /\ \A x \in OgCursorRecs : x # OgNone
  /\ \A x \in OgStreamRecs : x # OgNone
<1>1. ASSUME NEW x \in OgImportRecs PROVE x # OgNone
  <2>1. x.kind = "import" /\ OgNone.kind = "none" BY DEF OgImportRecs, OgNone
  <2> QED BY <2>1
<1>2. ASSUME NEW x \in OgCursorRecs PROVE x # OgNone
  <2>1. x.kind = "cursor" /\ OgNone.kind = "none" BY DEF OgCursorRecs, OgNone
  <2> QED BY <2>1
<1>3. ASSUME NEW x \in OgStreamRecs PROVE x # OgNone
  <2>1. x.kind = "stream" /\ OgNone.kind = "none" BY DEF OgStreamRecs, OgNone
  <2> QED BY <2>1
<1> QED BY <1>1, <1>2, <1>3
-----------------------------------------------------------------------------
(* The imports of a connection whose table stays or grows *)

LEMMA RowsOfOwned == \A i : OgRowsOf(i) = OgOwned(db.rows, i)
BY DEF OgRowsOf, OgOwned

\* No row comes or goes.
LEMMA ImportsStay ==
  ASSUME ImportsInv, UNCHANGED <<ogImports, skipped>>, ~lost' => ~lost /\ db'.rows = db.rows PROVE ImportsInv'
<1>1. ASSUME ~lost' PROVE ~lost /\ \A i : OgRowsOf(i)' = OgRowsOf(i) BY <1>1 DEF OgRowsOf
<1> QED BY <1>1 DEF ImportsInv, ImportsAccounted

\* Rows of no import come.
LEMMA ImportsOther ==
  ASSUME SessionInv, ImportsInv, UNCHANGED <<ogImports, skipped>>, ~lost' => ~lost,
         NEW c \in Nat, NEW new, OgFresh(new, ogRows, c, 0), db'.rows = db.rows \o new
  PROVE  ImportsInv'
<1>1. db.rows \in Seq(OgRow) /\ ogRows \in Nat BY DEF SessionInv, OgSound, OgTable
<1>2. ASSUME NEW i \in DOMAIN ogImports PROVE Cardinality(OgRowsOf(i)') = Cardinality(OgRowsOf(i))
  <2>1. i \in Nat /\ i # 0 BY DEF ImportsInv
  <2>2. Cardinality(OgOwned(db.rows \o new, i)) = Cardinality(OgOwned(db.rows, i)) + 0 BY <1>1, <2>1, OgCountGrows
  <2>3. Cardinality(OgOwned(db.rows, i)) \in Nat BY <1>1, OgOwnedFinite
  <2>4. OgRowsOf(i)' = OgOwned(db.rows \o new, i) BY DEF OgRowsOf, OgOwned
  <2> QED BY <2>2, <2>3, <2>4, RowsOfOwned
<1>3. ImportsAccounted' BY <1>2 DEF ImportsInv, ImportsAccounted
<1> QED BY <1>3 DEF ImportsInv
-----------------------------------------------------------------------------
(* Reads: cursors and exports *)

LEMMA OgBounds ==
  /\ Unlimited \notin Nat /\ MaxSize \in Nat \ {0} /\ OgMaxRows \in Nat /\ OgMaxTx \in Nat /\ OgMaxImports \in Nat
  /\ OgMaxChunk \in Nat /\ OgRowLimits \subseteq Nat \cup {Unlimited} /\ Sizes \subseteq Nat
  /\ OgThresholds \subseteq Nat \cup {Unlimited}
BY OpenGaussAssumption

LEMMA OgAtMostIs ==
  ASSUME NEW n \in Nat
  PROVE  /\ OgAtMost(n, Unlimited) = n
         /\ \A z \in Nat : OgAtMost(n, z) = (IF n <= z THEN n ELSE z) /\ OgAtMost(n, z) \in Nat
<1>1. \A z \in Nat : z # Unlimited BY OgBounds
<1> QED BY <1>1 DEF OgAtMost

LEMMA ClampIs == ASSUME NEW n \in Nat PROVE Clamp(n) \in Nat \ {0}
<1>1. MaxSize \in Nat /\ MaxSize # 0 BY OgBounds
<1>2. OgAtMost(n, MaxSize) = IF n <= MaxSize THEN n ELSE MaxSize BY <1>1, OgAtMostIs
<1> QED BY <1>1, <1>2 DEF Clamp

\* What a reader has and the next piece are the first of the sequence.
LEMMA ReadOn ==
  ASSUME NEW S, NEW s \in Seq(S), NEW x \in Nat, NEW z \in Nat, x <= z, z <= Len(s)
  PROVE  SubSeq(s, 1, x) \o SubSeq(s, x + 1, z) = SubSeq(s, 1, z) /\ SubSeq(s, 1, z) \in Seq(S) /\ Len(SubSeq(s, 1, z)) = z
<1>1. 1 \in 1..(Len(s) + 1) /\ x \in (1 - 1)..Len(s) /\ z \in x..Len(s) /\ z \in 0..Len(s) OBVIOUS
<1> QED BY <1>1, ConcatAdjacentSubSeq, FirstOf

\* Where a fetch ends, in numbers.
FetchEnd(x, n, max, L) == OgAtMost(x + OgAtMost(n, IF max = Unlimited THEN Unlimited ELSE max - x), L)

FetchIs(x, max, L, end) ==
  /\ end \in Nat /\ x <= end /\ end <= L /\ (max # Unlimited => end <= max)
  /\ end >= L \/ (max # Unlimited /\ end >= max) <=> end = OgAtMost(L, max)

LEMMA FetchEnds ==
  ASSUME NEW x \in Nat, NEW L \in Nat, x <= L, NEW n \in Nat, NEW max \in Nat \cup {Unlimited},
         max # Unlimited => x <= max
  PROVE  FetchIs(x, max, L, FetchEnd(x, n, max, L))
<1>0. PICK end : end = FetchEnd(x, n, max, L) OBVIOUS
<1>1. CASE max = Unlimited
  <2>1. OgAtMost(n, Unlimited) = n /\ OgAtMost(L, Unlimited) = L BY OgAtMostIs
  <2>2. PICK y \in Nat : y = x + n OBVIOUS
  <2>3. end = IF y <= L THEN y ELSE L BY <1>0, <1>1, <2>1, <2>2, OgAtMostIs DEF FetchEnd
  <2> QED BY <1>0, <1>1, <2>1, <2>2, <2>3 DEF FetchIs
<1>2. CASE max # Unlimited
  <2>1. PICK z \in Nat : z = max /\ x <= z BY <1>2
  <2>2. PICK w \in Nat : w = z - x BY <2>1
  <2>3. OgAtMost(n, w) = IF n <= w THEN n ELSE w BY OgAtMostIs
  <2>4. PICK y \in Nat : y = x + OgAtMost(n, w) BY <2>3
  <2>5. end = IF y <= L THEN y ELSE L BY <1>0, <1>2, <2>1, <2>2, <2>4, OgAtMostIs DEF FetchEnd
  <2>6. OgAtMost(L, z) = IF L <= z THEN L ELSE z BY OgAtMostIs
  <2>7. y <= z /\ x <= y BY <2>1, <2>2, <2>3, <2>4
  <2> QED BY <1>0, <1>2, <2>1, <2>5, <2>6, <2>7 DEF FetchIs
<1> QED BY <1>1, <1>2

LEMMA FetchKeeps == ASSUME NEW c, OgCursorOK(c), NEW n \in Nat PROVE OgCursorOK(CursorFetch(c, n))
<1>1. CASE c.done BY <1>1 DEF CursorFetch
<1>2. CASE ~c.done
  <2> DEFINE left == IF c.max = Unlimited THEN Unlimited ELSE c.max - c.next
             end == OgAtMost(c.next + OgAtMost(Clamp(n), left), Len(c.rows))
             stop == end >= Len(c.rows) \/ (c.max # Unlimited /\ end >= c.max)
             e == [c EXCEPT !.next = end, !.got = @ \o SubSeq(c.rows, c.next + 1, end), !.done = stop]
  <2>1. CursorFetch(c, n) = e BY <1>2 DEF CursorFetch
  <2>2. /\ c \in OgCursorRecs /\ c.next <= Len(c.rows) /\ (c.max # Unlimited => c.next <= c.max)
        /\ c.got = SubSeq(c.rows, 1, c.next) /\ ~c.cancelled /\ c.max # 0
        /\ ~(c.next = OgAtMost(Len(c.rows), c.max) /\ c.next # 0)
    BY <1>2 DEF OgCursorOK
  <2>3. c.rows \in Seq(OgRow) /\ c.next \in Nat /\ c.max \in Nat \cup {Unlimited} /\ Len(c.rows) \in Nat BY <2>2 DEF OgCursorRecs
  <2>4. Clamp(n) \in Nat \ {0} BY ClampIs
  <2>5. PICK x \in Nat, L \in Nat, k \in Nat \ {0}, max \in Nat \cup {Unlimited} :
          x = c.next /\ L = Len(c.rows) /\ k = Clamp(n) /\ max = c.max
    BY <2>3, <2>4
  <2>6. PICK z : z = end OBVIOUS
  <2>7. /\ z \in Nat /\ x <= z /\ z <= L /\ (max # Unlimited => z <= max)
        /\ z >= L \/ (max # Unlimited /\ z >= max) <=> z = OgAtMost(L, max)
    <3>1. z = FetchEnd(x, k, max, L) BY <2>5, <2>6 DEF FetchEnd
    <3>2. x <= L /\ k \in Nat /\ (max # Unlimited => x <= max) BY <2>2, <2>5
    <3> HIDE DEF end, left, stop, e
    <3>3. FetchIs(x, max, L, FetchEnd(x, k, max, L)) BY <3>2, FetchEnds
    <3> QED BY <3>1, <3>3 DEF FetchIs
  <2>8. stop <=> z = OgAtMost(L, max) BY <2>5, <2>6, <2>7
  <2>9. stop \in BOOLEAN BY <2>8
  <2>10. c.got \o SubSeq(c.rows, c.next + 1, end) = SubSeq(c.rows, 1, z) /\ SubSeq(c.rows, 1, z) \in Seq(OgRow)
    <3>1. PICK s \in Seq(OgRow) : s = c.rows BY <2>3
    <3>2. z <= Len(s) BY <2>5, <2>7, <3>1
    <3>3. SubSeq(s, 1, x) \o SubSeq(s, x + 1, z) = SubSeq(s, 1, z) /\ SubSeq(s, 1, z) \in Seq(OgRow) BY <2>7, <3>2, ReadOn
    <3> HIDE DEF end
    <3> QED BY <2>2, <2>5, <2>6, <3>1, <3>3
  <2> HIDE DEF stop, end, left
  <2>11. /\ e \in OgCursorRecs /\ e.rows = c.rows /\ e.max = c.max /\ e.cancelled = c.cancelled /\ e.next = z /\ e.done = stop
         /\ e.got = SubSeq(c.rows, 1, z)
    BY <2>2, <2>6, <2>7, <2>9, <2>10 DEF OgCursorRecs
  <2> HIDE DEF e
  <2>12. e.done <=> e.next = OgAtMost(Len(e.rows), e.max) BY <2>5, <2>8, <2>11
  <2>13. e.next <= Len(e.rows) /\ (e.max # Unlimited => e.next <= e.max) /\ e.got = SubSeq(e.rows, 1, e.next) BY <2>5, <2>7, <2>11
  <2> QED BY <2>1, <2>2, <2>11, <2>12, <2>13 DEF OgCursorOK
<1> QED BY <1>1, <1>2

LEMMA OgNewCursorOK == ASSUME db.rows \in Seq(OgRow), NEW max \in OgRowLimits PROVE OgCursorOK(OgNewCursor(max))
<1>1. PICK c : c = OgNewCursor(max) OBVIOUS
<1>2. max \in Nat \cup {Unlimited} /\ (max # Unlimited => max \in Nat) BY OgBounds
<1>3. /\ c \in OgCursorRecs /\ c.rows = db.rows /\ c.next = 0 /\ c.max = max /\ c.cancelled = FALSE /\ c.got = <<>>
      /\ (c.done <=> max = 0)
  <2>1. PICK flag \in BOOLEAN : flag = (max = 0) BY Zenon
  <2>2. c = [kind |-> "cursor", rows |-> db.rows, next |-> 0, max |-> max, done |-> flag, cancelled |-> FALSE, got |-> <<>>]
    BY <1>1, <2>1, Zenon DEF OgNewCursor
  <2>3. /\ c \in OgCursorRecs /\ c.rows = db.rows /\ c.next = 0 /\ c.max = max /\ c.cancelled = FALSE /\ c.got = <<>> /\ c.done = flag
    BY <1>2, <2>2 DEF OgCursorRecs
  <2> QED BY <2>1, <2>3, Zenon
<1>4. PICK L \in Nat : L = Len(db.rows) OBVIOUS
<1>5. SubSeq(db.rows, 1, 0) = <<>> BY SubSeqEmpty
<1>6. max = 0 => OgAtMost(L, max) = 0 BY OgAtMostIs
<1> QED BY <1>1, <1>2, <1>3, <1>4, <1>5, <1>6 DEF OgCursorOK

LEMMA CancelOK ==
  ASSUME NEW c, OgCursorOK(c) PROVE OgCursorOK([c EXCEPT !.done = TRUE, !.cancelled = TRUE])
<1>1. PICK e : e = [c EXCEPT !.done = TRUE, !.cancelled = TRUE] OBVIOUS
<1>2. c \in OgCursorRecs BY DEF OgCursorOK
<1>3. e \in OgCursorRecs /\ e.rows = c.rows /\ e.next = c.next /\ e.max = c.max /\ e.got = c.got /\ e.done /\ e.cancelled
  BY <1>1, <1>2 DEF OgCursorRecs
<1> QED BY <1>1, <1>3 DEF OgCursorOK

LEMMA StreamReadOK == ASSUME NEW s, OgStreamOK(s), NEW n \in Nat PROVE OgStreamOK(StreamRead(s, n))
<1> DEFINE end == OgAtMost(s.offset + Clamp(n), Len(s.data))
           e == [s EXCEPT !.offset = end, !.got = @ \o SubSeq(s.data, s.offset + 1, end)]
<1>1. StreamRead(s, n) = e BY DEF StreamRead
<1>2. s \in OgStreamRecs /\ s.offset <= Len(s.data) /\ s.got = SubSeq(s.data, 1, s.offset) BY DEF OgStreamOK
<1>3. s.data \in Seq(Nat) /\ s.offset \in Nat /\ Len(s.data) \in Nat BY <1>2 DEF OgStreamRecs
<1>4. PICK x \in Nat, L \in Nat, k \in Nat : x = s.offset /\ L = Len(s.data) /\ k = Clamp(n) BY <1>3, ClampIs
<1>5. PICK y \in Nat : y = x + k OBVIOUS
<1>6. PICK z \in Nat : z = end /\ x <= z /\ z <= L
  <2>1. end = IF y <= L THEN y ELSE L BY <1>4, <1>5, OgAtMostIs
  <2> QED BY <1>2, <1>4, <1>5, <2>1
<1>7. s.got \o SubSeq(s.data, s.offset + 1, end) = SubSeq(s.data, 1, z) /\ SubSeq(s.data, 1, z) \in Seq(Nat)
  <2>0. x <= z BY <1>6
  <2>1. PICK r \in Seq(Nat) : r = s.data BY <1>3
  <2>2. z <= Len(r) BY <1>4, <1>6, <2>1
  <2>3. SubSeq(r, 1, x) \o SubSeq(r, x + 1, z) = SubSeq(r, 1, z) /\ SubSeq(r, 1, z) \in Seq(Nat) BY <2>0, <2>2, ReadOn
  <2> HIDE DEF end
  <2> QED BY <1>2, <1>4, <1>6, <2>1, <2>3
<1> HIDE DEF end
<1>8. e \in OgStreamRecs /\ e.data = s.data /\ e.offset = z /\ e.got = SubSeq(s.data, 1, z) BY <1>2, <1>6, <1>7 DEF OgStreamRecs
<1> QED BY <1>1, <1>4, <1>6, <1>8 DEF OgStreamOK

LEMMA OgRenderIs == ASSUME NEW t \in Seq(OgRow), NEW csv \in BOOLEAN PROVE RenderExport(t, csv) \in Seq(Nat)
<1>1. PICK L \in Nat : L = Len(t) OBVIOUS
<1>2. ASSUME NEW i \in 1..(2 * L) PROVE t[(i + 1) \div 2].id \in Nat
  <2>1. (i + 1) \div 2 \in 1..L OBVIOUS
  <2>2. t[(i + 1) \div 2] \in OgRow BY <1>1, <2>1
  <2> QED BY <2>2 DEF OgRow
<1>3. [i \in 1..(2 * Len(t)) |-> t[(i + 1) \div 2].id] \in Seq(Nat) BY <1>1, <1>2
<1>4. (IF csv THEN <<0>> ELSE <<>>) \in Seq(Nat) OBVIOUS
<1> QED BY <1>3, <1>4 DEF RenderExport

LEMMA OgNewStreamOK == ASSUME NEW data \in Seq(Nat) PROVE OgStreamOK(OgNewStream(data))
<1>1. PICK s : s = OgNewStream(data) OBVIOUS
<1>2. s \in OgStreamRecs /\ s.data = data /\ s.offset = 0 /\ s.got = <<>> BY <1>1 DEF OgNewStream, OgStreamRecs
<1>3. SubSeq(data, 1, 0) = <<>> /\ Len(data) \in Nat BY SubSeqEmpty
<1> QED BY <1>1, <1>2, <1>3 DEF OgStreamOK
-----------------------------------------------------------------------------
(* Requests that read *)

LEMMA QuietSession ==
  ASSUME SessionInv, IdsInv, ImportsInv, conn' = conn, UNCHANGED <<session, ogImports, tx_conn, next_tx>>
  PROVE  SessionInv' /\ IdsInv' /\ ImportsInv'
<1>1. UNCHANGED <<db, belief, orphans, ogRows, skipped, lost, swallowed>> BY DEF session
<1>2. SessionInv' BY <1>1 DEF SessionInv
<1>3. IdsInv' BY <1>1 DEF IdsInv
<1>4. ImportsInv' BY <1>1, ImportsStay
<1> QED BY <1>2, <1>3, <1>4

LEMMA QuietReads == ASSUME OgReadsInv, UNCHANGED <<ogCursors, ogStreams>> PROVE OgReadsInv'
BY DEF OgReadsInv

LEMMA CursorPut ==
  ASSUME OgReadsInv, ogStreams' = ogStreams, NEW c \in DOMAIN ogCursors, NEW new, new = OgNone \/ OgCursorOK(new),
         ogCursors' = [ogCursors EXCEPT ![c] = new]
  PROVE  OgReadsInv'
<1>1. new \in OgCursorRecs \cup {OgNone} BY DEF OgCursorOK
<1>2. ogCursors \in Seq(OgCursorRecs \cup {OgNone}) BY DEF OgReadsInv
<1>3. ogCursors' \in Seq(OgCursorRecs \cup {OgNone}) /\ DOMAIN ogCursors' = DOMAIN ogCursors BY <1>1, <1>2, ExceptSeq
<1>4. \A x \in DOMAIN ogCursors : ogCursors'[x] = IF x = c THEN new ELSE ogCursors[x] BY <1>2
<1> QED BY <1>3, <1>4 DEF OgReadsInv

LEMMA StreamPut ==
  ASSUME OgReadsInv, ogCursors' = ogCursors, NEW s \in OgStreamIds, NEW new, new = OgNone \/ OgStreamOK(new),
         ogStreams' = [ogStreams EXCEPT ![s] = new]
  PROVE  OgReadsInv'
<1>1. DOMAIN ogStreams' = OgStreamIds /\ \A x \in OgStreamIds : ogStreams'[x] = IF x = s THEN new ELSE ogStreams[x]
  BY DEF OgReadsInv
<1> QED BY <1>1 DEF OgReadsInv

\* query/start
LEMMA OgQueryStartReads == ASSUME SessionInv, OgReadsInv, OgHandleQueryStart PROVE OgReadsInv'
<1>1. PICK max \in OgRowLimits : ogCursors' = Append(ogCursors, OgNewCursor(max)) BY DEF OgHandleQueryStart
<1>2. ogStreams' = ogStreams BY DEF OgHandleQueryStart
<1>3. db.rows \in Seq(OgRow) BY DEF SessionInv, OgSound, OgTable
<1>4. PICK new : new = OgNewCursor(max) /\ OgCursorOK(new) BY <1>3, OgNewCursorOK
<1>5. new \in OgCursorRecs \cup {OgNone} BY <1>4 DEF OgCursorOK
<1>6. ogCursors \in Seq(OgCursorRecs \cup {OgNone}) BY DEF OgReadsInv
<1>7. PICK L \in Nat : L = Len(ogCursors) BY <1>6
<1>8. /\ ogCursors' \in Seq(OgCursorRecs \cup {OgNone}) /\ DOMAIN ogCursors = 1..L /\ DOMAIN ogCursors' = 1..(L + 1)
      /\ ogCursors'[L + 1] = new /\ \A x \in 1..L : ogCursors'[x] = ogCursors[x]
  BY <1>1, <1>4, <1>5, <1>6, <1>7
<1>9. \A x \in 1..(L + 1) : x \in 1..L \/ x = L + 1 OBVIOUS
<1>10. \A x \in DOMAIN ogCursors' : ogCursors'[x] = OgNone \/ OgCursorOK(ogCursors'[x]) BY <1>4, <1>8, <1>9 DEF OgReadsInv
<1> QED BY <1>2, <1>8, <1>10 DEF OgReadsInv

\* cursor/fetch, cursor/cancel, cursor/close
LEMMA CursorReads ==
  ASSUME OgReadsInv, OgHandleCursorFetch \/ OgHandleCursorCancel \/ OgHandleCursorClose PROVE OgReadsInv'
<1>1. CASE OgHandleCursorFetch
  <2>1. PICK c \in DOMAIN ogCursors, n \in Sizes : UpdateCursor(c, CursorFetch(ogCursors[c], n)) BY <1>1 DEF OgHandleCursorFetch
  <2>2. PICK new : new = CursorFetch(ogCursors[c], n) OBVIOUS
  <2>3. ogCursors[c] # OgNone /\ ogCursors' = [ogCursors EXCEPT ![c] = new] /\ ogStreams' = ogStreams BY <2>1, <2>2 DEF UpdateCursor
  <2>4. OgCursorOK(ogCursors[c]) /\ n \in Nat BY <2>3, OgBounds DEF OgReadsInv
  <2>5. OgCursorOK(new) BY <2>2, <2>4, FetchKeeps
  <2> QED BY <2>3, <2>5, CursorPut
<1>2. CASE OgHandleCursorCancel
  <2>1. PICK c \in DOMAIN ogCursors : UpdateCursor(c, [ogCursors[c] EXCEPT !.done = TRUE, !.cancelled = TRUE]) BY <1>2 DEF OgHandleCursorCancel
  <2>2. PICK new : new = [ogCursors[c] EXCEPT !.done = TRUE, !.cancelled = TRUE] OBVIOUS
  <2>3. ogCursors[c] # OgNone /\ ogCursors' = [ogCursors EXCEPT ![c] = new] /\ ogStreams' = ogStreams BY <2>1, <2>2 DEF UpdateCursor
  <2>4. OgCursorOK(ogCursors[c]) BY <2>3 DEF OgReadsInv
  <2>5. OgCursorOK(new) BY <2>2, <2>4, CancelOK
  <2> QED BY <2>3, <2>5, CursorPut
<1>3. CASE OgHandleCursorClose
  <2>1. PICK c \in DOMAIN ogCursors : UpdateCursor(c, OgNone) BY <1>3 DEF OgHandleCursorClose
  <2>2. ogCursors' = [ogCursors EXCEPT ![c] = OgNone] /\ ogStreams' = ogStreams BY <2>1 DEF UpdateCursor
  <2> QED BY <2>2, CursorPut
<1> QED BY <1>1, <1>2, <1>3

\* data/export
LEMMA ExportReads == ASSUME SessionInv, OgReadsInv, OgHandleDataExport PROVE OgReadsInv'
<1>1. PICK s \in OgStreamIds, max \in OgRowLimits, csv \in BOOLEAN :
        ogStreams' = [ogStreams EXCEPT ![s] = OgNewStream(RenderExport(SubSeq(db.rows, 1, OgAtMost(Len(db.rows), max)), csv))]
  BY DEF OgHandleDataExport
<1>2. db.rows \in Seq(OgRow) /\ Len(db.rows) \in Nat BY DEF SessionInv, OgSound, OgTable
<1>3. PICK z \in 0..Len(db.rows) : z = OgAtMost(Len(db.rows), max)
  <2>1. CASE max = Unlimited
    <3>1. OgAtMost(Len(db.rows), max) = Len(db.rows) BY <1>2, <2>1, OgAtMostIs
    <3> QED BY <1>2, <3>1
  <2>2. CASE max # Unlimited
    <3>1. max \in Nat BY <2>2, OgBounds
    <3>2. OgAtMost(Len(db.rows), max) = IF Len(db.rows) <= max THEN Len(db.rows) ELSE max BY <1>2, <3>1, OgAtMostIs
    <3> QED BY <1>2, <3>1, <3>2
  <2> QED BY <2>1, <2>2
<1>4. SubSeq(db.rows, 1, z) \in Seq(OgRow) BY <1>2, FirstOf
<1>5. PICK data \in Seq(Nat) : data = RenderExport(SubSeq(db.rows, 1, z), csv) BY <1>4, OgRenderIs
<1>6. PICK new : new = OgNewStream(data) /\ OgStreamOK(new) BY OgNewStreamOK
<1>7. ogStreams' = [ogStreams EXCEPT ![s] = new] /\ ogCursors' = ogCursors BY <1>1, <1>3, <1>5, <1>6 DEF OgHandleDataExport
<1> QED BY <1>6, <1>7, StreamPut

\* stream/read, stream/close
LEMMA StreamReads == ASSUME OgReadsInv, OgHandleStreamRead \/ OgHandleStreamClose PROVE OgReadsInv'
<1>1. CASE OgHandleStreamRead
  <2>1. PICK s \in OgStreamIds, n \in Sizes : ogStreams[s] # OgNone /\ ogStreams' = [ogStreams EXCEPT ![s] = StreamRead(@, n)]
    BY <1>1 DEF OgHandleStreamRead
  <2>2. PICK new : new = StreamRead(ogStreams[s], n) OBVIOUS
  <2>3. ogStreams' = [ogStreams EXCEPT ![s] = new] /\ ogCursors' = ogCursors BY <1>1, <2>1, <2>2 DEF OgHandleStreamRead
  <2>4. OgStreamOK(ogStreams[s]) /\ n \in Nat BY <2>1, OgBounds DEF OgReadsInv
  <2>5. OgStreamOK(new) BY <2>2, <2>4, StreamReadOK
  <2> QED BY <2>3, <2>5, StreamPut
<1>2. CASE OgHandleStreamClose
  <2>1. PICK s \in OgStreamIds : ogStreams' = [ogStreams EXCEPT ![s] = OgNone] BY <1>2 DEF OgHandleStreamClose
  <2>2. ogCursors' = ogCursors BY <1>2 DEF OgHandleStreamClose
  <2> QED BY <2>1, <2>2, StreamPut
<1> QED BY <1>1, <1>2

OgReading == \/ OgHandleQueryStart \/ OgHandleCursorFetch \/ OgHandleCursorCancel \/ OgHandleCursorClose
             \/ OgHandleDataExport \/ OgHandleStreamRead \/ OgHandleStreamClose

LEMMA ReadingKeeps == ASSUME OgInv, conn' = conn, OgReading PROVE OgInv'
<1>1. UNCHANGED <<session, ogImports, tx_conn, next_tx>>
  BY DEF OgReading, OgHandleQueryStart, OgHandleCursorFetch, OgHandleCursorCancel, OgHandleCursorClose, UpdateCursor,
         OgHandleDataExport, OgHandleStreamRead, OgHandleStreamClose
<1>2. SessionInv' /\ IdsInv' /\ ImportsInv' BY <1>1, QuietSession DEF OgInv
<1>3. OgReadsInv' BY OgQueryStartReads, CursorReads, ExportReads, StreamReads DEF OgReading, OgInv
<1> QED BY <1>2, <1>3 DEF OgInv
-----------------------------------------------------------------------------
(* Requests that change the session *)

\* A statement that fails leaves the session in a transaction or out of one.
LEMMA FailedTx ==
  ASSUME NEW d \in OgSessions, NEW s, s.cmd \notin {"COMMIT", "ROLLBACK"} PROVE Failed(d, s).tx = "auto" <=> d.tx = "auto"
<1>1. Failed(d, s).tx = IF d.tx = "open" THEN "aborted" ELSE d.tx BY AbortIs
<1> QED BY <1>1

\* Ids that stay, while the session stays in a transaction or out of one.
LEMMA IdsStay ==
  ASSUME IdsInv, conn' = conn, UNCHANGED <<tx_conn, next_tx>>, db'.tx = "auto" \/ db.tx # "auto" PROVE IdsInv'
BY DEF IdsInv

\* tx/begin
LEMMA OgBeginKeeps == ASSUME OgInv, conn' = conn, OgHandleTxBegin PROVE OgInv'
<1>1. SessionInv /\ IdsInv /\ ImportsInv /\ OgReadsInv /\ db \in OgSessions BY DEF OgInv, SessionInv, OgSound
<1>2. SimpleExecute(Cmd("BEGIN"), Cmd("BEGIN")) /\ UNCHANGED <<ogCursors, ogStreams, ogImports>> BY DEF OgHandleTxBegin
<1>3. skipped' = skipped BY <1>2 DEF SimpleExecute
<1>4. /\ SessionInv' /\ (~lost' => ~lost /\ db'.rows = db.rows)
      /\ db' = Failed(db, Cmd("BEGIN")) \/ (Accepts(db, Cmd("BEGIN")) /\ db' = After(db, Cmd("BEGIN")))
  BY <1>1, <1>2, ExecuteKeeps DEF OgStatement
<1>5. ImportsInv' BY <1>1, <1>2, <1>3, <1>4, ImportsStay
<1>6. IdsInv'
  <2>1. CASE Accepts(db, Cmd("BEGIN")) /\ db' = After(db, Cmd("BEGIN"))
    <3>1. tx_conn' = tx_conn \cup {next_tx} /\ next_tx' = next_tx + 1 BY <2>1 DEF OgHandleTxBegin
    <3>2. PICK z \in Nat \ {0} : z = next_tx BY <1>1 DEF IdsInv
    <3>3. \A x \in 1..(z - 1) : x \in 1..((z + 1) - 1) BY <3>2
    <3>4. z \in 1..((z + 1) - 1) /\ z + 1 \in Nat \ {0} BY <3>2
    <3> QED BY <1>1, <3>1, <3>2, <3>3, <3>4 DEF IdsInv
  <2>2. CASE ~(Accepts(db, Cmd("BEGIN")) /\ db' = After(db, Cmd("BEGIN")))
    <3>1. UNCHANGED <<tx_conn, next_tx>> /\ db' = Failed(db, Cmd("BEGIN")) BY <1>4, <2>2 DEF OgHandleTxBegin
    <3>2. Cmd("BEGIN").cmd \notin {"COMMIT", "ROLLBACK"} BY DEF Cmd
    <3>3. db'.tx = "auto" <=> db.tx = "auto" BY <1>1, <3>1, <3>2, FailedTx
    <3> QED BY <1>1, <3>1, <3>3, IdsStay
  <2> QED BY <2>1, <2>2
<1>7. OgReadsInv' BY <1>1, <1>2, QuietReads
<1> QED BY <1>4, <1>5, <1>6, <1>7 DEF OgInv

\* COMMIT and ROLLBACK, whether they succeed or not.
LEMMA EndIsAuto ==
  ASSUME NEW d \in OgSessions, NEW s, s = Cmd("COMMIT") \/ s = Cmd("ROLLBACK")
  PROVE  After(d, s).tx = "auto" /\ Failed(d, s).tx = "auto"
<1>1. s.cmd \in {"COMMIT", "ROLLBACK"} BY DEF Cmd
<1>2. Failed(d, s) = Undone(d) BY <1>1 DEF Failed
<1>3. Undone(d).tx = "auto" BY UndoneIs
<1>4. s = Cmd("COMMIT") => After(d, s).tx = "auto" BY <1>3, CommitIs
<1>5. s = Cmd("ROLLBACK") => After(d, s).tx = "auto" BY <1>3, RollbackIs
<1> QED BY <1>2, <1>3, <1>4, <1>5

\* A statement after which the session is in no transaction, or an id is left.
LEMMA TxKeeps ==
  ASSUME OgInv, conn' = conn, NEW s, OgStatement(s), SimpleExecute(s, s), UNCHANGED <<ogCursors, ogStreams, ogImports, next_tx>>,
         tx_conn' = tx_conn \/ (tx_conn' \subseteq tx_conn /\ db'.tx = "auto"), db'.tx = "auto" \/ db.tx # "auto"
  PROVE  OgInv'
<1>1. SessionInv /\ IdsInv /\ ImportsInv /\ OgReadsInv BY DEF OgInv
<1>2. skipped' = skipped BY DEF SimpleExecute
<1>3. SessionInv' /\ (~lost' => ~lost /\ db'.rows = db.rows) BY <1>1, ExecuteKeeps
<1>4. ImportsInv' BY <1>1, <1>2, <1>3, ImportsStay
<1>5. IdsInv'
  <2>1. CASE tx_conn' = tx_conn BY <1>1, <2>1, IdsStay
  <2>2. CASE tx_conn' \subseteq tx_conn /\ db'.tx = "auto" BY <1>1, <2>2 DEF IdsInv
  <2> QED BY <2>1, <2>2
<1>6. OgReadsInv' BY <1>1, QuietReads
<1> QED BY <1>3, <1>4, <1>5, <1>6 DEF OgInv

\* What the server's session is after a statement on savepoints.
LEMMA MarkTx ==
  ASSUME OgInv, NEW p \in Savepoints, NEW s, s = Save(p) \/ s = RollbackTo(p) \/ s = Release(p), SimpleExecute(s, s)
  PROVE  db'.tx = "auto" \/ db.tx # "auto"
<1>1. db \in OgSessions BY DEF OgInv, SessionInv, OgSound
<1>2. CASE db' = Failed(db, s)
  <2>1. Save(p).cmd = "SAVEPOINT" /\ RollbackTo(p).cmd = "ROLLBACK TO" /\ Release(p).cmd = "RELEASE" BY DEF Save, RollbackTo, Release
  <2>2. s.cmd \in {"SAVEPOINT", "ROLLBACK TO", "RELEASE"} BY <2>1
  <2>3. s.cmd \notin {"COMMIT", "ROLLBACK"} BY <2>2
  <2> QED BY <1>1, <1>2, <2>3, FailedTx
<1>3. CASE Accepts(db, s)
  <2>1. CASE s = Save(p) BY <1>3, <2>1 DEF Accepts, Save
  <2>2. CASE s = RollbackTo(p) BY <1>3, <2>2 DEF Accepts, RollbackTo
  <2>3. CASE s = Release(p) BY <1>3, <2>3 DEF Accepts, Release
  <2> QED BY <2>1, <2>2, <2>3
<1> QED BY <1>2, <1>3 DEF SimpleExecute

\* tx/commit
LEMMA OgCommitKeeps == ASSUME OgInv, conn' = conn, NEW tx, OgHandleTxCommit(tx) PROVE OgInv'
<1>1. db \in OgSessions BY DEF OgInv, SessionInv, OgSound
<1>2. PICK s : s = Cmd("COMMIT") OBVIOUS
<1>3. SimpleExecute(s, s) /\ tx_conn' = tx_conn \ {tx} /\ UNCHANGED <<ogCursors, ogStreams, ogImports, next_tx>>
  BY <1>2 DEF OgHandleTxCommit
<1>4. db'.tx = "auto" BY <1>1, <1>2, <1>3, EndIsAuto DEF SimpleExecute
<1>5. OgStatement(s) BY <1>2 DEF OgStatement
<1>6. tx_conn' \subseteq tx_conn BY <1>3
<1> QED BY <1>3, <1>4, <1>5, <1>6, TxKeeps

\* tx/rollback, to a savepoint too
LEMMA OgRollbackKeeps == ASSUME OgInv, conn' = conn, NEW tx, OgHandleTxRollback(tx) PROVE OgInv'
<1>1. db \in OgSessions BY DEF OgInv, SessionInv, OgSound
<1>2. UNCHANGED <<ogCursors, ogStreams, ogImports, next_tx>> BY DEF OgHandleTxRollback
<1>3. CASE tx_conn' = tx_conn \ {tx} /\ SimpleExecute(Cmd("ROLLBACK"), Cmd("ROLLBACK"))
  <2>1. PICK s : s = Cmd("ROLLBACK") OBVIOUS
  <2>2. SimpleExecute(s, s) BY <1>3, <2>1
  <2>3. db'.tx = "auto" BY <1>1, <2>1, <2>2, EndIsAuto DEF SimpleExecute
  <2>4. OgStatement(s) BY <2>1 DEF OgStatement
  <2>5. tx_conn' \subseteq tx_conn BY <1>3
  <2> QED BY <1>2, <2>2, <2>3, <2>4, <2>5, TxKeeps
<1>4. CASE (\E n \in Savepoints : SimpleExecute(RollbackTo(n), RollbackTo(n))) /\ UNCHANGED tx_conn
  <2>1. PICK p \in Savepoints : SimpleExecute(RollbackTo(p), RollbackTo(p)) BY <1>4
  <2>2. PICK s : s = RollbackTo(p) OBVIOUS
  <2>3. SimpleExecute(s, s) /\ OgStatement(s) BY <2>1, <2>2 DEF OgStatement
  <2>4. db'.tx = "auto" \/ db.tx # "auto" BY <2>2, <2>3, MarkTx
  <2> QED BY <1>2, <1>4, <2>3, <2>4, TxKeeps
<1> QED BY <1>3, <1>4 DEF OgHandleTxRollback

\* tx/savepoint, tx/release
LEMMA OgMarksKeep == ASSUME OgInv, conn' = conn, NEW tx, HandleTxSavepoint(tx) \/ HandleTxRelease(tx) PROVE OgInv'
<1>1. UNCHANGED <<ogCursors, ogStreams, ogImports, next_tx, tx_conn>> BY DEF HandleTxSavepoint, HandleTxRelease, ogTables
<1>2. PICK p \in Savepoints : SimpleExecute(Save(p), Save(p)) \/ SimpleExecute(Release(p), Release(p))
  BY DEF HandleTxSavepoint, HandleTxRelease
<1>3. PICK s : (s = Save(p) \/ s = Release(p)) /\ SimpleExecute(s, s) BY <1>2
<1>4. OgStatement(s) BY <1>3 DEF OgStatement
<1>5. db'.tx = "auto" \/ db.tx # "auto" BY <1>3, MarkTx
<1> QED BY <1>1, <1>3, <1>4, <1>5, TxKeeps

\* Catalog reads that fail, and schema/dump_ddl that says nothing of it
LEMMA OgFailuresKeep == ASSUME OgInv, conn' = conn, HandleSchemaReadFails \/ HandleDumpDdlSwallows PROVE OgInv'
<1>1. SessionInv /\ IdsInv /\ ImportsInv /\ OgReadsInv BY DEF OgInv
<1>2. /\ db' = Failed(db, Cmd("SELECT")) /\ UNCHANGED <<ogCursors, ogStreams, ogImports, next_tx, tx_conn, orphans, ogRows, skipped, lost>>
      /\ \/ belief' = Failed(belief, Cmd("SELECT")) /\ swallowed' = swallowed
         \/ swallowed' = TRUE
  BY DEF HandleSchemaReadFails, HandleDumpDdlSwallows, ogTables
<1>3. OgSound(db, ogRows, Len(ogImports)) /\ db \in OgSessions BY <1>1 DEF SessionInv, OgSound
<1>4. Cmd("SELECT").cmd \notin {"COMMIT", "ROLLBACK"} BY DEF Cmd
<1>5. OgSound(db', ogRows, Len(ogImports)) /\ db'.rows = db.rows /\ (db'.tx = "auto" <=> db.tx = "auto")
  BY <1>2, <1>3, <1>4, FailureKeeps, AbortIs, FailedTx
<1>6. ~swallowed' => OgAgree(belief', db', orphans) BY <1>1, <1>2, <1>3, FailureKeeps DEF SessionInv
<1>7. SessionInv' BY <1>1, <1>2, <1>5, <1>6 DEF SessionInv
<1>8. IdsInv' BY <1>1, <1>2, <1>5, IdsStay
<1>9. ImportsInv' BY <1>1, <1>2, <1>5, ImportsStay
<1>10. OgReadsInv' BY <1>1, <1>2, QuietReads
<1> QED BY <1>7, <1>8, <1>9, <1>10 DEF OgInv

\* The connection is closed
LEMMA OgCloseKeeps == ASSUME OgInv, OgClose PROVE OgInv'
<1>1. SessionInv /\ IdsInv /\ ImportsInv /\ OgReadsInv BY DEF OgInv
<1>2. /\ conn' = "closed" /\ db' = Undone(db) /\ belief' = Undone(belief) /\ lost' = (lost \/ ~IsPrefix(db.rows, db'.rows))
      /\ UNCHANGED <<ogCursors, ogStreams, ogImports, next_tx, tx_conn, orphans, ogRows, skipped, swallowed>>
  BY DEF OgClose, Noted, ogTables
<1>3. OgSound(db, ogRows, Len(ogImports)) /\ db \in OgSessions BY <1>1 DEF SessionInv, OgSound
<1>4. OgSound(db', ogRows, Len(ogImports)) /\ NoLonger(db, db') BY <1>2, <1>3, SoundUndone, UndoneShorter
<1>5. ~swallowed' => OgAgree(belief', db', orphans) BY <1>1, <1>2, <1>3, AgreeUndone DEF SessionInv
<1>6. SessionInv' BY <1>1, <1>2, <1>4, <1>5 DEF SessionInv
<1>7. db.rows \in Seq(OgRow) /\ db'.rows \in Seq(OgRow) BY <1>3, <1>4 DEF OgSound, OgTable
<1>8. IsPrefix(db.rows, db'.rows) => db'.rows = db.rows BY <1>4, <1>7, PrefixSame DEF NoLonger
<1>9. ImportsInv' BY <1>1, <1>2, <1>8, ImportsStay
<1>10. IdsInv' BY <1>1, <1>2 DEF IdsInv
<1>11. OgReadsInv' BY <1>1, <1>2, QuietReads
<1> QED BY <1>6, <1>9, <1>10, <1>11 DEF OgInv
-----------------------------------------------------------------------------
(* Requests that insert rows *)

\* Rows that a request hides are rows.
LEMMA HiddenAreRows ==
  ASSUME NEW n \in Nat, NEW c \in Nat, NEW o \in SUBSET (1..n)
  PROVE  o \in SUBSET (1..(n + c)) /\ o \cup {n + k : k \in 1..c} \in SUBSET (1..(n + c))
<1>1. \A x \in 1..n : x \in 1..(n + c) OBVIOUS
<1>2. \A k \in 1..c : n + k \in 1..(n + c) OBVIOUS
<1> QED BY <1>1, <1>2

\* Rows of no import, told or hidden.
LEMMA RowsCome ==
  ASSUME OgInv, conn' = conn, UNCHANGED <<ogTables, skipped, swallowed>>, Noted,
         NEW c \in Nat, NEW new, OgFresh(new, ogRows, c, 0), ogRows' = ogRows + c,
         \/ db' = InsertAll(db, new) /\ (~swallowed => belief' = InsertAll(belief, new)) /\ orphans' = orphans
         \/ /\ db' = Failed(InsertAll(db, new), Cmd("INSERT")) /\ belief' = Failed(belief, Cmd("INSERT"))
            /\ orphans' = orphans \cup {ogRows + k : k \in 1..c}
  PROVE  OgInv'
<1>1. SessionInv /\ IdsInv /\ ImportsInv /\ OgReadsInv BY DEF OgInv
<1>2. UNCHANGED <<ogCursors, ogStreams, ogImports, tx_conn, next_tx, skipped, swallowed>> BY DEF ogTables
<1>3. PICK n, m \in Nat : n = ogRows /\ m = Len(ogImports)
  <2>1. ogRows \in Nat /\ Len(ogImports) \in Nat BY <1>1 DEF SessionInv, ImportsInv
  <2> QED BY <2>1
<1>4. OgSound(db, n, m) /\ db \in OgSessions /\ orphans \in SUBSET (1..n) BY <1>1, <1>3 DEF SessionInv, OgSound
<1>5. PICK e, h : e = InsertAll(db, new) /\ h = orphans \cup {n + k : k \in 1..c} OBVIOUS
<1>6. OgFresh(new, n, c, 0) /\ new \in Seq(OgRow) /\ 0 \in Nat /\ 0 <= m BY <1>3 DEF OgFresh
<1>7. OgSound(e, n + c, m) /\ e \in OgSessions
  <2>1. OgSound(e, n + c, m) BY <1>4, <1>5, <1>6, SoundGrows
  <2> QED BY <2>1 DEF OgSound
<1>8. e.rows = db.rows \o new /\ e.tx = db.tx BY <1>4, <1>5, <1>6, InsertAllIs
<1>9. ~swallowed => OgAgree(InsertAll(belief, new), e, orphans) /\ OgAgree(belief, e, h)
  <2>1. ASSUME ~swallowed PROVE OgAgree(InsertAll(belief, new), e, orphans) /\ OgAgree(belief, e, h)
    <3>1. OgAgree(belief, db, orphans) BY <1>1, <2>1 DEF SessionInv
    <3> QED BY <1>4, <1>5, <1>6, <3>1, AgreeGrows
  <2> QED BY <2>1
<1>10. PICK s : s = Cmd("INSERT") /\ s.cmd \notin {"COMMIT", "ROLLBACK"} BY DEF Cmd
<1>11. orphans \in SUBSET (1..(n + c)) /\ h \in SUBSET (1..(n + c)) BY <1>4, <1>5, HiddenAreRows
<1>12. /\ OgSound(db', n + c, m) /\ db'.rows = db.rows \o new /\ (db'.tx = "auto" <=> db.tx = "auto")
       /\ orphans' \in SUBSET (1..(n + c)) /\ (~swallowed => OgAgree(belief', db', orphans'))
  <2>1. CASE db' = InsertAll(db, new) /\ (~swallowed => belief' = InsertAll(belief, new)) /\ orphans' = orphans BY <1>5, <1>7, <1>8, <1>9, <1>11, <2>1
  <2>2. CASE /\ db' = Failed(InsertAll(db, new), Cmd("INSERT")) /\ belief' = Failed(belief, Cmd("INSERT"))
             /\ orphans' = orphans \cup {ogRows + k : k \in 1..c}
    <3>1. db' = Failed(e, s) /\ belief' = Failed(belief, s) /\ orphans' = h BY <1>3, <1>5, <1>10, <2>2
    <3>2. OgSound(db', n + c, m) BY <1>7, <3>1, FailureKeeps
    <3>3. db'.rows = e.rows BY <1>7, <1>10, <3>1, AbortIs
    <3>4. db'.tx = "auto" <=> e.tx = "auto" BY <1>7, <1>10, <3>1, FailedTx
    <3>5. ~swallowed => OgAgree(belief', db', h) BY <1>7, <1>9, <3>1, FailureKeeps
    <3> QED BY <1>8, <1>11, <3>1, <3>2, <3>3, <3>4, <3>5
  <2> QED BY <2>1, <2>2
<1>13. lost' \in BOOLEAN /\ (~lost' => ~lost) /\ n + c \in Nat
  <2>1. lost' = (lost \/ ~IsPrefix(db.rows, db'.rows)) /\ lost \in BOOLEAN BY <1>1 DEF Noted, SessionInv
  <2>2. lost' \in BOOLEAN /\ (~lost' => ~lost) BY <2>1
  <2> QED BY <2>2
<1>14. ogRows' = n + c /\ Len(ogImports') = m BY <1>2, <1>3
<1>15. SessionInv'
  <2>1. ogRows' \in Nat /\ orphans' \in SUBSET (1..ogRows') BY <1>12, <1>13, <1>14
  <2>2. swallowed' \in BOOLEAN BY <1>1, <1>2 DEF SessionInv
  <2>3. OgSound(db', ogRows', Len(ogImports')) BY <1>12, <1>14
  <2>4. ~swallowed' => OgAgree(belief', db', orphans') BY <1>2, <1>12
  <2> QED BY <1>13, <2>1, <2>2, <2>3, <2>4 DEF SessionInv
<1>16. IdsInv' BY <1>1, <1>2, <1>12, IdsStay
<1>17. ImportsInv' BY <1>1, <1>2, <1>12, <1>13, ImportsOther
<1>18. OgReadsInv' BY <1>1, <1>2, QuietReads
<1> QED BY <1>15, <1>16, <1>17, <1>18 DEF OgInv


\* exec/run
LEMMA OgExecRunKeeps == ASSUME OgInv, conn' = conn, OgHandleExecRun PROVE OgInv'
<1>1. db \in OgSessions /\ ogRows \in Nat BY DEF OgInv, SessionInv, OgSound
<1>2. UNCHANGED <<ogTables, skipped, swallowed>> /\ orphans' = orphans /\ Noted BY DEF OgHandleExecRun
<1>3. CASE db' = After(db, Insert(NewRow(1, 0))) /\ belief' = After(belief, Insert(NewRow(1, 0))) /\ ogRows' = ogRows + 1
  <2>1. PICK r : r = NewRow(1, 0) OBVIOUS
  <2>2. r \in OgRow /\ r.id = ogRows + 1 /\ r.by = 0 BY <1>1, <2>1 DEF NewRow, OgRow
  <2>3. PICK new : new = <<r>> OBVIOUS
  <2>4. OgFresh(new, ogRows, 1, 0)
    <3>1. new \in Seq(OgRow) /\ Len(new) = 1 /\ new[1] = r BY <2>2, <2>3
    <3> QED BY <2>2, <3>1 DEF OgFresh
  <2>5. db' = InsertAll(db, new) BY <1>1, <1>3, <2>1, <2>2, <2>3, InsertIs
  <2>6. ASSUME ~swallowed PROVE belief' = InsertAll(belief, new)
    <3>1. belief \in OgSessions BY <2>6 DEF OgInv, SessionInv, OgAgree
    <3> QED BY <1>3, <2>1, <2>2, <2>3, <3>1, InsertIs
  <2>7. 1 \in Nat /\ ogRows' = ogRows + 1 BY <1>3
  <2> QED BY <1>2, <2>4, <2>5, <2>6, <2>7, RowsCome
<1>4. CASE db' = Failed(db, Cmd("INSERT")) /\ belief' = Failed(belief, Cmd("INSERT")) /\ ogRows' = ogRows
  <2>1. PICK new : new = <<>> OBVIOUS
  <2>2. OgFresh(new, ogRows, 0, 0) BY <2>1 DEF OgFresh
  <2>3. InsertAll(db, new) = db
    <3>1. PICK t \in Seq(OgRow) : t = db.rows BY <1>1, SessionParts
    <3>2. t \o new = t BY <2>1
    <3>3. [db EXCEPT !.rows = t] = db BY <1>1, <3>1 DEF OgSessions
    <3>4. InsertAll(db, new) = [db EXCEPT !.rows = t \o new] BY <3>1 DEF InsertAll
    <3> QED BY <3>2, <3>3, <3>4
  <2>4. orphans' = orphans \cup {ogRows + k : k \in 1..0} BY <1>2
  <2>5. 0 \in Nat /\ ogRows' = ogRows + 0 BY <1>1, <1>4
  <2> QED BY <1>2, <1>4, <2>2, <2>3, <2>4, <2>5, RowsCome
<1> QED BY <1>3, <1>4 DEF OgHandleExecRun

\* exec/batch, to its end or to the first statement that fails
LEMMA OgExecBatchKeeps == ASSUME OgInv, conn' = conn, OgHandleExecBatch PROVE OgInv'
<1>1. db \in OgSessions /\ ogRows \in Nat BY DEF OgInv, SessionInv, OgSound
<1>2. PICK n \in 1..OgMaxChunk, ok \in 0..OgMaxChunk :
        /\ ogRows' = ogRows + ok
        /\ IF ok = n
           THEN /\ db' = InsertAll(db, OgNewRows(ok, 0)) /\ belief' = InsertAll(belief, OgNewRows(ok, 0))
                /\ UNCHANGED orphans
           ELSE /\ db' = Failed(InsertAll(db, OgNewRows(ok, 0)), Cmd("INSERT"))
                /\ belief' = Failed(belief, Cmd("INSERT"))
                /\ orphans' = orphans \cup {ogRows + k : k \in 1..ok}
        /\ Noted /\ UNCHANGED <<ogTables, skipped, swallowed>>
  BY DEF OgHandleExecBatch
<1>3. ok \in Nat BY OgBounds
<1>4. PICK new : new = OgNewRows(ok, 0) OBVIOUS
<1>5. OgFresh(new, ogRows, ok, 0) BY <1>1, <1>3, <1>4, NewRowsFresh
<1>6. CASE ok = n BY <1>2, <1>3, <1>4, <1>5, <1>6, RowsCome
<1>7. CASE ok # n BY <1>2, <1>3, <1>4, <1>5, <1>7, RowsCome
<1> QED BY <1>6, <1>7
-----------------------------------------------------------------------------
(* Imports *)

\* No row is of an import that was not begun.
LEMMA NotBegunYet ==
  ASSUME SessionInv, ImportsInv, NEW i \in Nat, i > Len(ogImports) PROVE Cardinality(OgRowsOf(i)) = 0
<1>1. PICK m \in Nat : m = Len(ogImports) BY DEF ImportsInv
<1>2. OgTable(db.rows, ogRows, m) BY <1>1 DEF SessionInv, OgSound
<1>3. ASSUME NEW k \in DOMAIN db.rows PROVE db.rows[k].by # i
  <2>1. db.rows[k] \in OgRow /\ db.rows[k].by <= m BY <1>2 DEF OgTable
  <2>2. db.rows[k].by \in Nat BY <2>1 DEF OgRow
  <2> QED BY <1>1, <2>1, <2>2
<1>4. OgRowsOf(i) = {} BY <1>3 DEF OgRowsOf
<1> QED BY <1>4, FS_EmptySet

\* data/import_begin
LEMMA OgImportBegins == ASSUME OgInv, conn' = conn, OgHandleDataImportBegin PROVE OgInv'
<1>1. SessionInv /\ IdsInv /\ ImportsInv /\ OgReadsInv BY DEF OgInv
<1>2. PICK limit \in OgThresholds, track \in BOOLEAN : ogImports' = Append(ogImports, OgNewImport(limit, track))
  BY DEF OgHandleDataImportBegin
<1>3. PICK imp : imp = OgNewImport(limit, track) OBVIOUS
<1>4. imp \in OgImportRecs /\ imp.inserted = 0 BY <1>3, OgBounds DEF OgNewImport, OgImportRecs
<1>5. /\ UNCHANGED <<db, belief, orphans, ogRows, skipped, lost, swallowed, ogCursors, ogStreams, tx_conn, next_tx>>
      /\ Len(ogImports) < OgMaxImports
  BY DEF OgHandleDataImportBegin, session
<1>6. PICK m \in Nat : m = Len(ogImports) BY <1>1 DEF ImportsInv
<1>7. /\ ogImports' \in Seq(OgImportRecs \cup {OgNone}) /\ Len(ogImports') = m + 1 /\ DOMAIN ogImports' = 1..(m + 1)
      /\ ogImports'[m + 1] = imp /\ \A i \in 1..m : i \in DOMAIN ogImports /\ ogImports'[i] = ogImports[i]
  <2>1. ogImports \in Seq(OgImportRecs \cup {OgNone}) /\ imp \in OgImportRecs \cup {OgNone} BY <1>1, <1>4 DEF ImportsInv
  <2> QED BY <1>2, <1>3, <1>6, <2>1
<1>8. SessionInv'
  <2>1. OgSound(db, ogRows, m) /\ ogRows \in Nat BY <1>1, <1>6 DEF SessionInv
  <2>2. m + 1 \in Nat /\ m <= m + 1 /\ ogRows <= ogRows BY <2>1
  <2>3. OgSound(db, ogRows, m + 1) BY <2>1, <2>2, SoundLater
  <2>4. OgSound(db', ogRows', Len(ogImports')) BY <1>5, <1>7, <2>3
  <2> QED BY <1>1, <1>5, <2>4 DEF SessionInv
<1>9. IdsInv' BY <1>1, <1>5 DEF IdsInv
<1>10. OgReadsInv' BY <1>1, <1>5, QuietReads
<1>11. m + 1 \in 1..OgMaxImports /\ m + 1 <= OgMaxImports /\ m + 1 > Len(ogImports) BY <1>5, <1>6, OgBounds
<1>12. ImportsAccounted'
  <2>1. ASSUME ~lost', NEW i \in DOMAIN ogImports', ogImports'[i] # OgNone
        PROVE  ogImports'[i].inserted = Cardinality(OgRowsOf(i)') + skipped'[i]
    <3>1. OgRowsOf(i)' = OgRowsOf(i) /\ skipped' = skipped /\ ~lost BY <1>5, <2>1 DEF OgRowsOf
    <3>2. CASE i = m + 1
      <4>1. skipped[i] = 0 BY <1>1, <1>11, <3>2 DEF ImportsInv
      <4>2. Cardinality(OgRowsOf(i)) = 0 BY <1>1, <1>11, <3>2, NotBegunYet
      <4> QED BY <1>4, <1>7, <3>1, <3>2, <4>1, <4>2
    <3>3. CASE i # m + 1
      <4>1. i \in 1..m BY <1>7, <3>3
      <4>2. i \in DOMAIN ogImports /\ ogImports'[i] = ogImports[i] BY <1>7, <4>1
      <4>3. ogImports[i].inserted = Cardinality(OgRowsOf(i)) + skipped[i] BY <1>1, <2>1, <3>1, <4>2 DEF ImportsInv, ImportsAccounted
      <4> QED BY <3>1, <4>2, <4>3
    <3> QED BY <3>2, <3>3
  <2> QED BY <2>1 DEF ImportsAccounted
<1>13. \A i \in 1..OgMaxImports : i > Len(ogImports') => skipped'[i] = 0
  <2>1. ASSUME NEW i \in 1..OgMaxImports, i > Len(ogImports') PROVE skipped'[i] = 0
    <3>1. i > Len(ogImports) BY <1>6, <1>7, <2>1
    <3> QED BY <1>1, <1>5, <3>1 DEF ImportsInv
  <2> QED BY <2>1
<1>14. ImportsInv'
  <2>1. skipped' \in [1..OgMaxImports -> Nat] /\ Len(ogImports') <= OgMaxImports BY <1>1, <1>5, <1>7, <1>11 DEF ImportsInv
  <2> QED BY <1>7, <1>12, <1>13, <2>1 DEF ImportsInv
<1> QED BY <1>8, <1>9, <1>10, <1>14 DEF OgInv

\* data/import_commit, data/import_abort
LEMMA OgImportEnds == ASSUME OgInv, conn' = conn, OgRemoveImport PROVE OgInv'
<1>1. SessionInv /\ IdsInv /\ ImportsInv /\ OgReadsInv BY DEF OgInv
<1>2. PICK i \in DOMAIN ogImports : ogImports' = [ogImports EXCEPT ![i] = OgNone] BY DEF OgRemoveImport
<1>3. UNCHANGED <<db, belief, orphans, ogRows, skipped, lost, swallowed, ogCursors, ogStreams, tx_conn, next_tx>>
  BY DEF OgRemoveImport, session
<1>4. /\ ogImports' \in Seq(OgImportRecs \cup {OgNone}) /\ Len(ogImports') = Len(ogImports) /\ DOMAIN ogImports' = DOMAIN ogImports
      /\ \A j \in DOMAIN ogImports : ogImports'[j] = IF j = i THEN OgNone ELSE ogImports[j]
  <2>1. ogImports \in Seq(OgImportRecs \cup {OgNone}) BY <1>1 DEF ImportsInv
  <2> QED BY <1>2, <2>1
<1>5. SessionInv' BY <1>1, <1>3, <1>4 DEF SessionInv
<1>6. IdsInv' BY <1>1, <1>3 DEF IdsInv
<1>7. OgReadsInv' BY <1>1, <1>3, QuietReads
<1>8. ImportsAccounted'
  <2>1. \A j : OgRowsOf(j)' = OgRowsOf(j) BY <1>3 DEF OgRowsOf
  <2> QED BY <1>1, <1>3, <1>4, <2>1 DEF ImportsInv, ImportsAccounted
<1>9. ImportsInv' BY <1>1, <1>3, <1>4, <1>8 DEF ImportsInv
<1> QED BY <1>5, <1>6, <1>7, <1>9 DEF OgInv

\* What a chunk does to the record of its import.
LEMMA RecordIs ==
  ASSUME NEW imp \in OgImportRecs, NEW R, NEW results \in SeqOf(R, OgMaxChunk)
  PROVE  /\ OgRecordRows(imp, results) \in OgImportRecs
         /\ OgRecordRows(imp, results).inserted = imp.inserted + (Those(results, {"ok"}) + Those(results, {"skipped"}))
<1>1. PICK a, b, c, s \in Nat : /\ a = Those(results, {"ok", "skipped"}) /\ b = Those(results, RowFails)
                                /\ c = Those(results, {"ok", "skipped"} \cup RowFails) /\ s = Those(results, {"ok"}) + Those(results, {"skipped"})
  <2>1. \A kinds : Those(results, kinds) \in Nat BY ThoseAre
  <2> QED BY <2>1
<1>2. a = s BY <1>1, ThoseAre
<1>3. PICK r : r = OgRecordRows(imp, results) OBVIOUS
<1>4. r = [imp EXCEPT !.inserted = @ + a, !.failed = IF imp.track THEN @ + b ELSE @, !.next_row = @ + c]
  BY <1>1, <1>3 DEF OgRecordRows
<1>5. imp.inserted \in Nat /\ imp.failed \in Nat /\ imp.next_row \in Nat BY DEF OgImportRecs
<1>6. r.inserted = imp.inserted + a BY <1>4 DEF OgImportRecs
<1>7. PICK x, y, z \in Nat : x = imp.inserted + a /\ y = (IF imp.track THEN imp.failed + b ELSE imp.failed) /\ z = imp.next_row + c
  <2>1. imp.inserted + a \in Nat /\ imp.failed + b \in Nat /\ imp.next_row + c \in Nat BY <1>5
  <2> QED BY <1>5, <2>1
<1>8. r = [imp EXCEPT !.inserted = x, !.failed = y, !.next_row = z] BY <1>4, <1>7
<1>9. r \in OgImportRecs BY <1>8 DEF OgImportRecs
<1> QED BY <1>1, <1>2, <1>3, <1>6, <1>9

\* The host learned what a chunk of c rows did: the rows are told or hidden, and it
\* knows whether the transaction is aborted.
ChunkTold(new, c) ==
  ~swallowed /\ \E b :
    /\ \/ b = InsertAll(belief, new) /\ orphans' = orphans
       \/ b = belief /\ orphans' = orphans \cup {ogRows + k : k \in 1..c}
    /\ \/ db' = InsertAll(db, new) /\ belief' = b
       \/ db' = Failed(InsertAll(db, new), Cmd("INSERT")) /\ belief' = Failed(b, Cmd("INSERT"))

\* A chunk of import i inserts c rows, and its answer counts them and s rows
\* that were skipped; its rows are told or hidden.
OgChunk(i, c, s, new, imp) ==
  /\ i \in DOMAIN ogImports /\ ogImports[i] # OgNone /\ c \in Nat /\ s \in Nat
  /\ OgFresh(new, ogRows, c, i) /\ ogRows' = ogRows + c
  /\ db' = InsertAll(db, new) \/ db' = Failed(InsertAll(db, new), Cmd("INSERT"))
  /\ orphans' = orphans \/ orphans' = orphans \cup {ogRows + k : k \in 1..c}
  /\ swallowed' \in BOOLEAN
  /\ ~swallowed' => ChunkTold(new, c)
  /\ skipped' = [skipped EXCEPT ![i] = @ + s]
  /\ imp \in OgImportRecs /\ imp.inserted = ogImports[i].inserted + (c + s)
  /\ ogImports' = [ogImports EXCEPT ![i] = imp]
  /\ UNCHANGED <<ogCursors, ogStreams, tx_conn, next_tx, lost>>

LEMMA ChunkIs == ASSUME OgInv, OgHandleDataImportChunk PROVE \E i, c, s, new, imp : OgChunk(i, c, s, new, imp)
<1> DEFINE R == {"ok", "skipped", "shape"} \cup RowFails
<1>1. PICK i \in DOMAIN ogImports, results \in SeqOf(R, OgMaxChunk) :
        LET added == Those(results, {"ok"})
            new == OgNewRows(added, i)
            grown == InsertAll(db, new)
            rejects == Those(results, {"rejected"}) > 0
            error == results # <<>> /\ Last(results) = "shape"
            named == ogImports[i].track /\ ~error
            answered == IF error THEN belief ELSE InsertAll(belief, new)
        IN
        /\ ogImports[i] # OgNone
        /\ ogRows' = ogRows + added
        /\ db' = IF rejects THEN Failed(grown, Cmd("INSERT")) ELSE grown
        /\ belief' = IF rejects /\ named THEN Failed(answered, Cmd("INSERT")) ELSE answered
        /\ swallowed' = (swallowed \/ (rejects /\ ~named /\ db.tx = "open"))
        /\ orphans' = IF error THEN orphans \cup {ogRows + k : k \in 1..added} ELSE orphans
        /\ skipped' = [skipped EXCEPT ![i] = @ + Those(results, {"skipped"})]
        /\ ogImports' = [ogImports EXCEPT ![i] = OgRecordRows(@, results)]
        /\ UNCHANGED <<ogCursors, ogStreams, tx_conn, next_tx, lost>>
  BY DEF OgHandleDataImportChunk
<1> HIDE DEF R
<1>2. PICK c, s, new, imp : /\ c = Those(results, {"ok"}) /\ s = Those(results, {"skipped"}) /\ new = OgNewRows(c, i)
                            /\ imp = OgRecordRows(ogImports[i], results)
  OBVIOUS
<1>3. c \in Nat /\ s \in Nat BY <1>2, ThoseAre
<1>4. ogImports \in Seq(OgImportRecs \cup {OgNone}) /\ ogRows \in Nat BY DEF OgInv, ImportsInv, SessionInv
<1>5. i \in Nat /\ ogImports[i] \in OgImportRecs BY <1>1, <1>4
<1>6. OgFresh(new, ogRows, c, i) BY <1>2, <1>3, <1>4, <1>5, NewRowsFresh
<1>7. imp \in OgImportRecs /\ imp.inserted = ogImports[i].inserted + (c + s) BY <1>2, <1>5, RecordIs
<1>8. ogImports' = [ogImports EXCEPT ![i] = imp] BY <1>1, <1>2
<1>9. db' = InsertAll(db, new) \/ db' = Failed(InsertAll(db, new), Cmd("INSERT")) BY <1>1, <1>2
<1>10. orphans' = orphans \/ orphans' = orphans \cup {ogRows + k : k \in 1..c} BY <1>1, <1>2
<1>14. SessionInv BY DEF OgInv
<1>15. swallowed' \in BOOLEAN BY <1>1
<1>16. ASSUME ~swallowed' PROVE ChunkTold(new, c)
  <2>1. PICK b : \/ b = InsertAll(belief, new) /\ orphans' = orphans /\ ~(results # <<>> /\ Last(results) = "shape")
                 \/ /\ b = belief /\ orphans' = orphans \cup {ogRows + k : k \in 1..c}
                    /\ results # <<>> /\ Last(results) = "shape"
    BY <1>1, <1>2
  <2>2. PICK e : e = InsertAll(db, new) OBVIOUS
  <2>3. e.tx = db.tx
    <3>1. new \in Seq(OgRow) /\ db \in OgSessions BY <1>6, <1>14 DEF OgFresh, SessionInv, OgSound
    <3> QED BY <2>2, <3>1, InsertAllIs
  <2>4. Cmd("INSERT").cmd \notin {"COMMIT", "ROLLBACK"} BY DEF Cmd
  <2>5. db.tx # "open" => Failed(e, Cmd("INSERT")) = e BY <2>3, <2>4 DEF Failed
  <2>6. CASE Those(results, {"rejected"}) > 0 /\ ogImports[i].track /\ ~(results # <<>> /\ Last(results) = "shape")
    BY <1>1, <1>2, <1>16, <2>1, <2>6 DEF ChunkTold
  <2>7. CASE ~(Those(results, {"rejected"}) > 0)
    BY <1>1, <1>2, <1>16, <2>1, <2>7 DEF ChunkTold
  <2>8. CASE Those(results, {"rejected"}) > 0 /\ ~(ogImports[i].track /\ ~(results # <<>> /\ Last(results) = "shape"))
    <3>1. db.tx # "open" /\ ~swallowed BY <1>1, <1>16, <2>8
    <3>2. db' = Failed(e, Cmd("INSERT")) BY <1>1, <1>2, <2>2, <2>8
    <3>3. db' = InsertAll(db, new) BY <2>2, <2>5, <3>1, <3>2
    <3>4. belief' = b BY <1>1, <1>2, <2>1, <2>8
    <3> QED BY <2>1, <3>1, <3>3, <3>4 DEF ChunkTold
  <2> QED BY <2>6, <2>7, <2>8
<1>11. ogRows' = ogRows + c /\ skipped' = [skipped EXCEPT ![i] = @ + s] BY <1>1, <1>2
<1>12. ogImports[i] # OgNone /\ UNCHANGED <<ogCursors, ogStreams, tx_conn, next_tx, lost>> BY <1>1
<1>13. OgChunk(i, c, s, new, imp) BY <1>3, <1>6, <1>7, <1>8, <1>9, <1>10, <1>11, <1>12, <1>15, <1>16 DEF OgChunk
<1> QED BY <1>13

\* data/import_chunk
LEMMA OgChunkKeeps == ASSUME OgInv, conn' = conn, OgHandleDataImportChunk PROVE OgInv'
<1>1. SessionInv /\ IdsInv /\ ImportsInv /\ OgReadsInv BY DEF OgInv
<1>2. PICK i, c, s, new, imp : OgChunk(i, c, s, new, imp) BY ChunkIs
<1>3. /\ i \in DOMAIN ogImports /\ ogImports[i] # OgNone /\ c \in Nat /\ s \in Nat /\ OgFresh(new, ogRows, c, i)
      /\ ogRows' = ogRows + c /\ UNCHANGED <<ogCursors, ogStreams, tx_conn, next_tx, lost>>
  BY <1>2 DEF OgChunk
<1>4. PICK n, m \in Nat : n = ogRows /\ m = Len(ogImports)
  <2>1. ogRows \in Nat /\ Len(ogImports) \in Nat BY <1>1 DEF SessionInv, ImportsInv
  <2> QED BY <2>1
<1>5. ogImports \in Seq(OgImportRecs \cup {OgNone}) /\ m <= OgMaxImports /\ skipped \in [1..OgMaxImports -> Nat] BY <1>1, <1>4 DEF ImportsInv
<1>6. i \in Nat /\ i \in 1..m /\ i <= m /\ i \in 1..OgMaxImports BY <1>3, <1>4, <1>5, OgBounds
<1>7. OgSound(db, n, m) /\ db \in OgSessions /\ orphans \in SUBSET (1..n) BY <1>1, <1>4 DEF SessionInv, OgSound
<1>8. PICK e, h : e = InsertAll(db, new) /\ h = orphans \cup {n + k : k \in 1..c} OBVIOUS
<1>9. OgFresh(new, n, c, i) /\ new \in Seq(OgRow) BY <1>3, <1>4 DEF OgFresh
<1>10. OgSound(e, n + c, m) /\ e \in OgSessions
  <2>1. OgSound(e, n + c, m) BY <1>3, <1>6, <1>7, <1>8, <1>9, SoundGrows
  <2> QED BY <2>1 DEF OgSound
<1>11. e.rows = db.rows \o new /\ e.tx = db.tx BY <1>7, <1>8, <1>9, InsertAllIs
<1>12. Cmd("INSERT").cmd \notin {"COMMIT", "ROLLBACK"} BY DEF Cmd
<1>13. db' = e \/ db' = Failed(e, Cmd("INSERT")) BY <1>2, <1>8 DEF OgChunk
<1>14. OgSound(db', n + c, m) BY <1>10, <1>13, FailureKeeps
<1>15. db'.rows = db.rows \o new /\ (db'.tx = "auto" <=> db.tx = "auto")
  <2>1. db' = Failed(e, Cmd("INSERT")) => db'.rows = e.rows /\ (db'.tx = "auto" <=> e.tx = "auto") BY <1>10, <1>12, AbortIs, FailedTx
  <2> QED BY <1>11, <1>13, <2>1
<1>16. ASSUME ~swallowed' PROVE OgAgree(belief', db', orphans')
  <2>1. ~swallowed /\ \E b :
          /\ \/ b = InsertAll(belief, new) /\ orphans' = orphans
             \/ b = belief /\ orphans' = h
          /\ \/ db' = e /\ belief' = b
             \/ db' = Failed(e, Cmd("INSERT")) /\ belief' = Failed(b, Cmd("INSERT"))
    BY <1>2, <1>4, <1>8, <1>16 DEF OgChunk, ChunkTold
  <2>2. OgAgree(belief, db, orphans) BY <1>1, <2>1 DEF SessionInv
  <2>3. OgAgree(InsertAll(belief, new), e, orphans) /\ OgAgree(belief, e, h) BY <1>3, <1>6, <1>7, <1>8, <1>9, <2>2, AgreeGrows
  <2>4. PICK b : /\ OgAgree(b, e, orphans')
                 /\ \/ db' = e /\ belief' = b
                    \/ db' = Failed(e, Cmd("INSERT")) /\ belief' = Failed(b, Cmd("INSERT"))
    BY <2>1, <2>3
  <2> QED BY <1>10, <2>4, FailureKeeps
<1>17. orphans' \in SUBSET (1..(n + c))
  <2>1. orphans \in SUBSET (1..(n + c)) /\ h \in SUBSET (1..(n + c)) BY <1>3, <1>7, <1>8, HiddenAreRows
  <2> QED BY <1>2, <1>4, <1>8, <2>1 DEF OgChunk
<1>18. /\ ogImports' \in Seq(OgImportRecs \cup {OgNone}) /\ Len(ogImports') = m /\ DOMAIN ogImports' = DOMAIN ogImports
       /\ \A j \in DOMAIN ogImports : ogImports'[j] = IF j = i THEN imp ELSE ogImports[j]
  <2>1. ogImports' = [ogImports EXCEPT ![i] = imp] /\ imp \in OgImportRecs \cup {OgNone} BY <1>2 DEF OgChunk
  <2> QED BY <1>3, <1>4, <1>5, <2>1
<1>19. skipped' = [skipped EXCEPT ![i] = skipped[i] + s] /\ skipped[i] \in Nat BY <1>2, <1>5, <1>6 DEF OgChunk
<1>20. SessionInv'
  <2>1. ogRows' \in Nat /\ orphans' \in SUBSET (1..ogRows') BY <1>3, <1>4, <1>17
  <2>2. swallowed' \in BOOLEAN /\ lost' \in BOOLEAN BY <1>1, <1>2, <1>3 DEF SessionInv, OgChunk
  <2>3. OgSound(db', ogRows', Len(ogImports')) BY <1>3, <1>4, <1>14, <1>18
  <2>4. ~swallowed' => OgAgree(belief', db', orphans') BY <1>16
  <2> QED BY <2>1, <2>2, <2>3, <2>4 DEF SessionInv
<1>21. IdsInv' BY <1>1, <1>3, <1>15, IdsStay
<1>22. OgReadsInv' BY <1>1, <1>3, QuietReads
<1>23. ImportsAccounted'
  <2>1. ASSUME ~lost', NEW j \in DOMAIN ogImports', ogImports'[j] # OgNone
        PROVE  ogImports'[j].inserted = Cardinality(OgRowsOf(j)') + skipped'[j]
    <3>1. ~lost /\ j \in DOMAIN ogImports /\ j \in Nat /\ j \in 1..OgMaxImports
      BY <1>3, <1>4, <1>5, <1>18, <2>1, OgBounds
    <3>2. db.rows \in Seq(OgRow) BY <1>7, SessionParts
    <3>3. Cardinality(OgOwned(db.rows \o new, j)) = Cardinality(OgOwned(db.rows, j)) + (IF j = i THEN c ELSE 0)
      BY <1>3, <1>4, <1>6, <1>9, <3>1, <3>2, OgCountGrows
    <3>4. OgRowsOf(j)' = OgOwned(db.rows \o new, j) /\ OgRowsOf(j) = OgOwned(db.rows, j) BY <1>15 DEF OgRowsOf, OgOwned
    <3>5. PICK z \in Nat : z = Cardinality(OgRowsOf(j)) BY <3>2, <3>4, OgOwnedFinite
    <3>6. ogImports[j] # OgNone => ogImports[j].inserted = z + skipped[j]
      BY <1>1, <3>1, <3>5 DEF ImportsInv, ImportsAccounted
    <3>7. CASE j = i
      <4>1. ogImports'[j].inserted = (z + skipped[i]) + (c + s) BY <1>2, <1>3, <1>18, <3>1, <3>6, <3>7 DEF OgChunk
      <4>2. Cardinality(OgRowsOf(j)') = z + c BY <3>3, <3>4, <3>5, <3>7
      <4>3. skipped'[j] = skipped[i] + s BY <1>5, <1>6, <1>19, <3>7
      <4> QED BY <1>3, <1>19, <3>5, <4>1, <4>2, <4>3
    <3>8. CASE j # i
      <4>1. ogImports'[j] = ogImports[j] BY <1>18, <3>1, <3>8
      <4>2. Cardinality(OgRowsOf(j)') = z BY <3>3, <3>4, <3>5, <3>8
      <4>3. skipped'[j] = skipped[j] BY <1>5, <1>6, <1>19, <3>1, <3>8
      <4> QED BY <2>1, <3>6, <4>1, <4>2, <4>3
    <3> QED BY <3>7, <3>8
  <2> QED BY <2>1 DEF ImportsAccounted
<1>24. ImportsInv'
  <2>1. skipped' \in [1..OgMaxImports -> Nat] BY <1>3, <1>5, <1>6, <1>19
  <2>2. ASSUME NEW j \in 1..OgMaxImports, j > Len(ogImports') PROVE skipped'[j] = 0
    <3>1. j # i /\ j > Len(ogImports) BY <1>4, <1>6, <1>18, <2>2
    <3>2. skipped[j] = 0 BY <1>1, <3>1 DEF ImportsInv
    <3> QED BY <1>5, <1>19, <3>1, <3>2
  <2> QED BY <1>5, <1>18, <1>23, <2>1, <2>2 DEF ImportsInv
<1> QED BY <1>20, <1>21, <1>22, <1>24 DEF OgInv
-----------------------------------------------------------------------------
(* The theorem *)

LEMMA OgInitial == OgInit => OgInv
<1> SUFFICES ASSUME OgInit PROVE OgInv OBVIOUS
<1>1. Empty \in OgSessions /\ Empty.rows = <<>> /\ Empty.saved = <<>> /\ Empty.marks = <<>> /\ Empty.tx = "auto"
  BY DEF Empty, OgSessions
<1>2. OgTable(<<>>, 0, 0) /\ OgTold(<<>>, <<>>, {}) BY EmptyTable
<1>3. DOMAIN <<>> = {} /\ Len(<<>>) = 0 OBVIOUS
<1>4. OgSound(Empty, 0, 0) BY <1>1, <1>2, <1>3 DEF OgSound
<1>5. OgAgree(Empty, Empty, {}) BY <1>1, <1>2, <1>3 DEF OgAgree
<1>6. SessionInv BY <1>3, <1>4, <1>5 DEF OgInit, SessionInv
<1>7. IdsInv BY <1>1 DEF OgInit, IdsInv
<1>8. ImportsInv
  <2>1. ogImports = <<>> /\ skipped = [i \in 1..OgMaxImports |-> 0] BY DEF OgInit
  <2> QED BY <1>3, <2>1, OgBounds DEF ImportsInv, ImportsAccounted
<1>9. OgReadsInv BY <1>3 DEF OgInit, OgReadsInv
<1> QED BY <1>6, <1>7, <1>8, <1>9 DEF OgInv

LEMMA OgStep == OgInv /\ [OgNext]_ogVars => OgInv'
<1> SUFFICES ASSUME OgInv, [OgNext]_ogVars PROVE OgInv' OBVIOUS
<1>1. CASE OgClose BY <1>1, OgCloseKeeps
<1>2. CASE conn' = conn /\ OgCall
  <2>1. CASE OgReading BY <1>2, <2>1, ReadingKeeps
  <2>2. CASE OgHandleExecRun BY <1>2, <2>2, OgExecRunKeeps
  <2>3. CASE OgHandleExecBatch BY <1>2, <2>3, OgExecBatchKeeps
  <2>4. CASE HandleSchemaReadFails \/ HandleDumpDdlSwallows BY <1>2, <2>4, OgFailuresKeep
  <2>5. CASE OgHandleTxBegin BY <1>2, <2>5, OgBeginKeeps
  <2>6. ASSUME NEW tx \in 1..OgMaxTx,
               OgHandleTxCommit(tx) \/ OgHandleTxRollback(tx) \/ HandleTxSavepoint(tx) \/ HandleTxRelease(tx)
        PROVE  OgInv'
    BY <1>2, <2>6, OgCommitKeeps, OgRollbackKeeps, OgMarksKeep
  <2>7. CASE OgHandleDataImportBegin BY <1>2, <2>7, OgImportBegins
  <2>8. CASE OgHandleDataImportChunk BY <1>2, <2>8, OgChunkKeeps
  <2>9. CASE OgHandleDataImportCommit \/ OgHandleDataImportAbort
    BY <1>2, <2>9, OgImportEnds DEF OgHandleDataImportCommit, OgHandleDataImportAbort
  <2> QED BY <1>2, <2>1, <2>2, <2>3, <2>4, <2>5, <2>6, <2>7, <2>8, <2>9 DEF OgCall, OgReading
<1>3. CASE UNCHANGED ogVars
  <2>1. UNCHANGED <<conn, session, ogImports, tx_conn, next_tx, ogCursors, ogStreams>> BY <1>3 DEF ogVars, ogTables
  <2>2. SessionInv' /\ IdsInv' /\ ImportsInv' BY <2>1, QuietSession DEF OgInv
  <2>3. OgReadsInv' BY <2>1, QuietReads DEF OgInv
  <2> QED BY <2>2, <2>3 DEF OgInv
<1> QED BY <1>1, <1>2, <1>3 DEF OgNext

LEMMA OgTruth == OgInv => OgConnectionIsTrue
<1> SUFFICES ASSUME OgInv PROVE OgConnectionIsTrue OBVIOUS
<1>1. SessionInv /\ IdsInv /\ ImportsInv /\ OgReadsInv BY DEF OgInv
<1>2. OgSound(db, ogRows, Len(ogImports)) /\ db \in OgSessions BY <1>1 DEF SessionInv, OgSound
<1>3. OgTypeOK
  <2>1. db.tx \in {"auto", "open", "aborted"} BY <1>2, SessionParts
  <2>2. ASSUME NEW c \in DOMAIN ogCursors PROVE ogCursors[c] = OgNone \/ ogCursors[c].next \in 0..Len(ogCursors[c].rows)
    <3>1. ASSUME OgCursorOK(ogCursors[c]) PROVE ogCursors[c].next \in 0..Len(ogCursors[c].rows)
      <4>1. ogCursors[c] \in OgCursorRecs /\ ogCursors[c].next <= Len(ogCursors[c].rows) BY <3>1 DEF OgCursorOK
      <4>2. ogCursors[c].next \in Nat /\ ogCursors[c].rows \in Seq(OgRow) BY <4>1 DEF OgCursorRecs
      <4> QED BY <4>1, <4>2
    <3> QED BY <1>1, <3>1 DEF OgReadsInv
  <2>3. ASSUME NEW s \in OgStreamIds PROVE ogStreams[s] = OgNone \/ ogStreams[s].offset \in 0..Len(ogStreams[s].data)
    <3>1. ASSUME OgStreamOK(ogStreams[s]) PROVE ogStreams[s].offset \in 0..Len(ogStreams[s].data)
      <4>1. ogStreams[s] \in OgStreamRecs /\ ogStreams[s].offset <= Len(ogStreams[s].data) BY <3>1 DEF OgStreamOK
      <4>2. ogStreams[s].offset \in Nat /\ ogStreams[s].data \in Seq(Nat) BY <4>1 DEF OgStreamRecs
      <4> QED BY <4>1, <4>2
    <3> QED BY <1>1, <3>1 DEF OgReadsInv
  <2> QED BY <1>1, <2>1, <2>2, <2>3 DEF OgTypeOK, IdsInv
<1>4. OpenTxHasAnId BY <1>1 DEF IdsInv, OpenTxHasAnId
<1>5. OgAnswersAreTrue BY <1>1, <1>2 DEF SessionInv, OgSound, OgTable, OgAgree, OgTold, OgAnswersAreTrue
<1>6. ImportsAccounted BY <1>1 DEF ImportsInv
<1>7. ReadsDeliver
  <2>1. ASSUME NEW c \in DOMAIN ogCursors, ogCursors[c] # OgNone
        PROVE  /\ ogCursors[c].got = SubSeq(ogCursors[c].rows, 1, ogCursors[c].next)
               /\ ~ogCursors[c].cancelled =>
                    (ogCursors[c].done => Len(ogCursors[c].got) = OgAtMost(Len(ogCursors[c].rows), ogCursors[c].max))
               /\ Len(ogCursors[c].got) = OgAtMost(Len(ogCursors[c].rows), ogCursors[c].max) /\ ogCursors[c].got # <<>>
                    => ogCursors[c].done
    <3>1. PICK x : x = ogCursors[c] /\ OgCursorOK(x) BY <1>1, <2>1 DEF OgReadsInv
    <3>2. x \in OgCursorRecs /\ x.next <= Len(x.rows) /\ x.got = SubSeq(x.rows, 1, x.next) BY <3>1 DEF OgCursorOK
    <3>3. x.rows \in Seq(OgRow) /\ x.next \in Nat BY <3>2 DEF OgCursorRecs
    <3>4. x.next \in 0..Len(x.rows) BY <3>2, <3>3
    <3>5. Len(x.got) = x.next /\ x.got \in Seq(OgRow) BY <3>2, <3>3, <3>4, FirstOf
    <3>6. x.got # <<>> => x.next # 0 BY <3>5
    <3> QED BY <3>1, <3>2, <3>5, <3>6 DEF OgCursorOK
  <2>2. ASSUME NEW s \in OgStreamIds, ogStreams[s] # OgNone
        PROVE  ogStreams[s].got = SubSeq(ogStreams[s].data, 1, ogStreams[s].offset)
    BY <1>1, <2>2 DEF OgReadsInv, OgStreamOK
  <2> QED BY <2>1, <2>2 DEF ReadsDeliver
<1> QED BY <1>3, <1>4, <1>5, <1>6, <1>7 DEF OgConnectionIsTrue

\* A connection of openGauss is true to its server, for every number of rows,
\* transactions, imports, cursors and exports, and in every order of requests
\* and failures: a transaction of the session has an id the host holds, what
\* is in the table is what the answers said but for the rows of requests that
\* answered an error, what an import answers is what it inserted, and cursors
\* and exports deliver what they read, once and in order.
THEOREM OgConnectionTruthful == OgSpec => []OgConnectionIsTrue
BY OgInitial, OgStep, OgTruth, PTL DEF OgSpec
=============================================================================
