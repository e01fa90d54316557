------------------------------ MODULE MCSqlText ------------------------------
(***************************************************************************)
(* What the SQL drivers make of a request, for TLC: the answers of the     *)
(* catalog reads, the statements of the DDL builders, the text of an       *)
(* export and the configuration of a connection.  A behaviour is one part  *)
(* with one driver; the other parts stay at their first state.             *)
(***************************************************************************)
EXTENDS Naturals, Sequences

VARIABLES part,   \* <<part, driver>>
          catalog, keys, view,
          table, phase, request, statements, rollback, objects, dropped,
          driver, options, include, exclude, source, raw, columns, rows, written, headerWritten, out, state,
          initialized, next_conn_id, opened, saved

schemaVars == <<catalog, keys, view>>
ddlVars == <<table, phase, request, statements, rollback, objects, dropped>>
csvVars == <<driver, options, include, exclude, source, raw, columns, rows, written, headerWritten, out, state>>
gateVars == <<initialized, next_conn_id, opened, saved>>
allVars == <<part, schemaVars, ddlVars, csvVars, gateVars>>
-----------------------------------------------------------------------------
(* Catalogs *)

Obj(db, schema, kind, name, of, internal, temp) ==
  [db |-> db, schema |-> schema, kind |-> kind, name |-> name, of |-> of,
   internal |-> internal, temp |-> temp]

User(schema, kind, name, of) == Obj("cur", schema, kind, name, of, FALSE, FALSE)

\* A file with two schemas, a catalog schema, an attached database with the
\* same names and a temporary table.
DuckUniverse ==
  {User("main", "table", "t", ""), User("main", "view", "v", ""),
   User("s2", "table", "t", ""), User("main", "index", "i", "t"),
   Obj("cur", "pg_catalog", "view", "v", "", TRUE, FALSE),
   Obj("att", "main", "table", "t", "", FALSE, FALSE),
   Obj("att", "main", "view", "u", "", FALSE, FALSE),
   Obj("temp", "main", "table", "t", "", FALSE, TRUE)}

OgUniverse ==
  {User("public", "table", "t", ""), User("public", "view", "v", ""),
   User("public", "view", "t", ""), User("s2", "table", "t", ""),
   User("public", "matview", "m", ""), User("public", "sequence", "q", ""),
   User("s2", "function", "t", ""), User("public", "type", "t", ""),
   User("public", "trigger", "g", "t")}

Key(name, tbl, from, to_schema, to_table, to) ==
  [name |-> name, schema |-> "public", table |-> tbl, from_cols |-> from,
   to_schema |-> to_schema, to_table |-> to_table, to_cols |-> to]

SmallKeys ==
  {Key("k", "t", <<"a">>, "public", "u", <<"x">>),
   Key("k", "w", <<"b">>, "public", "v", <<"y">>),
   Key("two", "t", <<"a", "b">>, "public", "u", <<"x", "y">>),
   Key("far", "t", <<"a">>, "s2", "u", <<"x">>)}

DuckReads == INSTANCE SchemaReads WITH
  Driver <- "duckdb", Universe <- DuckUniverse, Current <- "cur", Databases <- {"", "cur", "att"},
  Schemas <- {"", "main", "s2", "pg_catalog"}, Names <- {"t", "v"}, Keys <- {}
OgReads == INSTANCE SchemaReads WITH
  Driver <- "opengauss", Universe <- OgUniverse, Current <- "cur", Databases <- {"", "cur", "other"},
  Schemas <- {"", "public", "s2"}, Names <- {"t", "v"}, Keys <- SmallKeys
-----------------------------------------------------------------------------
(* Requests of the DDL builders *)

\* No rename, one, one to a name in use, one to itself, a blank one, a chain, a swap.
SmallRenames ==
  {<<>>, <<<<"a", "c">>>>, <<<<"a", "b">>>>, <<<<"a", "a">>>>, <<<<"a", "">>>>,
   <<<<"a", "c">>, <<"b", "a">>>>, <<<<"a", "b">>, <<"b", "a">>>>}

SmallObjects ==
  {[kind |-> k, schema |-> s, name |-> "n"] : k \in {"table", "index"}, s \in {"default", "s"}}
    \cup {[kind |-> "view", schema |-> "s", name |-> "m"],
          [kind |-> "table", schema |-> "db", name |-> "n"],
          [kind |-> "table", schema |-> "default", name |-> "m"]}

DuckDdl == INSTANCE TableDdl WITH
  Driver <- "duckdb", SupportsComments <- TRUE, FromCols <- {"a", "b"}, ToCols <- {"a", "b", "c"}, Comments <- {"", "x"},
  RenameLists <- SmallRenames, Objects <- SmallObjects, Database <- "db"
OgDdl == INSTANCE TableDdl WITH
  Driver <- "opengauss", SupportsComments <- TRUE, FromCols <- {"a", "b"}, ToCols <- {"a", "b", "c"}, Comments <- {"", "x"},
  RenameLists <- SmallRenames, Objects <- SmallObjects, Database <- "db"
GoDdl == INSTANCE TableDdl WITH
  Driver <- "go", SupportsComments <- TRUE, FromCols <- {"a", "b"}, ToCols <- {"a", "b", "c"}, Comments <- {"", "x"},
  RenameLists <- SmallRenames, Objects <- SmallObjects, Database <- "db"
GoPlainDdl == INSTANCE TableDdl WITH
  Driver <- "go", SupportsComments <- FALSE, FromCols <- {"a", "b"}, ToCols <- {"a", "b", "c"}, Comments <- {"", "x"},
  RenameLists <- {<<>>, <<<<"a", "c">>>>}, Objects <- {}, Database <- "db"
-----------------------------------------------------------------------------
(* Exports: cells with every character that matters, and columns *)
Text(s) == [kind |-> "text", value |-> s]
SomeCells == {[kind |-> "null", value |-> <<>>], [kind |-> "json null", value |-> <<>>], [kind |-> "number", value |-> <<"1">>],
              Text(<<>>), Text(<<"N">>), Text(<<",">>), Text(<<"'">>), Text(<<"'", "N">>), Text(<<"nl", "'">>), Text(<<"a", "'", ",">>)}
FewCells == {[kind |-> "null", value |-> <<>>], Text(<<"N">>)}

CsvText == INSTANCE CsvExport WITH
  Drivers <- {"duckdb", "opengauss"}, Cells <- SomeCells, Delimiters <- {","}, Quotes <- {"'"},
  Nulls <- {<<"N">>, <<>>}, Columns <- {<<"a">>}, MaxColumns <- 1, MaxRows <- 3, PageRows <- 2
CsvColumns == INSTANCE CsvExport WITH
  Drivers <- {"duckdb", "opengauss"}, Cells <- FewCells, Delimiters <- {","}, Quotes <- {"'"},
  Nulls <- {<<"N">>}, Columns <- {<<"a">>, <<"b", ",">>, <<"nl">>}, MaxColumns <- 2, MaxRows <- 1, PageRows <- 1
-----------------------------------------------------------------------------
(* Configurations a host may send *)

\* 0.9.9, 0.10.0, 0.10.1-alpha, 0.10.1 and a text that is no version.
SomeHosts ==
  {[parses |-> TRUE, core |-> c, pre |-> FALSE] : c \in 1..3}
    \cup {[parses |-> TRUE, core |-> 3, pre |-> TRUE], [parses |-> FALSE, core |-> 3, pre |-> FALSE]}

OgParams(users, modes, certs) ==
  {[username |-> u, user |-> v, ssl_mode |-> m, ssl_accept_invalid_certs |-> c] :
     u \in users, v \in users, m \in modes, c \in certs}

OgConfigs ==
  {[top |-> t, extra |-> e] :
     t \in OgParams({"absent", "ann"}, {"absent", "null", "disable", "prefer", "require", "verify-ca"}, {"absent", "true"}),
     e \in OgParams({"absent", "bob"}, {"absent", "disable", "prefer", "require"}, {"absent", "true", "maybe"})}

DuckConfigs ==
  {[top |-> [host |-> h, database |-> d], extra |-> [path |-> p]] :
     h \in {"absent", "null", "blank", "a.db"}, d \in {"absent", "null", "blank", "b.db"}, p \in {"absent", "blank", "c.db"}}

SomeServers ==
  {[tls |-> t, certificate |-> c] : t \in BOOLEAN, c \in BOOLEAN}

AFile == {[tls |-> FALSE, certificate |-> FALSE]}

OgGate == INSTANCE DriverGate WITH
  Driver <- "opengauss", HostVersions <- SomeHosts, MinimumHost <- 2, Configs <- OgConfigs, Servers <- SomeServers,
  MaxOpens <- 3
DuckGate == INSTANCE DriverGate WITH
  Driver <- "duckdb", HostVersions <- SomeHosts, MinimumHost <- 2, Configs <- DuckConfigs, Servers <- AFile,
  MaxOpens <- 3
-----------------------------------------------------------------------------
ASSUME PartsAssumption ==
  /\ DuckReads!SchemaAssumption /\ OgReads!SchemaAssumption
  /\ DuckDdl!DdlAssumption /\ OgDdl!DdlAssumption /\ GoDdl!DdlAssumption /\ GoPlainDdl!DdlAssumption
  /\ CsvText!CsvAssumption /\ CsvColumns!CsvAssumption
  /\ OgGate!GateAssumption /\ DuckGate!GateAssumption

NoExport == /\ driver = 0 /\ options = 0 /\ include = 0 /\ exclude = 0 /\ source = 0 /\ raw = 0 /\ columns = 0 /\ rows = 0
            /\ written = 0 /\ headerWritten = 0 /\ out = 0 /\ state = 0
NoGate == /\ initialized = 0 /\ next_conn_id = 0 /\ opened = 0 /\ saved = 0

AllInit ==
  /\ part \in {<<"reads", "duckdb">>, <<"reads", "opengauss">>, <<"ddl", "duckdb">>, <<"ddl", "opengauss">>, <<"ddl", "go">>, <<"ddl", "go plain">>,
               <<"csv", "text">>, <<"csv", "columns">>, <<"gate", "opengauss">>, <<"gate", "duckdb">>}
  /\ DuckReads!Init /\ IF part = <<"ddl", "go plain">> THEN GoPlainDdl!Init ELSE DuckDdl!Init
  /\ CASE part = <<"csv", "text">> -> CsvText!Init [] part = <<"csv", "columns">> -> CsvColumns!Init [] OTHER -> NoExport
  /\ CASE part = <<"gate", "opengauss">> -> OgGate!Init [] part = <<"gate", "duckdb">> -> DuckGate!Init [] OTHER -> NoGate

AllNext ==
  /\ UNCHANGED part
  /\ \/ /\ UNCHANGED <<ddlVars, csvVars, gateVars>>
        /\ \/ part = <<"reads", "duckdb">> /\ DuckReads!Next
           \/ part = <<"reads", "opengauss">> /\ OgReads!Next
     \/ /\ UNCHANGED <<schemaVars, csvVars, gateVars>>
        /\ \/ part = <<"ddl", "duckdb">> /\ DuckDdl!Next
           \/ part = <<"ddl", "opengauss">> /\ OgDdl!Next
           \/ part = <<"ddl", "go">> /\ GoDdl!Next
           \/ part = <<"ddl", "go plain">> /\ GoPlainDdl!Next
     \/ /\ UNCHANGED <<schemaVars, ddlVars, gateVars>>
        /\ \/ part = <<"csv", "text">> /\ CsvText!Next
           \/ part = <<"csv", "columns">> /\ CsvColumns!Next
     \/ /\ UNCHANGED <<schemaVars, ddlVars, csvVars>>
        /\ \/ part = <<"gate", "opengauss">> /\ OgGate!Next
           \/ part = <<"gate", "duckdb">> /\ DuckGate!Next

AllSpec == AllInit /\ [][AllNext]_allVars
-----------------------------------------------------------------------------
\* What schema/object_view and the tree list is what the catalog holds, no more and
\* no less, and every entry of the tree can be opened again by its name.
TreeIsExact == CASE part = <<"reads", "duckdb">> -> DuckReads!TreeIsExact
                 [] part = <<"reads", "opengauss">> -> OgReads!TreeIsExact
                 [] OTHER -> TRUE

\* The statements a builder answers, run in order, make of the old table the one
\* the request describes, and its rollback brings back of the old one all but a
\* column that was dropped.
DdlIsExact == CASE part = <<"ddl", "duckdb">> -> DuckDdl!DdlIsExact
                [] part = <<"ddl", "opengauss">> -> OgDdl!DdlIsExact
                [] part = <<"ddl", "go">> -> GoDdl!DdlIsExact
                [] part = <<"ddl", "go plain">> -> GoPlainDdl!DdlIsExact
                [] OTHER -> TRUE


\* A connection is made as its configuration asks (TLS, certificates, user, path)
\* wherever the configuration says it, and the ids of connections stay apart.
GateHolds == CASE part = <<"gate", "opengauss">> -> OgGate!GateHolds
               [] part = <<"gate", "duckdb">> -> DuckGate!GateHolds
               [] OTHER -> TRUE
=============================================================================
