----------------------------- MODULE SchemaReads -----------------------------
(***************************************************************************)
(* The catalog reads of the DuckDB and openGauss drivers: which objects the*)
(* answer to each schema/* request lists, as a function of the catalog.  An*)
(* object is a record of its database, schema, kind and name, the table it *)
(* is "of", and whether the engine calls it internal or temporary; what an *)
(* answer says about it (types, comments, texts) is left out.  Answers are *)
(* sets of objects: an answer that holds two objects of one name and kind  *)
(* shows the host the same entry twice.                                    *)
(*                                                                         *)
(* The engines' catalogs are external and change at any time.              *)
(***************************************************************************)
EXTENDS Naturals, FiniteSets, Sequences

CONSTANTS Universe,    \* the objects a catalog may hold
          Current,     \* the database of the connection
          Databases,   \* names a request may give as database, "" among them
          Schemas,     \* names a request may give as schema, "" among them
          Names,       \* names a request may give as table
          Keys,        \* foreign keys a catalog may hold
          Driver       \* the driver that answers schema/object_view

Kinds == {"table", "view", "matview", "sequence", "function", "type",
          "index", "trigger", "check"}

\* What the constants are.
SchemaAssumption ==
  /\ \A o \in Universe : o.kind \in Kinds /\ o.internal \in BOOLEAN /\ o.temp \in BOOLEAN
  /\ Driver \in {"duckdb", "opengauss"}
  /\ \A k \in Keys : Len(k.from_cols) = Len(k.to_cols)

VARIABLES catalog,   \* external: objects that exist
          keys,      \* external: foreign keys that exist
          view       \* the rows of the last answer

vars == <<catalog, keys, view>>
Of(kind) == {o \in catalog : o.kind = kind}
-----------------------------------------------------------------------------
(* DuckDB *)

\* LEGACY_DUCKDB_CATALOG is "main", whatever the database is called.
IsDefaultCatalogReference(db) == db \in {"", Current, "main"}

IsDuckdbCatalogSchema(s) == s \in {"information_schema", "pg_catalog"}

\* No condition at all for the current database: attached and temporary ones
\* are searched as well.
AppendDatabaseFilter(objects, db) ==
  IF IsDefaultCatalogReference(db) THEN objects ELSE {o \in objects : o.db = db}

AppendOptionalFilter(objects, schema) ==
  IF schema = "" THEN objects ELSE {o \in objects : o.schema = schema}

AppendDatabaseSchemaFilters(objects, db, schema) ==
  AppendOptionalFilter(AppendDatabaseFilter(objects, db), schema)

UserOnly(objects, schema) ==
  IF IsDuckdbCatalogSchema(schema) THEN objects
  ELSE {o \in objects : ~o.internal /\ ~o.temp}

DuckSchemas == {o.schema : o \in catalog}

As(kind, objects) == {[o EXCEPT !.kind = kind] : o \in objects}

\* Mutant: views of a catalog schema are listed as tables and as views.
DuckObjectsTwice(db, schema, kinds) ==
  LET tables == IF IsDuckdbCatalogSchema(schema) THEN Of("view") ELSE Of("table")
      Wanted(objects) == AppendDatabaseSchemaFilters(UserOnly(objects, schema), db, schema)
  IN (IF kinds = {} \/ "table" \in kinds THEN As("table", Wanted(tables)) ELSE {})
       \cup (IF kinds = {} \/ "view" \in kinds THEN Wanted(Of("view")) ELSE {})

\* In a catalog schema the views stand for tables, and are then not listed a
\* second time as views.
DuckObjects(db, schema, kinds) ==
  LET tables == IF IsDuckdbCatalogSchema(schema) THEN Of("view") ELSE Of("table")
      wanted_tables == kinds = {} \/ "table" \in kinds
      catalog_views_returned_as_tables == IsDuckdbCatalogSchema(schema) /\ wanted_tables
      Wanted(objects) == AppendDatabaseSchemaFilters(UserOnly(objects, schema), db, schema)
  IN (IF wanted_tables THEN As("table", Wanted(tables)) ELSE {})
       \cup (IF (kinds = {} \/ "view" \in kinds) /\ ~catalog_views_returned_as_tables
             THEN Wanted(Of("view")) ELSE {})

\* The tables or views whose columns are answered; temporary ones are not
\* filtered here.
DuckColumns(db, schema, name) ==
  AppendDatabaseSchemaFilters(
    {o \in Of("table") \cup Of("view") :
       o.name = name /\ (IsDuckdbCatalogSchema(schema) \/ ~o.internal)}, db, schema)

DuckViews(db, schema) ==
  AppendDatabaseSchemaFilters(UserOnly(Of("view"), schema), db, schema)

DuckIndexes(db, schema, name) ==
  AppendDatabaseSchemaFilters({o \in Of("index") : o.of = name}, db, schema)

DuckChecks(schema, name) == AppendOptionalFilter({o \in Of("check") : o.of = name}, schema)

\* schema/object_view, and schema/checks which has no view of its own.
DuckObjectView(v, db, schema, name) ==
  CASE v = "tables" -> DuckObjects(db, schema, {"table"})
    [] v = "views" -> DuckViews(db, schema)
    [] v = "checks" -> DuckChecks(schema, name)
    [] v = "columns" -> DuckColumns(db, schema, name)
    [] v = "indexes" -> DuckIndexes(db, schema, name)
    [] OTHER -> {}
-----------------------------------------------------------------------------
(* openGauss: one database per connection *)

DatabaseMatches(db) == db \in {"", Current}

\* The objects of a request: none in another database.
InDatabase(db, objects) == IF DatabaseMatches(db) THEN objects ELSE {}

DefaultSchema(schema) == IF schema = "" THEN "public" ELSE schema

ListTables(schema) == AppendOptionalFilter(Of("table"), schema)
ListViews(db, schema) == InDatabase(db, AppendOptionalFilter(Of("view"), schema))
ListSequences(db, schema) == InDatabase(db, AppendOptionalFilter(Of("sequence"), schema))
ListFunctions(db, schema) == InDatabase(db, AppendOptionalFilter(Of("function"), schema))
ListProcedures(db, schema) == ListFunctions(db, schema)
ListTypes(db, schema) ==
  InDatabase(db, AppendOptionalFilter(
    {o \in Of("type") : ~IsDuckdbCatalogSchema(o.schema)}, schema))

\* Empty kinds means every kind; materialized views, triggers, indexes and
\* procedures have no list here.
ListObjects(db, schema, kinds) ==
  LET Include(kind, objects) == IF kinds = {} \/ kind \in kinds THEN objects ELSE {} IN
  InDatabase(db,
    Include("table", ListTables(schema)) \cup Include("view", ListViews("", schema))
      \cup Include("sequence", ListSequences(db, schema))
      \cup Include("function", ListFunctions(db, schema))
      \cup Include("type", ListTypes(db, schema)))

\* Columns, keys, checks and definitions of a name default to schema public.
Named(db, schema, name, kinds) ==
  InDatabase(db, {o \in catalog : /\ o.kind \in kinds /\ o.name = name
                                  /\ o.schema = DefaultSchema(schema)})

ListColumns(db, schema, name) == Named(db, schema, name, {"table", "view"})
ViewDefinition(db, schema, name) == Named(db, schema, name, {"view", "matview"})
TableDefinition(db, schema, name) == Named(db, schema, name, {"table"})

OfTable(db, schema, name, kind) ==
  InDatabase(db, AppendOptionalFilter(
    {o \in Of(kind) : name = "" \/ o.of = name}, schema))

ListIndexes(db, schema, name) == OfTable(db, schema, name, "index")
ListTriggers(db, schema, name) == OfTable(db, schema, name, "trigger")

ListChecks(db, schema, name) ==
  InDatabase(db, {o \in Of("check") : o.of = name /\ o.schema = DefaultSchema(schema)})

\* One entry per row of the joins: every column of the key with every column it
\* refers to, over all keys of that name in the schema; a key to a table of
\* another schema is not found.
ForeignKeyRows(schema, name) ==
  {[key |-> k.name, from |-> k.from_cols[i], to_table |-> r.to_table, to |-> r.to_cols[j]] :
     <<k, r, i, j>> \in {q \in keys \X keys \X (1..2) \X (1..2) :
       /\ q[1].schema = DefaultSchema(schema) /\ q[1].table = name
       /\ q[2].name = q[1].name /\ q[2].to_schema = q[1].schema
       /\ q[3] \in DOMAIN q[1].from_cols /\ q[4] \in DOMAIN q[2].to_cols}}

ListForeignKeys(db, schema, name) == InDatabase(db, ForeignKeyRows(schema, name))

\* One statement per view that has a text and per table, in the order asked; a
\* table without definition leaves a remark.
DumpDdl(objects) ==
  LET Dump(o) ==
        CASE o.kind \in {"view", "matview"} /\ ViewDefinition(o.db, o.schema, o.name) # {} -> <<"create view">>
          [] o.kind = "table" -> IF TableDefinition(o.db, o.schema, o.name) # {}
                                 THEN <<"create table">> ELSE <<"remark">>
          [] OTHER -> <<>>
  IN IF objects = <<>> THEN <<>>
     ELSE IF Len(objects) = 1 THEN Dump(objects[1])
     ELSE Dump(objects[1]) \o Dump(objects[2])

\* Likewise; the last three are requests of their own.
OgObjectView(v, db, schema, name) ==
  CASE v = "tables" -> ListObjects(db, schema, {"table"})
    [] v = "views" -> ListObjects(db, schema, {"view"})
    [] v = "columns" -> ListColumns(db, schema, name)
    [] v = "indexes" -> ListIndexes(db, schema, name)
    [] v = "functions" -> ListFunctions(db, schema)
    [] v = "checks" -> ListChecks(db, schema, name)
    [] v = "triggers" -> ListTriggers(db, schema, name)
    [] v = "procedures" -> ListProcedures(db, schema)
    [] OTHER -> {}
-----------------------------------------------------------------------------
Init == catalog = {} /\ keys = {} /\ view = {}

\* Another session, or exec/run, creates and drops objects; one name of a
\* schema is one table, view or sequence.
CreateObject ==
  /\ \E o \in Universe \ catalog :
       /\ \A p \in catalog : ~(/\ p.db = o.db /\ p.schema = o.schema /\ p.name = o.name
                               /\ {p.kind, o.kind} \subseteq {"table", "view", "matview", "sequence"})
       /\ catalog' = catalog \cup {o}
  /\ UNCHANGED <<keys, view>>

DropObject ==
  /\ \E o \in catalog : catalog' = catalog \ {o}
  /\ UNCHANGED <<keys, view>>

\* A constraint name is used once per table.
AddKey ==
  /\ \E k \in Keys \ keys :
       /\ \A p \in keys : <<p.schema, p.table, p.name>> # <<k.schema, k.table, k.name>>
       /\ keys' = keys \cup {k}
  /\ UNCHANGED <<catalog, view>>

HandleObjectView ==
  /\ \E v \in {"tables", "views", "columns", "indexes", "functions", "checks",
               "triggers", "procedures"},
        db \in Databases, s \in Schemas, n \in Names :
       view' = IF Driver = "duckdb" THEN DuckObjectView(v, db, s, n) ELSE OgObjectView(v, db, s, n)
  /\ UNCHANGED <<catalog, keys>>

Next == CreateObject \/ DropObject \/ AddKey \/ HandleObjectView
Spec == Init /\ [][Next]_vars
-----------------------------------------------------------------------------
\* An answer holds objects of the universe, the DuckDB driver's catalog views
\* under the kind of a table; each was there when it was asked for.
TypeOK == /\ catalog \subseteq Universe /\ keys \subseteq Keys
          /\ view \subseteq Universe \cup As("table", {o \in Universe : IsDuckdbCatalogSchema(o.schema)})

Entry(o) == <<o.schema, o.kind, o.name>>
NoNameTwice(objects) == \A o, p \in objects : <<o.schema, o.name>> = <<p.schema, p.name>> => o = p

Home(o) == o.db = Current /\ ~o.temp

\* Browsing a DuckDB database by schema shows every table and view of the user
\* once, none of the engine's, and the folders by kind show the same as the
\* whole; the views of a catalog schema appear once.  With databases attached
\* the current one also shows theirs.
DuckTreeIsExact ==
  \A s \in Schemas \ {""} :
    LET all == DuckObjects(Current, s, {})
        home == {o \in catalog : Home(o) /\ o.schema = s}
    IN
    /\ (\A o \in catalog : Home(o)) => NoNameTwice(all)
    /\ IF IsDuckdbCatalogSchema(s)
       THEN {<<o.schema, "table", o.name>> : o \in {p \in home : p.kind = "view"}}
              \subseteq {Entry(o) : o \in all}
       ELSE /\ all = DuckObjects(Current, s, {"table"}) \cup DuckObjects(Current, s, {"view"})
            /\ DuckViews(Current, s) = {o \in all : o.kind = "view"}
            /\ {o \in all : o.db = Current} =
                 {o \in home : o.kind \in {"table", "view"} /\ ~o.internal}
    /\ \A db \in Databases :
         ~IsDefaultCatalogReference(db) => \A o \in DuckObjects(db, s, {}) : o.db = db

\* Whatever a DuckDB tree lists, schema/columns with the same database and
\* schema answers for that object, and for no other unless a temporary or an
\* attached table has its name.
DuckEntriesHaveColumns ==
  \A s \in Schemas \ {""}, db \in Databases :
    \A o \in DuckObjects(db, s, {}) :
      LET found == DuckColumns(db, s, o.name) IN
      /\ \E p \in found : p.name = o.name /\ p.db = o.db
      /\ \A p \in found : p.db = o.db => Entry(p)[1] = s
      /\ (\A p \in catalog : Home(p)) => Cardinality(found) = 1

\* An openGauss tree with a schema chosen shows each object once, what a kind
\* shows is part of the whole and nothing but that kind, and everything that
\* is listed as table or view has its columns and its definition under the
\* same schema; another database shows nothing.
OgTreeIsExact ==
  \A s \in Schemas \ {""} :
    LET all == ListObjects(Current, s, {}) IN
    /\ \A o \in catalog :
         (o.schema = s /\ o.kind \in {"table", "view", "sequence", "function", "type"}
            /\ ~IsDuckdbCatalogSchema(s)) => o \in all
    /\ \A k \in Kinds : ListObjects(Current, s, {k}) = {o \in all : o.kind = k}
    /\ \A o \in all :
         /\ o.kind \in {"table", "view"} => ListColumns(Current, s, o.name) = {o}
         /\ o.kind = "table" => TableDefinition(Current, s, o.name) = {o}
         /\ o.kind = "view" => ViewDefinition(Current, s, o.name) = {o}
         /\ o.kind \in {"table", "view"} =>
              DumpDdl(<<o>>) = IF o.kind = "view" THEN <<"create view">> ELSE <<"create table">>
    /\ \A db \in Databases \ {"", Current} : ListObjects(db, s, {}) = {}

\* The rows a key stands for.
KeyRows(k) ==
  {[key |-> k.name, from |-> k.from_cols[i], to_table |-> k.to_table, to |-> k.to_cols[i]] :
     i \in DOMAIN k.from_cols}

\* A foreign key over one column, to a table of the same schema and with a name
\* that no other key of the schema has, is listed exactly; no column pair of
\* any key within its schema is missing.
ForeignKeysAreListed ==
  \A k \in keys :
    LET rows == ListForeignKeys("", k.schema, k.table) IN
    k.to_schema = k.schema =>
      /\ KeyRows(k) \subseteq rows
      /\ (Len(k.from_cols) = 1 /\ \A p \in keys \ {k} : p.schema = k.schema => p.name # k.name)
           => {r \in rows : r.key = k.name} = KeyRows(k)

\* The object tree of either driver shows what is there, once, and what it shows
\* can be opened.
TreeIsExact ==
  IF Driver = "duckdb" THEN TypeOK /\ DuckTreeIsExact /\ DuckEntriesHaveColumns
  ELSE OgTreeIsExact /\ ForeignKeysAreListed
=============================================================================
