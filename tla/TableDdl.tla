------------------------------- MODULE TableDdl -------------------------------
(***************************************************************************)
(* ddl/* of the DuckDB and openGauss drivers and of the runtime of the Go  *)
(* drivers: the statements they build for a table that is created or       *)
(* altered, the statements that would undo the change, and DROP, run one   *)
(* after the other by the host.  A statement is a record; its text is left *)
(* out, its quoting too.  A table is a function from column names to type  *)
(* and comment, with a comment and a key of its own.  What the engine      *)
(* makes of a statement is external.                                       *)
(***************************************************************************)
EXTENDS Naturals, FiniteSets, Sequences, SequencesExt

CONSTANTS Driver,            \* "duckdb", "opengauss" or "go"
          SupportsComments,  \* of a Go driver; the two others always write comments
          FromCols,    \* columns a table may have to begin with
          ToCols,      \* columns a request may want
          Comments,    \* comments, "" among them
          RenameLists, \* the column_renames a request may carry
          Objects,     \* objects ddl/build_drop may meet
          Database     \* the database of the connection

\* What the constants are.
DdlAssumption ==
  /\ Driver \in {"duckdb", "opengauss", "go"} /\ SupportsComments \in BOOLEAN /\ (Driver # "go" => SupportsComments)
  /\ "" \in Comments /\ FromCols \subseteq ToCols

VARIABLES table,      \* external: the table, or NoTable
          phase,      \* idle, running, done, undone, failed
          request,    \* the request being carried out
          statements, \* statements still to run
          rollback,   \* rollback_statements of the answer
          objects,    \* external: other objects
          dropped     \* what the last ddl/build_drop removed, with its request

vars == <<table, phase, request, statements, rollback, objects, dropped>>

NoTable == [cols |-> <<>>, comment |-> "", key |-> {}, fks |-> {}, indexes |-> {}]
None == [op |-> "none"]
-----------------------------------------------------------------------------
(* Statements, and what the engine does with them *)

Stmt(op, col, to, text) == [op |-> op, col |-> col, to |-> to, text |-> text]
AddColumn(c, type) == Stmt("add", c, type, "")
DropColumn(c) == Stmt("drop", c, "", "")
RenameColumnSql(rename) == Stmt("rename", rename[1], rename[2], "")
CommentOnColumn(c, text) == Stmt("comment", c, "", text)
CommentOnTable(text) == Stmt("table comment", "", "", text)
CreateTable(cols, inline, key, fks) == [op |-> "create", cols |-> cols, inline |-> inline, key |-> key, fks |-> fks]
IndexSql(cols) == [op |-> "index", cols |-> cols]

Without(cols, c) == [d \in DOMAIN cols \ {c} |-> cols[d]]
With(cols, c, col) == [d \in DOMAIN cols \cup {c} |-> IF d = c THEN col ELSE cols[d]]

Accepts(t, s) ==
  CASE s.op = "create" -> t = NoTable /\ s.cols # {} /\ Cardinality(s.inline) < 2
                            /\ (s.inline = {} \/ s.key = {})
    [] s.op = "index" -> s.cols # {} /\ s.cols \subseteq DOMAIN t.cols
    [] s.op = "add" -> s.col \notin DOMAIN t.cols
    [] s.op = "drop" -> s.col \in DOMAIN t.cols /\ DOMAIN t.cols # {s.col}
    [] s.op = "rename" -> s.col \in DOMAIN t.cols /\ s.to \notin DOMAIN t.cols
    [] s.op = "comment" -> s.col \in DOMAIN t.cols
    [] s.op = "table comment" -> t # NoTable

Exec(t, s) ==
  CASE s.op = "create" -> [cols |-> [c \in s.cols |-> [type |-> "new", comment |-> ""]],
                           comment |-> "", key |-> s.inline \cup s.key, fks |-> s.fks, indexes |-> {}]
    [] s.op = "index" -> [t EXCEPT !.indexes = @ \cup {s.cols}]
    [] s.op = "add" -> [t EXCEPT !.cols = With(@, s.col, [type |-> s.to, comment |-> ""])]
    [] s.op = "drop" -> [t EXCEPT !.cols = Without(@, s.col)]
    [] s.op = "rename" -> [t EXCEPT !.cols = With(Without(@, s.col), s.to, @[s.col])]
    [] s.op = "comment" -> [t EXCEPT !.cols[s.col].comment = s.text]
    [] s.op = "table comment" -> [t EXCEPT !.comment = s.text]
-----------------------------------------------------------------------------
(* The builders *)

\* The statements for each of a set of columns, one column after the other.
ForEach(cols, F(_)) == FlattenSeq([i \in 1..Cardinality(cols) |-> F(SetToSeq(cols)[i])])

Some(test, s) == IF test THEN <<s>> ELSE <<>>

\* The comments of a new table: only those that say something.
AppendCommentStatements(spec) ==
  Some(spec.comment # "", CommentOnTable(spec.comment))
    \o ForEach({c \in DOMAIN spec.cols : spec.cols[c] # ""},
               LAMBDA c : <<CommentOnColumn(c, spec.cols[c])>>)

\* DuckDB marks each primary column where it is defined, and has no foreign keys.
DuckBuildCreateTable(spec, options) ==
  <<CreateTable(DOMAIN spec.cols, spec.is_primary, IF spec.is_primary = {} THEN spec.primary_key ELSE {}, {})>>
    \o (IF "indexes" \in options THEN ForEach(spec.indexes, LAMBDA x : <<IndexSql(x)>>) ELSE <<>>)
    \o (IF "comments" \in options THEN AppendCommentStatements(spec) ELSE <<>>)

OgCreate(spec, key, options) ==
  <<CreateTable(DOMAIN spec.cols, {}, key, IF "foreign_keys" \in options THEN spec.fks ELSE {})>>
    \o (IF "indexes" \in options THEN ForEach(spec.indexes \ {{}}, LAMBDA x : <<IndexSql(x)>>) ELSE <<>>)
    \o (IF "comments" \in options THEN AppendCommentStatements(spec) ELSE <<>>)

\* openGauss writes one key: primary_key, or else the columns marked; an index
\* without columns is passed over.
OgBuildCreateTable(spec, options) ==
  OgCreate(spec, IF spec.primary_key = {} THEN spec.is_primary ELSE spec.primary_key, options)

\* The Go runtime makes the same table, its comments before its indexes, and none
\* for a driver whose dialect has no COMMENT ON.
GoBuildCreateTable(spec, options) ==
  OgCreate(spec, IF spec.primary_key = {} THEN spec.is_primary ELSE spec.primary_key, options \ {"indexes", "comments"})
    \o (IF SupportsComments /\ "comments" \in options THEN AppendCommentStatements(spec) ELSE <<>>)
    \o (IF "indexes" \in options THEN ForEach(spec.indexes \ {{}}, LAMBDA x : <<IndexSql(x)>>) ELSE <<>>)

BuildCreateTable(spec, options) ==
  CASE Driver = "duckdb" -> DuckBuildCreateTable(spec, options)
    [] Driver = "opengauss" -> OgBuildCreateTable(spec, options)
    [] Driver = "go" -> GoBuildCreateTable(spec, options)

Kept(from, to) == {c \in DOMAIN from.cols \cap DOMAIN to.cols : from.cols[c].comment # to.cols[c]}

\* Differences of comments, for names in both: a renamed column has none.
DiffComments(from, to) ==
  Some(from.comment # to.comment, CommentOnTable(to.comment))
    \o ForEach(Kept(from, to), LAMBDA c : <<CommentOnColumn(c, to.cols[c])>>)

UndoComments(from, to) ==
  Reverse(Some(from.comment # to.comment, CommentOnTable(from.comment))
            \o ForEach(Kept(from, to), LAMBDA c : <<CommentOnColumn(c, from.cols[c].comment)>>))

OldNames(renames) == {renames[i][1] : i \in DOMAIN renames}
NewNames(renames) == {renames[i][2] : i \in DOMAIN renames}

Added(from, to, renames) == DOMAIN to.cols \ (NewNames(renames) \cup DOMAIN from.cols)

AddStatements(to, cols) ==
  ForEach(cols, LAMBDA c : <<AddColumn(c, "new")>> \o Some(to.cols[c] # "", CommentOnColumn(c, to.cols[c])))

DuckBuildAlterTable(from, to, renames, options) ==
  LET real == SelectSeq(renames, LAMBDA r : r[1] # r[2] /\ "" \notin {r[1], r[2]})
      gone == DOMAIN from.cols \ (OldNames(renames) \cup DOMAIN to.cols)
  IN [statements |->
        [i \in DOMAIN real |-> RenameColumnSql(real[i])]
          \o AddStatements(to, Added(from, to, renames))
          \o (IF "destructive" \in options THEN ForEach(gone, LAMBDA c : <<DropColumn(c)>>) ELSE <<>>)
          \o DiffComments(from, to),
      rollback |-> IF "with_rollback" \in options THEN UndoComments(from, to) ELSE <<>>]

\* Mutant: the statements that undo are in the order of the ones they undo.
OgBuildAlterTableForward(from, to, renames, options) ==
  LET added == Added(from, to, renames) IN
  [statements |-> [i \in DOMAIN renames |-> RenameColumnSql(renames[i])]
       \o AddStatements(to, added)
       \o (IF "destructive" \in options
           THEN ForEach(DOMAIN from.cols \ DOMAIN to.cols, LAMBDA c : <<DropColumn(c)>>) ELSE <<>>)
       \o DiffComments(from, to),
   rollback |-> IF "with_rollback" \notin options THEN <<>>
                ELSE [i \in DOMAIN renames |-> RenameColumnSql(<<renames[i][2], renames[i][1]>>)]
                       \o ForEach(added, LAMBDA c : <<DropColumn(c)>>)]

\* Renamed columns are not kept from the drops: with allow_destructive the old
\* name is dropped after it was renamed away.
OgBuildAlterTable(from, to, renames, options) ==
  LET real == SelectSeq(renames, LAMBDA r : "" \notin {r[1], r[2]})
      added == Added(from, to, renames)
      gone == DOMAIN from.cols \ DOMAIN to.cols
  IN [statements |->
        [i \in DOMAIN real |-> RenameColumnSql(real[i])]
          \o AddStatements(to, added)
          \o (IF "destructive" \in options THEN ForEach(gone, LAMBDA c : <<DropColumn(c)>>) ELSE <<>>)
          \o DiffComments(from, to),
      rollback |->
        IF "with_rollback" \notin options THEN <<>>
        ELSE UndoComments(from, to)
               \o Reverse(ForEach(added, LAMBDA c : <<DropColumn(c)>>))
               \o Reverse([i \in DOMAIN real |-> RenameColumnSql(<<real[i][2], real[i][1]>>)])]

GoAlter(from, to, renames, options, added, undo) ==
  LET real == SelectSeq(renames, LAMBDA r : "" \notin {r[1], r[2]}) IN
  [statements |->
     [i \in DOMAIN real |-> RenameColumnSql(real[i])]
       \o ForEach(added, LAMBDA c : <<AddColumn(c, "new")>>)
       \o (IF "destructive" \in options
           THEN ForEach(DOMAIN from.cols \ DOMAIN to.cols, LAMBDA c : <<DropColumn(c)>>) ELSE <<>>)
       \o (IF SupportsComments THEN DiffComments(from, to) ELSE <<>>),
   rollback |->
     IF "with_rollback" \notin options THEN <<>>
     ELSE (IF SupportsComments THEN UndoComments(from, to) ELSE <<>>)
            \o Reverse(ForEach(undo, LAMBDA c : <<DropColumn(c)>>))
            \o Reverse([i \in DOMAIN real |-> RenameColumnSql(<<real[i][2], real[i][1]>>)])]

\* The Go runtime adds every column whose name is new, a renamed one too, and
\* gives it no comment.
GoBuildAlterTable(from, to, renames, options) ==
  LET added == DOMAIN to.cols \ DOMAIN from.cols IN GoAlter(from, to, renames, options, added, added)

BuildAlterTable(from, to, renames, options) ==
  CASE Driver = "duckdb" -> DuckBuildAlterTable(from, to, renames, options)
    [] Driver = "opengauss" -> OgBuildAlterTable(from, to, renames, options)
    [] Driver = "go" -> GoBuildAlterTable(from, to, renames, options)

\* The kind of object a DROP names.  DuckDB knows two.
DuckBuildDrop(kind) == IF kind \in {"view", "matview"} THEN "view" ELSE "table"

OgBuildDrop(kind) == kind

\* The Go runtime refuses the kinds it does not know.
GoBuildDrop(kind) == IF kind \in {"table", "view", "matview", "index"} THEN kind ELSE "refused"

BuildDrop(kind) ==
  CASE Driver = "duckdb" -> DuckBuildDrop(kind)
    [] Driver = "opengauss" -> OgBuildDrop(kind)
    [] Driver = "go" -> GoBuildDrop(kind)

\* Blank parts are left out.  The others write the database first, so that with
\* a database and no schema the database stands where the schema should.
QualifiedName(db, schema, name) ==
  SelectSeq(IF Driver = "duckdb" THEN <<schema, name>> ELSE <<db, schema, name>>, LAMBDA part : part # "")

\* External: one part is looked up in the default schema, two are schema and name.
Resolve(parts) ==
  CASE Len(parts) = 1 -> <<"default", parts[1]>>
    [] Len(parts) = 2 -> <<parts[1], parts[2]>>
    [] OTHER -> <<parts[2], parts[3]>>

\* The first candidate that is not blank names the schema, table or database.
RequiredIdentifier(candidates) == LET given == SelectSeq(candidates, LAMBDA c : c # "") IN
                                  IF given = <<>> THEN "" ELSE given[1]

BuildRenameTable(name, old_name, new_name, to) ==
  <<RequiredIdentifier(<<name, old_name>>), RequiredIdentifier(<<new_name, to>>)>>
-----------------------------------------------------------------------------
Init == /\ table = NoTable /\ phase = "idle" /\ request = None /\ statements = <<>>
        /\ rollback = <<>> /\ objects = Objects /\ dropped = None

TableOf(cols) == [cols |-> [c \in DOMAIN cols |-> [type |-> "old", comment |-> cols[c]]],
                  comment |-> "", key |-> {}, fks |-> {}, indexes |-> {}]

HandleDdlBuildAlterTable ==
  /\ phase = "idle" /\ dropped = None
  /\ \E F \in SUBSET FromCols \ {{}}, T \in SUBSET ToCols \ {{}} :
     \E f \in [F -> Comments], t \in [T -> Comments], tc \in Comments, renames \in RenameLists,
        options \in SUBSET {"destructive", "with_rollback"} :
       LET from == TableOf(f)
           to == [cols |-> t, comment |-> tc]
           built == BuildAlterTable(from, to, renames, options)
       IN /\ table' = from /\ statements' = built.statements /\ rollback' = built.rollback
          /\ request' = [op |-> "alter", from |-> from, to |-> to, renames |-> renames, options |-> options]
  /\ phase' = "running"
  /\ UNCHANGED <<objects, dropped>>

HandleDdlBuildCreateTable ==
  /\ phase = "idle" /\ dropped = None
  /\ \E T \in SUBSET ToCols \ {{}}, options \in SUBSET {"comments", "indexes", "foreign_keys"} :
     \E t \in [T -> Comments], pk \in SUBSET T, marked \in SUBSET T, indexes \in {{}, {T}, {T, {}}} :
       LET spec == [cols |-> t, comment |-> CHOOSE c \in Comments : c # "", primary_key |-> pk,
                    is_primary |-> marked, indexes |-> indexes, fks |-> {"fk"}] IN
       /\ statements' = BuildCreateTable(spec, options)
       /\ request' = [op |-> "create", to |-> spec, options |-> options]
  /\ phase' = "running"
  /\ UNCHANGED <<table, rollback, objects, dropped>>

\* The host runs the statements; the first that fails ends it.
RunStatement ==
  /\ phase = "running" /\ statements # <<>>
  /\ IF Accepts(table, Head(statements))
     THEN table' = Exec(table, Head(statements)) /\ statements' = Tail(statements) /\ phase' = phase
     ELSE phase' = "failed" /\ UNCHANGED <<table, statements>>
  /\ UNCHANGED <<request, rollback, objects, dropped>>

\* All done: and then perhaps undone.
Finish ==
  /\ phase = "running" /\ statements = <<>>
  /\ IF "undoing" \in DOMAIN request THEN phase' = "undone" ELSE phase' = "done"
  /\ UNCHANGED <<table, request, statements, rollback, objects, dropped>>

RunRollback ==
  /\ phase = "done" /\ request.op = "alter"
  /\ phase' = "running" /\ statements' = rollback
  /\ request' = [undoing |-> TRUE] @@ request
  /\ UNCHANGED <<table, rollback, objects, dropped>>

\* ddl/build_drop, run at once.
HandleDdlBuildDrop ==
  /\ phase = "idle" /\ dropped = None
  /\ \E kind \in {"table", "view", "matview", "index", "sequence"}, db \in {"", Database},
        schema \in {"", "s"}, name \in {"n", "m"} :
       LET place == Resolve(QualifiedName(db, schema, name))
           named == BuildDrop(kind)
           hit == {o \in objects : <<o.schema, o.name>> = place /\ o.kind = named}
       IN /\ objects' = objects \ hit
          /\ dropped' = [kind |-> kind, db |-> db, schema |-> schema, name |-> name, hit |-> hit]
  /\ UNCHANGED <<table, phase, request, statements, rollback>>

\* ddl/build with rename_table (DuckDB): the old name may come as name or
\* old_name, the new one as new_name or to.
HandleDdlBuildRename ==
  /\ Driver = "duckdb" /\ phase = "idle" /\ dropped = None
  /\ \E schema \in {"", "s"}, name \in {"", "n"}, old_name \in {"", "m"}, new_name \in {"", "x"}, to \in {"", "y"} :
       LET names == BuildRenameTable(name, old_name, new_name, to)
           place == Resolve(QualifiedName("", schema, names[1]))
           hit == {o \in objects : <<o.schema, o.name>> = place /\ o.kind = "table"}
       IN /\ "" \notin {names[1], names[2]}
          /\ objects' = (objects \ hit) \cup {[o EXCEPT !.name = names[2]] : o \in hit}
          /\ dropped' = [kind |-> "rename", schema |-> schema, given |-> <<name, old_name, new_name, to>>, hit |-> hit]
  /\ UNCHANGED <<table, phase, request, statements, rollback>>

\* The next request.
Reset ==
  /\ phase \in {"done", "undone", "failed"} \/ dropped # None
  /\ table' = NoTable /\ phase' = "idle" /\ request' = None /\ statements' = <<>>
  /\ rollback' = <<>> /\ objects' = Objects /\ dropped' = None

Next == HandleDdlBuildAlterTable \/ HandleDdlBuildCreateTable \/ RunStatement \/ Finish
          \/ RunRollback \/ HandleDdlBuildDrop \/ HandleDdlBuildRename \/ Reset
Spec == Init /\ [][Next]_vars
-----------------------------------------------------------------------------
\* Statements are left only while they run, a failure leaves the one that failed.
TypeOK == /\ phase \in {"idle", "running", "done", "undone", "failed"}
          /\ statements # <<>> => phase \in {"running", "failed"}
          /\ DOMAIN table.cols \subseteq ToCols

\* What the drivers can do: each rename takes a column of the table to a name
\* that is free, and no wanted column has the name given up.  The new name is one
\* of the wanted table; with the Go runtime it must not be, for it would be added.
RenamesAreClear(r) ==
  LET old == OldNames(r.renames)  new == NewNames(r.renames) IN
  /\ old \subseteq DOMAIN r.from.cols /\ new \cap DOMAIN r.from.cols = {}
  /\ IF Driver = "go" THEN new \cap DOMAIN r.to.cols = {} ELSE new \subseteq DOMAIN r.to.cols
  /\ old \cap DOMAIN r.to.cols = {} /\ "" \notin old \cup new
  /\ Cardinality(old) = Len(r.renames) /\ Cardinality(new) = Len(r.renames)

\* Only DuckDB can rename and drop in one request.
Supported(r) ==
  RenamesAreClear(r) /\ (Driver = "duckdb" \/ r.renames = <<>> \/ "destructive" \notin r.options)

\* The columns an alteration drops.
Gone(r) == IF "destructive" \in r.options THEN DOMAIN r.from.cols \ (OldNames(r.renames) \cup DOMAIN r.to.cols) ELSE {}

\* Every statement of a supported alteration is accepted, and at the end the
\* table has the columns that were wanted (and, unless dropping was allowed,
\* those it had), the comments that were wanted but for renamed columns (and, with
\* the Go runtime, new ones), and no column that was kept or renamed lost its
\* data.  A driver without comments leaves them as they were.
AlterReachesSpec ==
  (request.op = "alter" /\ "undoing" \notin DOMAIN request /\ Supported(request)) =>
    /\ phase # "failed"
    /\ phase = "done" =>
         LET from == request.from.cols  to == request.to.cols
             old == OldNames(request.renames)  new == NewNames(request.renames)
         IN /\ DOMAIN table.cols = DOMAIN to \cup new \cup (DOMAIN from \ (old \cup Gone(request)))
            /\ table.comment = IF SupportsComments THEN request.to.comment ELSE request.from.comment
            /\ \A c \in DOMAIN to \ new :
                 IF SupportsComments THEN (Driver = "go" => c \in DOMAIN from) => table.cols[c].comment = to[c]
                 ELSE table.cols[c].comment = IF c \in DOMAIN from THEN from[c].comment ELSE ""
            /\ \A c \in DOMAIN table.cols : table.cols[c].type = IF c \in DOMAIN from \cup new THEN "old" ELSE "new"

\* rollback_statements give the table back as it was, but for the columns that
\* were dropped: with openGauss and the Go runtime always (when one of the old
\* columns is left), with DuckDB when only comments changed.
RollbackRestores ==
  (/\ request.op = "alter" /\ "undoing" \in DOMAIN request
   /\ Supported(request) /\ "with_rollback" \in request.options
   /\ Driver = "duckdb" => DOMAIN request.from.cols = DOMAIN request.to.cols
   /\ DOMAIN request.from.cols # Gone(request))
  => /\ phase # "failed"
     /\ phase = "undone" =>
          table = [request.from EXCEPT !.cols = [c \in DOMAIN @ \ Gone(request) |-> @[c]]]

\* A table is created with its columns, indexes and key, whether the key is given as a
\* list or by marking columns, and with the comments that were asked for where the
\* dialect has them.  DuckDB takes one marked column and no index without columns.
CreateMakesSpec ==
  LET spec == request.to
      key == spec.primary_key \cup spec.is_primary
      clear == /\ spec.primary_key = {} \/ spec.is_primary \subseteq spec.primary_key
               /\ Driver = "duckdb" => Cardinality(spec.is_primary) < 2
                                       /\ (spec.is_primary = {} \/ spec.primary_key \subseteq spec.is_primary)
                                       /\ {} \notin spec.indexes
  IN (request.op = "create" /\ clear) =>
       /\ phase # "failed"
       /\ phase = "done" =>
            /\ DOMAIN table.cols = DOMAIN spec.cols /\ table.key = key
            /\ table.indexes = IF "indexes" \in request.options THEN spec.indexes \ {{}} ELSE {}
            /\ table.fks = IF Driver # "duckdb" /\ "foreign_keys" \in request.options THEN spec.fks ELSE {}
            /\ LET with == SupportsComments /\ "comments" \in request.options IN
               /\ table.comment = IF with THEN spec.comment ELSE ""
               /\ \A c \in DOMAIN spec.cols : table.cols[c].comment = IF with THEN spec.cols[c] ELSE ""

\* A drop removes the object of the kind, schema and name that were asked for
\* or nothing: for every kind (but sequences with the Go runtime) when the schema
\* is given with the database, for tables and views with DuckDB, whose other kinds become DROP
\* TABLE.
DropIsExact ==
  (/\ dropped # None /\ dropped.kind # "rename"
   /\ Driver = "duckdb" => dropped.kind \in {"table", "view"}
   /\ Driver = "go" => dropped.kind # "sequence"
   /\ Driver # "duckdb" => (dropped.db = "" \/ dropped.schema # ""))
  => dropped.hit = {o \in Objects : /\ o.kind = dropped.kind /\ o.name = dropped.name
                                    /\ o.schema = IF dropped.schema = "" THEN "default" ELSE dropped.schema}

\* A rename moves one table of the schema that was given: the one called name,
\* if there is a name, whatever old_name says, and nothing else changes.
RenameIsExact ==
  (dropped # None /\ dropped.kind = "rename") =>
    LET name == IF dropped.given[1] # "" THEN dropped.given[1] ELSE dropped.given[2]
        new == IF dropped.given[3] # "" THEN dropped.given[3] ELSE dropped.given[4]
    IN /\ \A o \in dropped.hit : o.name = name /\ o.kind = "table"
       /\ objects \ Objects = {[o EXCEPT !.name = new] : o \in dropped.hit}
       /\ Objects \ objects = dropped.hit

\* The statements that are built do what the request says, and the rollback of an
\* alteration undoes it, with each of the three builders.
DdlIsExact == AlterReachesSpec /\ RollbackRestores /\ CreateMakesSpec /\ DropIsExact /\ RenameIsExact
=============================================================================
