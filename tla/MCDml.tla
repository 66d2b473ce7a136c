-------------------------------- MODULE MCDml --------------------------------
(***************************************************************************)
(* Scripts of statements on a database made by another SQLite:             *)
(*   CREATE TABLE t (id INTEGER PRIMARY KEY AUTOINCREMENT,                 *)
(*                   a INTEGER NOT NULL DEFAULT 1,                         *)
(*                   b INTEGER UNIQUE CHECK (b < 9));                      *)
(*   CREATE TABLE s (x INTEGER, y INTEGER);                                *)
(*   CREATE INDEX t_a ON t (a);                                            *)
(* with rows in t and s; row 5 of t was deleted.                           *)
(***************************************************************************)
EXTENDS StatementReference, Shell

CONSTANT Answers(_)     \* SqlAllows, below

C(c) == Col("", c)
L(n) == Lit(VInt(n))
Null == Lit(VNull)

ColumnDef(name, constraints) == [name |-> name, type |-> "INTEGER", collation |-> "BINARY", constraints |-> constraints]
TableDef(name, columns) == [name |-> name, columns |-> columns, constraints |-> <<>>, without_rowid |-> FALSE]
IndexDef(name, table, unique, columns) ==
    [name |-> name, table |-> table, unique |-> unique,
     columns |-> [k \in DOMAIN columns |-> IndexedColumn(columns[k], "BINARY")]]
DefT == TableDef("t",
          <<ColumnDef("id", <<[k |-> "primarykey", autoincrement |-> TRUE, desc |-> FALSE]>>),
            ColumnDef("a", <<[k |-> "notnull"], [k |-> "default", e |-> L(1)]>>),
            ColumnDef("b", <<[k |-> "unique"], [k |-> "check", e |-> Bin("<", C("b"), L(9))]>>)>>)
DefS == TableDef("s", <<ColumnDef("x", <<>>), ColumnDef("y", <<>>)>>)
DefN == TableDef("n", <<ColumnDef("x", <<[k |-> "default", e |-> L(3)]>>), ColumnDef("y", <<>>)>>)
IndexA == IndexDef("t_a", "t", FALSE, <<"a">>)
IndexAB == IndexDef("t_ab", "t", FALSE, <<"a", "b">>)

RowT(id, a, b) == <<id, <<VNull, VInt(a), VInt(b)>>>>
RowsT == <<RowT(1, 1, 5), RowT(2, 2, 6), RowT(4, 1, 8)>>
RowsS == <<<<1, <<VInt(1), VInt(7)>>>>, <<2, <<VInt(2), VInt(5)>>>>>>
KeysOf(rows, cols) ==
    SortSeq([k \in DOMAIN rows |-> [j \in DOMAIN cols |-> rows[k][2][cols[j]]] \o <<VInt(rows[k][1])>>],
            LAMBDA x, y : compare_keys(x, y) < 0)
StoredIndex(ci) == [unique |-> ci.unique, columns |-> ci.columns]
MCDatabase ==
    [table |-> 2 :> RowsT @@ 4 :> <<<<1, <<VText("t"), VInt(5)>>>>>> @@ 5 :> RowsS,
     index |-> 3 :> KeysOf(RowsT, <<3>>) @@ 6 :> KeysOf(RowsT, <<2>>),
     master |-> <<<<1, MasterEntry("table", "t", "t", 2, DefT)>>,
                  <<2, [MasterEntry("index", "sqlite_autoindex_t_1", "t", 3, <<>>) EXCEPT !.ordinal = 1]>>,
                  <<3, MasterEntry("table", "sqlite_sequence", "sqlite_sequence", 4,
                                   PlainTable("sqlite_sequence", <<"name", "seq">>))>>,
                  <<4, MasterEntry("table", "s", "s", 5, DefS)>>,
                  <<5, MasterEntry("index", "t_a", "t", 6, StoredIndex(IndexA))>>>>,
     cookie |-> 3]
MCMaxStatements == [exec |-> 2, repl |-> 3]
MCDatabases == {MCDatabase}
MCcatalog == "s" :> table_schema(MasterEntry("table", "s", "s", 5, DefS))

-----------------------------------------------------------------------------
(* The statements. *)

Values(table, columns, action, rows) ==
    [k |-> "insert", table |-> table, columns |-> columns, action |-> action, source |-> [k |-> "values", rows |-> rows]]
FromS == [distinct |-> FALSE, columns |-> <<StarColumn>>, from |-> From(TableRef("s", "")), where |-> <<>>,
          group_by |-> <<>>, having |-> <<>>, order_by |-> <<>>, limit |-> <<>>, compound |-> <<>>]
SelectS(order) == [FromS EXCEPT !.order_by = order]
Inserts ==
    {Values("t", <<>>, "abort", <<<<Null, L(3), L(7)>>>>), Values("t", <<"b">>, "abort", <<<<L(7)>>, <<L(3)>>>>),
     Values("s", <<>>, "abort", <<<<Lit(VText(<<51>>)), L(4)>>>>), Values("n", <<"y">>, "abort", <<<<L(2)>>>>),
     [k |-> "insert", table |-> "n", columns |-> <<>>, action |-> "abort", source |-> [k |-> "defaults"]]}
    \union {Values("t", <<>>, action, rows) :
              action \in {"abort", "ignore", "replace"},
              rows \in {<<<<L(9), L(3), L(2)>>, <<L(1), L(2), L(3)>>>>,       \* a rowid that is there
                        <<<<Null, L(2), L(5)>>, <<Null, L(3), L(2)>>>>,       \* a key that is there
                        <<<<Null, L(2), L(1)>>, <<Null, Null, L(4)>>>>,       \* NULL where there must be none
                        <<<<Null, L(2), L(9)>>, <<Null, L(3), L(0)>>>>}}      \* CHECK fails
    \union {[k |-> "insert", table |-> "t", columns |-> <<"a", "b">>, action |-> action,
             source |-> [k |-> "select", select |-> SelectS(order)]] :
              action \in {"ignore", "replace"}, order \in {<<>>}}
    \union {[k |-> "insert", table |-> "t", columns |-> <<"a", "b">>, action |-> "abort",
             source |-> [k |-> "select", select |-> SelectS(<<OrderTerm(C("y"), FALSE, "")>>)]]}
Set(col, e) == [columns |-> <<col>>, value |-> e]
Update(sets, where, action) == [k |-> "update", table |-> "t", set |-> sets, where |-> where, action |-> action]
NullForSix == Case(<<>>, <<<<Bin("=", C("b"), L(6)), Null>>>>, <<Bin("+", C("a"), L(1))>>)
Updates ==
    {Update(<<Set("a", Bin("+", C("a"), L(1)))>>, where, "abort") :       \* scan, index it changes, index it does not
        where \in {<<>>, <<Bin(">=", C("a"), L(1))>>, <<Bin(">", C("b"), L(5))>>}}
    \union {Update(<<Set("a", NullForSix)>>, <<>>, action) : action \in {"abort", "ignore"}}
    \union {Update(<<Set("id", L(3)), Set("a", C("id"))>>, <<Bin("=", C("id"), L(4))>>, "abort"),
            Update(<<Set("b", Bin("-", C("b"), L(10)))>>, <<Bin(">", C("b"), L(5))>>, "abort"),
            Update(<<Set("b", L(9))>>, <<Bin("=", C("id"), L(2))>>, "abort")}
Deletes ==
    {[k |-> "delete", table |-> "t", where |-> where] :
        where \in {<<>>, <<Bin("=", C("id"), L(4))>>, <<Bin(">", C("b"), L(5))>>, <<Bin("=", C("a"), L(1))>>}}
Definitions ==
    {[k |-> "create table", create |-> DefN], [k |-> "create index", create |-> IndexA],
     [k |-> "create index", create |-> IndexAB],
     [k |-> "create view", create |-> [name |-> "v", columns |-> <<>>, query |-> FromS, ctes |-> <<>>]]}
    \union {[k |-> "drop table", name |-> name] : name \in {"t", "n"}}
    \union {[k |-> "drop index", name |-> name] : name \in {"t_a", "t_ab"}}
Analyses == {[k |-> "analyze", target |-> target] : target \in {"", "t_a"}}
Transactions == {[k |-> k] : k \in {"begin", "commit", "rollback"}}

\* CREATE is given new names only.  A script for exec does not roll back,
\* which would leave it with a catalog that was never true.
MCGiven(f, d) ==
    {stmt \in Inserts \union Updates \union Deletes \union Definitions \union Analyses \union Transactions :
        /\ stmt.k \in {"create table", "create index", "create view"} => find_master(d, stmt.create.name) = 0
        /\ f = "exec" => stmt.k # "rollback"}

-----------------------------------------------------------------------------
(* Properties. *)

Ran == ran[1]
Is1(kind) == ran # <<>> /\ Ran.stmt.k = kind
Failed == Ran.error # "done"
SchemaNamed(name) == Ran.cat.schemas[find_schema(Ran.cat.schemas, name)]
Target == SchemaNamed(Ran.stmt.table)
OnKnownTable(kind) == Is1(kind) /\ find_schema(Ran.cat.schemas, Ran.stmt.table) # 0
AfterContent == Content(Ran.after.table[Target.root])

\* Whether the statement that r records did to its table what SQL says.
SqlAllows(r) ==
    LET target == r.cat.schemas[find_schema(r.cat.schemas, r.stmt.table)]
        content == Content(r.after.table[target.root])
        failed == r.error # "done"
        inserted(want) == content = want.rows /\ failed = want.failed
    IN  CASE r.stmt.k = "insert" -> inserted(RefInsert(r.before, target, r.stmt))
          [] r.stmt.k = "update" -> RefUpdateAllows(r.before, target, r.stmt, content, failed)
          [] r.stmt.k = "delete" -> ~failed /\ content = RefDelete(r.before, target, r.stmt)


\* index_maintenance.rs, populate_index_from_table: at all times, after a
\* statement that failed too, a table has each rowid once and an index has
\* exactly the keys of its table's rows, in order.
IndexesMatchTables ==
    \A d \in {db, saved} :
        LET schemas == read_schema_and_views(d).schemas
            rising(rows) == \A k \in 2 .. Len(rows) : rows[k - 1][1] < rows[k][1]
        IN  \A t \in DOMAIN schemas :
            /\ rising(d.table[schemas[t].root])
            /\ \A x \in DOMAIN schemas[t].indexes :
                LET index == schemas[t].indexes[x]
                IN  d.index[index.root] = KeysOf(d.table[schemas[t].root],
                        [k \in DOMAIN index.columns |-> column_index(schemas[t], index.columns[k].name) + 1])

\* No row of the INSERT gives its rowid.
ChoosesRowids(ins) ==
    \/ ins.columns # <<>>
    \/ \A k \in DOMAIN ins.source.rows : ins.source.rows[k][1] = Null

\* new_rowid, update_sequence: a rowid that AUTOINCREMENT chooses is larger
\* than every rowid it chose before, also of rows deleted since.
AutoincrementGrows ==
    OnKnownTable("insert") /\ Ran.stmt.table = "t" /\ ChoosesRowids(Ran.stmt) =>
        \A r \in DOMAIN AfterContent \ DOMAIN Content(Ran.before.table[Target.root]) :
            r > TrackedSequence(Ran.before, "t") /\ r <= TrackedSequence(Ran.after, "t")

\* vdbe/cursor.rs, btree/master.rs: sqlite_master names every b-tree once,
\* no b-tree is left without its row, and an index has its table.
CatalogSound ==
    \A d \in {db, saved} :
        LET entries == {d.master[k][2] : k \in DOMAIN d.master}
            rooted(kind) == {e.root : e \in {f \in entries : f.kind = kind}}
        IN  /\ Cardinality({e.name : e \in entries}) = Len(d.master)
            /\ rooted("table") = DOMAIN d.table /\ rooted("index") = DOMAIN d.index
            /\ \A e \in entries : e.kind = "index" => \E t \in entries : t.kind = "table" /\ t.name = e.tbl

\* bump_schema_cookie: a commit that changes sqlite_master raises the schema
\* cookie, by which other connections learn that their catalog is old.
CookieAnnouncesSchema == [][saved'.master # saved.master => saved'.cookie > saved.cookie]_vars

\* analyze, from_stat1_rows: the planner reads back, for each table that was
\* analyzed, its number of rows and the rows per leading key of its indexes.
AnalyzeCounts ==
    Is1("analyze") /\ ~Failed =>
        LET targets == IF Ran.stmt.target = "" THEN Ran.cat.schemas ELSE <<SchemaNamed(Ran.stmt.target)>>
            stats == load_stats(Ran.after)
            counted(schema) ==
                LET rows == Ran.before.table[schema.root]
                    leading(x) == {rows[k][2][column_index(schema, x.columns[1].name) + 1] : k \in DOMAIN rows}
                IN  /\ stats[schema.name].rows = <<Len(rows)>>
                    /\ \A k \in DOMAIN schema.indexes :
                          LET x == schema.indexes[k]
                              groups == Cardinality(leading(x))
                          IN  stats[schema.name].avg[x.name] = IF groups = 0 THEN 0 ELSE Len(rows) \div groups
        IN  \A k \in DOMAIN targets : targets[k].name # "sqlite_stat1" => counted(targets[k])

\* run_exec, is_schema_changing: a statement is compiled on "a catalog
\* reflecting what already ran" in the script, kept or read again.  The
\* table that ANALYZE keeps its counts in is found without the catalog.
CatalogIsCurrent ==
    front = "exec" /\ ran # <<>> =>
        LET now == read_schema_and_views(Ran.before)
            given_tables(schemas) == SelectSeq(schemas, LAMBDA t : t.name # "sqlite_stat1")
        IN  given_tables(Ran.cat.schemas) = given_tables(now.schemas) /\ Ran.cat.views = now.views
=============================================================================
