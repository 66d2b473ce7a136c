------------------------------- MODULE Catalog -------------------------------
(***************************************************************************)
(* sqlite_master and what is stored beside it: its rows, sqlite_sequence   *)
(* and sqlite_stat1 (btree/master.rs, btree/schema.rs), the opcodes that   *)
(* write them (vdbe/cursor.rs), and the catalog that is read back          *)
(* (schema/ddl_reader.rs, planner.rs).                                     *)
(*                                                                         *)
(* A database is [table, index, master, cookie]: the rows of every table   *)
(* b-tree and the entries of every index b-tree by root page, the rows of  *)
(* sqlite_master, and the schema cookie.  The SQL text of an entry is the  *)
(* parsed statement: [name, columns, constraints, without_rowid] of CREATE *)
(* TABLE, [columns, unique] of CREATE INDEX, <<>> of an automatic index,   *)
(* whose ordinal is the number at the end of its name.                     *)
(***************************************************************************)
EXTENDS VmCursor

MasterEntry(kind, name, tbl, root, sql) ==
    [kind |-> kind, name |-> name, tbl |-> tbl, root |-> root, sql |-> sql, ordinal |-> 0]

max_rowid(rows) == IF rows = <<>> THEN 0 ELSE rows[Len(rows)][1]

AppendRow(rows, x) == Append(rows, <<max_rowid(rows) + 1, x>>)

insert_master_row(db, entry) == [db EXCEPT !.master = AppendRow(@, entry)]
find_master(db, name) == SelectInSeq(db.master, LAMBDA r : r[2].name = name)
delete_master_row(db, name) == [db EXCEPT !.master = Removal(@, find_master(db, name))]
bump_schema_cookie(db) == [db EXCEPT !.cookie = @ + 1]

\* A page that no b-tree has; page 1 is sqlite_master's.
allocate_root(db) ==
    CHOOSE p \in 2 .. Cardinality(DOMAIN db.table \union DOMAIN db.index) + 2 :
        /\ p \notin DOMAIN db.table \union DOMAIN db.index
        /\ \A q \in 2 .. p - 1 : q \in DOMAIN db.table \union DOMAIN db.index
create_empty_table_root(db) == [db EXCEPT !.table = (allocate_root(db) :> <<>>) @@ @]
create_empty_index_root(db) == [db EXCEPT !.index = (allocate_root(db) :> <<>>) @@ @]
free_btree_pages(db, root) ==
    [db EXCEPT !.table = [p \in DOMAIN @ \ {root} |-> @[p]], !.index = [p \in DOMAIN @ \ {root} |-> @[p]]]

-----------------------------------------------------------------------------
(* sqlite_sequence and sqlite_stat1, made when they are first needed. *)

PlainTable(name, cols) ==
    [name |-> name, constraints |-> <<>>, without_rowid |-> FALSE,
     columns |-> [k \in DOMAIN cols |-> [name |-> cols[k], type |-> "BLOB", collation |-> "BINARY",
                                         constraints |-> <<>>]]]
EnsureTable(db, name, cols) ==
    IF find_master(db, name) # 0 THEN db
    ELSE bump_schema_cookie(insert_master_row(create_empty_table_root(db),
            MasterEntry("table", name, name, allocate_root(db), PlainTable(name, cols))))
ensure_sqlite_sequence_table(db) == EnsureTable(db, "sqlite_sequence", <<"name", "seq">>)
ensure_sqlite_stat1_table(db) == EnsureTable(db, "sqlite_stat1", <<"tbl", "idx", "stat">>)
RootOf(db, name) == db.master[find_master(db, name)][2].root
RowsOf(db, name) == IF find_master(db, name) = 0 THEN <<>> ELSE db.table[RootOf(db, name)]
NamedRow(rows, name) == SelectInSeq(rows, LAMBDA r : r[2][1] = VText(name))

TrackedSequence(db, name) ==
    LET rows == RowsOf(db, "sqlite_sequence")
    IN  IF NamedRow(rows, name) = 0 THEN 0 ELSE rows[NamedRow(rows, name)][2][2][2]
update_sequence(db, name, given) ==
    LET db1 == ensure_sqlite_sequence_table(db)
        row == <<VText(name), VInt(given)>>
    IN  [db1 EXCEPT !.table[RootOf(db1, "sqlite_sequence")] =
            CASE NamedRow(@, name) = 0 -> AppendRow(@, row)
              [] NamedRow(@, name) # 0 /\ given > TrackedSequence(db, name) ->
                    [@ EXCEPT ![NamedRow(@, name)][2] = row]
              [] OTHER -> @]

\* A slip: sqlite_sequence is written but not read.
new_rowid_IgnoresSequence(vm, i) ==
    On(vm, i, {"table"}, LAMBDA c :
        LET new == Saturate(max_rowid(vm.db.table[c.root]) + 1)
        IN  IF i.p5 = 0 THEN Put(vm, i.p2, VInt(new))
            ELSE Put([vm EXCEPT !.db = update_sequence(@, i.p4, new)], i.p2, VInt(new)))

\* One more than the largest rowid, and than the largest that the table's
\* AUTOINCREMENT (P5; P4 names the table) has given out.
new_rowid(vm, i) ==
    On(vm, i, {"table"}, LAMBDA c :
        LET top == max_rowid(vm.db.table[c.root])
            tracked == TrackedSequence(vm.db, i.p4)
            new == Saturate((IF i.p5 # 0 /\ tracked > top THEN tracked ELSE top) + 1)
        IN  IF i.p5 = 0 THEN Put(vm, i.p2, VInt(new))
            ELSE Put([vm EXCEPT !.db = update_sequence(@, i.p4, new)], i.p2, VInt(new)))

\* Statistics are text: a row count, for an index also the rows per key.
delete_stat1_rows_for_table(db, tbl) ==
    [db EXCEPT !.table[RootOf(db, "sqlite_stat1")] = SelectSeq(@, LAMBDA r : r[2][1] # VText(tbl))]
insert_stat1_row(db, tbl, idx, stat) ==
    [db EXCEPT !.table[RootOf(db, "sqlite_stat1")] = AppendRow(@, <<VText(tbl), idx, VText(stat)>>)]

\* A slip: the first group of equal keys is not counted.
count_index_entries_and_avg_eq_FromSecond(page) ==
    LET groups == Cardinality({k \in 2 .. Len(page) : page[k][1] # page[k - 1][1]})
    IN  <<Len(page), IF groups = 0 THEN 0 ELSE Len(page) \div groups>>

count_index_entries_and_avg_eq(page) ==
    LET groups == Cardinality({k \in DOMAIN page : k = 1 \/ page[k][1] # page[k - 1][1]})
    IN  <<Len(page), IF groups = 0 THEN 0 ELSE Len(page) \div groups>>

AnalyzeTable(db, target) ==
    LET db1 == insert_stat1_row(delete_stat1_rows_for_table(db, target.name), target.name, VNull,
                                <<Len(db.table[target.root])>>)
    IN  FoldLeft(LAMBDA d, x : insert_stat1_row(d, target.name, VText(x.name),
                                                count_index_entries_and_avg_eq(d.index[x.root])),
                 db1, target.indexes)
analyze(vm, i) ==
    Advance([vm EXCEPT !.db = FoldLeft(AnalyzeTable, ensure_sqlite_stat1_table(@), i.p4)])

NoStats == [rows |-> <<>>, avg |-> <<>>]
from_stat1_rows(rows) ==
    FoldLeft(LAMBDA s, r : IF IsNull(r[2][2]) THEN [s EXCEPT !.rows = <<r[2][3][2][1]>>]
                           ELSE [s EXCEPT !.avg = (r[2][2][2] :> r[2][3][2][2]) @@ @],
             NoStats, rows)
load_stats(db) ==
    LET rows == RowsOf(db, "sqlite_stat1")
    IN  [t \in {rows[k][2][1][2] : k \in DOMAIN rows} |->
            from_stat1_rows(SelectSeq(rows, LAMBDA r : r[2][1] = VText(t)))]

-----------------------------------------------------------------------------
(* CREATE and DROP. *)

\* A slip: the statement is stored without a new schema version.
create_table_NoCookie(vm, i) ==
    LET root == allocate_root(vm.db)
    IN  Advance([vm EXCEPT !.db = insert_master_row(create_empty_table_root(@),
                    MasterEntry("table", i.p4.name, i.p4.name, root, i.p4.sql))])

create_table(vm, i) ==
    LET root == allocate_root(vm.db)
    IN  Advance([vm EXCEPT !.db = bump_schema_cookie(insert_master_row(create_empty_table_root(@),
                    MasterEntry("table", i.p4.name, i.p4.name, root, i.p4.sql)))])

create_view(vm, i) ==
    Advance([vm EXCEPT !.db = bump_schema_cookie(insert_master_row(@,
                MasterEntry("view", i.p4.name, i.p4.name, 0, i.p4.sql)))])

\* Keys of the stored columns, then the rowid; no key is looked up first.
populate_index_from_table(vm, table_root, index_root, columns) ==
    LET key(r) == [k \in DOMAIN columns |-> IF columns[k] < Len(r[2]) THEN r[2][columns[k] + 1] ELSE VNull]
                  \o <<VInt(r[1])>>
    IN  FoldLeft(LAMBDA v, r : InsertEntry(v, index_root, key(r)), vm, vm.db.table[table_root])
create_index(vm, i) ==
    LET root == allocate_root(vm.db)
        built == populate_index_from_table([vm EXCEPT !.db = create_empty_index_root(@)], i.p4.root, root,
                                           i.p4.columns)
    IN  Advance([built EXCEPT !.db = bump_schema_cookie(insert_master_row(@,
                    MasterEntry("index", i.p4.name, i.p4.table, root, i.p4.sql)))])

\* Pages first, then the row of sqlite_master, which must be there.
DropTree(vm, name, root) ==
    IF vm.stop # "" THEN vm
    ELSE IF root \notin DOMAIN vm.db.table \union DOMAIN vm.db.index \/ find_master(vm.db, name) = 0
    THEN Malformed(vm)
    ELSE [vm EXCEPT !.db = delete_master_row(free_btree_pages(@, root), name)]
DropFinished(vm) == IF vm.stop # "" THEN vm ELSE Advance([vm EXCEPT !.db = bump_schema_cookie(@)])

\* A slip: the indexes of the table stay.
drop_table_KeepsIndexes(vm, i) == DropFinished(DropTree(vm, i.p4.name, i.p4.root))

drop_table(vm, i) ==
    LET without == FoldLeft(LAMBDA v, x : DropTree(v, x.name, x.root), vm, i.p4.indexes)
    IN  DropFinished(DropTree(without, i.p4.name, i.p4.root))
drop_index(vm, i) == DropFinished(DropTree(vm, i.p4.name, i.p4.root))

-----------------------------------------------------------------------------
(* Reading the catalog.  A column's constraints and a table's are records  *)
(* with a kind k.                                                          *)

Has(constraints, k) == \E n \in DOMAIN constraints : constraints[n].k = k
is_integer_primary_key_inline(def) ==
    /\ def.type = "INTEGER" /\ Has(def.constraints, "primarykey")
    /\ \A n \in DOMAIN def.constraints : def.constraints[n].k = "primarykey" => ~def.constraints[n].desc
primary_key_single_column(c) == IF c.k = "primarykey" /\ Len(c.columns) = 1 THEN c.columns[1] ELSE ""

\* Two readings of INTEGER PRIMARY KEY: the 0-based position of the column
\* that stands for the rowid, and the name of the one that has no index.
rowid_alias_from_sql(create) ==
    LET inline == SelectInSeq(create.columns, is_integer_primary_key_inline)
        only == create.columns[1]
        keyed == \E n \in DOMAIN create.constraints : primary_key_single_column(create.constraints[n]) = only.name
    IN  CASE create.without_rowid -> -1
          [] ~create.without_rowid /\ inline # 0 -> inline - 1
          [] OTHER -> IF Len(create.columns) = 1 /\ only.type = "INTEGER" /\ keyed THEN 0 ELSE -1
rowid_alias_column_name(create) ==
    LET inline == SelectInSeq(create.columns, is_integer_primary_key_inline)
        named(c) == \E k \in DOMAIN create.columns : /\ create.columns[k].type = "INTEGER"
                                                     /\ create.columns[k].name = primary_key_single_column(c)
        at == SelectInSeq(create.constraints, named)
    IN  CASE create.without_rowid -> ""
          [] ~create.without_rowid /\ inline # 0 -> create.columns[inline].name
          [] OTHER -> IF at = 0 THEN "" ELSE primary_key_single_column(create.constraints[at])

\* The columns of the automatic indexes, in the order of their ordinals.
IndexedColumn(name, collation) == [name |-> name, desc |-> FALSE, collation |-> collation]
same_key_list(a, b) == [k \in DOMAIN a |-> a[k].name] = [k \in DOMAIN b |-> b[k].name]
autoindex_key_lists(create) ==
    LET alias == rowid_alias_column_name(create)
        push(out, cols) == IF \E k \in DOMAIN out : same_key_list(out[k], cols) THEN out ELSE Append(out, cols)
        of_column(def) ==
            LET col == <<IndexedColumn(def.name, def.collation)>>
            IN  (IF Has(def.constraints, "primarykey") /\ def.name # alias /\ ~create.without_rowid THEN <<col>> ELSE <<>>)
                \o (IF Has(def.constraints, "unique") THEN <<col>> ELSE <<>>)
        of_constraint(c) ==
            CASE c.k = "check" -> <<>>
              [] c.k = "primarykey" /\ (create.without_rowid \/ c.columns = <<alias>>) -> <<>>
              [] OTHER -> <<[k \in DOMAIN c.columns |-> IndexedColumn(c.columns[k], "BINARY")]>>
    IN  FoldLeft(push, <<>>, FlattenSeq([k \in DOMAIN create.columns |-> of_column(create.columns[k])])
                             \o FlattenSeq([k \in DOMAIN create.constraints |-> of_constraint(create.constraints[k])]))

table_schema(entry) ==
    LET cols == entry.sql.columns
    IN  [name |-> entry.name, root |-> entry.root, sql |-> entry.sql, without_rowid |-> entry.sql.without_rowid,
         columns |-> [k \in DOMAIN cols |-> cols[k].name], types |-> [k \in DOMAIN cols |-> cols[k].type],
         collations |-> [k \in DOMAIN cols |-> cols[k].collation],
         rowid_alias |-> rowid_alias_from_sql(entry.sql), indexes |-> <<>>, unresolved_autoindex |-> FALSE]
index_schema(entry) ==
    [name |-> entry.name, root |-> entry.root, unique |-> entry.sql.unique, columns |-> entry.sql.columns]

\* Declared indexes are attached in the order of their rows, the automatic
\* ones after them; of two tables of a name, the later gets the indexes.
read_schema_and_views(db) ==
    LET entries == [k \in DOMAIN db.master |-> db.master[k][2]]
        of_kind(k) == SelectSeq(entries, LAMBDA e : e.kind = k)
        declared == SelectSeq(of_kind("index"), LAMBDA e : e.sql # <<>>)
        automatic == SelectSeq(of_kind("index"), LAMBDA e : e.sql = <<>>)
        tables == [k \in DOMAIN of_kind("table") |-> table_schema(of_kind("table")[k])]
        position(s, t) == SelectLastInSeq(s, LAMBDA x : x.name = t)
        attach(s, e) == IF position(s, e.tbl) = 0 THEN s
                        ELSE [s EXCEPT ![position(s, e.tbl)].indexes = Append(@, index_schema(e))]
        attach_automatic(s, e) ==
            LET at == position(s, e.tbl)
                lists == autoindex_key_lists(s[at].sql)
            IN  IF at = 0 THEN s
                ELSE IF e.ordinal \in DOMAIN lists
                THEN [s EXCEPT ![at].indexes = Append(@, [name |-> e.name, root |-> e.root, unique |-> TRUE,
                                                          columns |-> lists[e.ordinal]])]
                ELSE [s EXCEPT ![at].unresolved_autoindex = TRUE]
    IN  [schemas |-> FoldLeft(attach_automatic, FoldLeft(attach, tables, declared), automatic),
         views |-> [k \in DOMAIN of_kind("view") |-> of_kind("view")[k].sql]]
=============================================================================
