----------------------------- MODULE CodegenRow -----------------------------
(***************************************************************************)
(* What every SELECT of src/codegen/select shares: the cursors of a scan,  *)
(* the result columns and DISTINCT (projection.rs), ORDER BY terms         *)
(* (order_by.rs) and the LIMIT and OFFSET counters (limit_scan.rs).        *)
(*                                                                         *)
(* A select is a record [distinct, columns, from, where, group_by, having, *)
(* order_by, limit, compound], optional parts as sequences of at most one  *)
(* element (limit: <<limit, offset>>).  The closure that consumes a row,   *)
(* the sink, is a record [kind, ...] that EmitSink interprets.             *)
(***************************************************************************)
EXTENDS CodegenExpr

StarColumn == [k |-> "star"]
TableStar(t) == [k |-> "tablestar", t |-> t]
ResultExpr(e, alias) == [k |-> "expr", e |-> e, alias |-> alias]
OrderTerm(e, desc, nulls) == [e |-> e, desc |-> desc, nulls |-> nulls]

\* The four cursors of one scan, of a compound's arm n and the first number
\* after n arms.
for_arm(n) == [table |-> 4 * n, sort |-> 4 * n + 1, pseudo |-> 4 * n + 2, distinct |-> 4 * n + 3]
for_standalone_select == for_arm(0)
after_arms(n) == 4 * n

ScopeOf(schema, cursor) == single(schema, cursor)

-----------------------------------------------------------------------------
(* LIMIT and OFFSET. *)

\* limit is <<>>, or the register of the limit and that of the offset, if any.
compile_limit_setup(em, scope, select) ==
    LET em1 == compile_value(em, scope, select.limit[1])
        em2 == compile_value(em1, scope, select.limit[2])
    IN  CASE select.limit = <<>> -> [em |-> em, limit |-> <<>>]
          [] Len(select.limit) = 1 -> [em |-> em1, limit |-> <<em1.out>>]
          [] OTHER -> [em |-> em2, limit |-> <<em1.out, em2.out>>]

emit_offset_guard(em, limit, row_skip) ==
    IF Len(limit) < 2 THEN em ELSE EmitTo(em, I("IfPos", limit[2], 0, 1), row_skip)
emit_limit_guard(em, limit, end) ==
    IF limit = <<>> THEN em
    ELSE Asm(new_label(em), <<J("IfNotZero", limit[1], em.nlabel, 0), Goto(end), At(em.nlabel)>>)
emit_limit_guard_CountsSkipped(em, limit, row_skip, end) ==
    emit_offset_guard(emit_limit_guard(em, limit, end), limit, row_skip)
\* A row that OFFSET skips does not count against LIMIT.
LimitGuards(em, limit, row_skip, end) ==
    emit_limit_guard(emit_offset_guard(em, limit, row_skip), limit, end)

-----------------------------------------------------------------------------
(* Result columns. *)

\* A star stands for the columns in order; the columns of the scan's own
\* schema are read by name.
result_columns(select, schema) ==
    FlattenSeq([k \in DOMAIN select.columns |->
        IF select.columns[k].k = "expr" THEN <<[k |-> "expr", e |-> select.columns[k].e]>>
        ELSE [j \in DOMAIN schema.columns |-> [k |-> "column", c |-> schema.columns[j]]]])
AllColumns(schema) == [j \in DOMAIN schema.columns |-> [k |-> "column", c |-> schema.columns[j]]]

RECURSIVE strip_collate(_)
strip_collate(e) == IF e.k = "collate" THEN strip_collate(e.e) ELSE e

CollationOfColumn(schema, c) ==
    LET n == column_index(schema, c)
    IN  IF n >= 0 /\ n + 1 \in DOMAIN schema.collations THEN schema.collations[n + 1] ELSE "BINARY"
result_column_collations(schema, cols) ==
    [k \in DOMAIN cols |->
        CASE cols[k].k = "column" -> CollationOfColumn(schema, cols[k].c)
          [] collation_of(cols[k].e) # "none" -> collation_of(cols[k].e)
          [] strip_collate(cols[k].e).k = "col" -> CollationOfColumn(schema, strip_collate(cols[k].e).c)
          [] OTHER -> "BINARY"]

\* A sorted row's rowid alias is an ordinary column of the pseudo table.
CompileResultColumn(em, schema, col, cursor, pseudo) ==
    LET c == IF col.k = "column" THEN col.c
             ELSE IF col.e.k = "col" /\ col.e.t = "" THEN col.e.c ELSE ""
        n == IF c = "" THEN -1 ELSE column_index(schema, c)
        em1 == alloc(em)
    IN  CASE pseudo /\ n >= 0 /\ schema.rowid_alias = n -> Emit(em1, I("Column", cursor, n, em1.out))
          [] col.k = "expr" -> compile_value(em, ScopeOf(schema, cursor), col.e)
          [] OTHER -> IF n < 0 THEN Fail(em1, "UnknownColumn")
                      ELSE emit_column_read(em1, schema, cursor, n, em1.out)

\* The registers of a row: consecutive, copied there when they are not.  out
\* is the first one.
InARow(em, regs) ==
    CASE regs = <<>> -> alloc(em)
      [] regs # <<>> /\ Contiguous(regs) -> [em EXCEPT !.out = regs[1]]
      [] OTHER -> [CopyAll(alloc_n(em, Len(regs)), regs, em.nreg) EXCEPT !.out = em.nreg]
compile_row_values(em, schema, cols, cursor, pseudo) ==
    LET step(acc, col) == LET m == CompileResultColumn(acc[1], schema, col, cursor, pseudo)
                          IN  <<m, Append(acc[2], m.out)>>
        done == Through(step, <<em, <<>>>>, cols)
    IN  InARow(done[1], done[2])

\* Skips a row whose key is there already, and remembers the others.
emit_dedup_check(em, dedup_cursor, first, collations, skip) ==
    Asm(em, <<J4("Found", dedup_cursor, skip, first, collations),
              I4("IdxInsert", dedup_cursor, first, 0, collations)>>)
emit_distinct_guard(em, select, schema, cursor, pseudo, distinct_cursor, skip) ==
    LET cols == result_columns(select, schema)
        em1 == compile_row_values(em, schema, cols, cursor, pseudo)
    IN  IF ~select.distinct THEN em
        ELSE emit_dedup_check(em1, distinct_cursor, em1.out, result_column_collations(schema, cols), skip)

\* The rows of INSERT ... SELECT, compiled in a module above this one.
CONSTANT insert_row(_, _, _, _)

\* What a sink does with the row in registers first .. first + n - 1: emit it,
\* keep its first value, store it in a materialized table, or what a compound
\* SELECT does with the rows of its arms: drop duplicates, then sort or emit.
EmitSink(em, sink, first, n) ==
    LET em1 == alloc_n(em, 2)
        record == em.nreg
        dedup == IF sink.dedup # <<>> THEN emit_dedup_check(new_label(em), sink.dedup[1], first, Binary(n), em.nlabel)
                 ELSE em
        skip == dedup.nlabel
        emitted == IF sink.sort # <<>>
                   THEN Asm(alloc(dedup), <<I("MakeRecord", first, n, record), I("SorterInsert", sink.sort[1], record, 0)>>)
                   ELSE place(Emit(LimitGuards(new_label(dedup), sink.limit, skip, sink.end),
                                   I("ResultRow", first, n, 0)), skip)
    IN  CASE sink.kind = "row" -> Emit(em, I("ResultRow", first, n, 0))
          [] sink.kind = "scalar" -> Emit(em, I("Copy", first, sink.dest, 0))
          [] sink.kind = "table" ->
                Asm(em1, <<I("Sequence", sink.dest, em.nreg, 0), I("MakeRecord", first, n, em.nreg + 1),
                           I("Insert", sink.dest, em.nreg, em.nreg + 1)>>)
          [] sink.kind = "insert" -> insert_row(em, sink, first, n)
          [] sink.kind = "compound" -> IF sink.dedup # <<>> THEN place(emitted, em.nlabel) ELSE emitted
RowSink == [kind |-> "row"]
ScalarSink(dest) == [kind |-> "scalar", dest |-> dest]
TableSink(cursor) == [kind |-> "table", dest |-> cursor]

\* A scan to compile: the select, its table's schema and cursors, the label
\* of its end, the statistics it may use and the sink of its rows.
Scan(select, schema, cursors, end, stats, sink) ==
    [select |-> select, schema |-> schema, cursors |-> cursors, end |-> end, stats |-> stats, sink |-> sink]

emit_row_via_sink(em, q, cursor, pseudo) ==
    LET cols == result_columns(q.select, q.schema)
        em1 == compile_row_values(em, q.schema, cols, cursor, pseudo)
    IN  EmitSink(em1, q.sink, em1.out, Len(cols))
GuardedRow(em, q, limit, row_skip, cursor, pseudo) ==
    emit_row_via_sink(LimitGuards(em, limit, row_skip, q.end), q, cursor, pseudo)

-----------------------------------------------------------------------------
(* ORDER BY terms.  A plan is [target, descending, nulls_first, collation],*)
(* the target a column, an expression or an error.                         *)

ByColumn(n) == [k |-> "column", idx |-> n]
ByExpr(e) == [k |-> "expr", e |-> e]
OrderError(error) == [k |-> "error", error |-> error]

order_by_entries(select, schema) ==
    FlattenSeq([k \in DOMAIN select.columns |->
        IF select.columns[k].k = "expr" THEN <<[e |-> select.columns[k].e, alias |-> select.columns[k].alias]>>
        ELSE [j \in DOMAIN schema.columns |-> [e |-> Col("", schema.columns[j]), alias |-> ""]]])
output_column_names(select, schema) ==
    LET entries == order_by_entries(select, schema)
    IN  [k \in DOMAIN entries |->
            CASE entries[k].alias # "" -> entries[k].alias
              [] entries[k].alias = "" /\ entries[k].e.k = "col" -> entries[k].e.c
              [] OTHER -> "column" \o ToString(k)]

ColumnTarget(schema, c) ==
    IF column_index(schema, c) >= 0 THEN ByColumn(column_index(schema, c)) ELSE OrderError("UnknownColumn")
order_by_target_for_expr(e, schema) ==
    IF e.k = "col" /\ e.t = "" THEN ColumnTarget(schema, e.c) ELSE ByExpr(e)
\* A number is a position, a name an alias before it is a column.
resolve_order_by_target(e, select, schema) ==
    LET entries == order_by_entries(select, schema)
        aliased == SelectInSeq(entries, LAMBDA x : x.alias = e.c)
    IN  CASE e.k = "lit" /\ e.v[1] = "int" ->
                IF e.v[2] \in DOMAIN entries THEN order_by_target_for_expr(entries[e.v[2]].e, schema)
                ELSE OrderError("Unsupported")
          [] e.k = "col" /\ e.t = "" ->
                IF aliased # 0 THEN order_by_target_for_expr(entries[aliased].e, schema)
                ELSE ColumnTarget(schema, e.c)
          [] OTHER -> order_by_target_for_expr(e, schema)

\* NULLs come first in ascending order unless the term says otherwise.
resolve_order_by(select, schema) ==
    LET plan(term) ==
            LET target == resolve_order_by_target(strip_collate(term.e), select, schema)
            IN  [target |-> target, descending |-> term.desc,
                 nulls_first |-> IF term.nulls = "" THEN ~term.desc ELSE term.nulls = "first",
                 collation |-> CASE collation_of(term.e) # "none" -> collation_of(term.e)
                                 [] target.k = "column" /\ target.idx + 1 \in DOMAIN schema.collations ->
                                        schema.collations[target.idx + 1]
                                 [] OTHER -> "BINARY"]
    IN  [k \in DOMAIN select.order_by |-> plan(select.order_by[k])]
OrderByError(plans) ==
    LET at == SelectInSeq(plans, LAMBDA p : p.target.k = "error")
    IN  IF at = 0 THEN "" ELSE plans[at].target.error
SortKey(plan, index) ==
    [index |-> index, descending |-> plan.descending, nulls_first |-> plan.nulls_first,
     collation |-> plan.collation]
=============================================================================
